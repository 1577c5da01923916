------------------------------- MODULE FileProofs -------------------------------
(***************************************************************************)
(* What a session shows and lends of the user's files, for any pictures,   *)
(* manifests, leaves and writers.  The pack's invariant ties four reads at *)
(* four moments together: the task under way, the pack taken up, the       *)
(* picture uploaded and the frame drawn.                                   *)
(***************************************************************************)
EXTENDS SessionFiles, FiniteSetTheorems, WellFoundedInduction, TLAPS

----------------------------------------------------------------------------
(***************************************************************************)
(* What a session lends, for any release and any changes of its files.     *)
(* The invariant adds to LentIsOriginal that an open session on archives   *)
(* holds originals only: that is why it need not look at the disk again.   *)
(***************************************************************************)

HeldIsOriginal ==
  session = "open" /\ layout = "archives" => \A leaf \in Leaf : held[leaf] = "original"

MediaInv == TypeOK /\ LentIsOriginal /\ HeldIsOriginal

(* What one borrow does, whatever it reads.                                *)
LEMMA LendShape ==
  ASSUME MediaInv, NEW leaf \in Leaf, NEW bytes \in Bytes, reads < MaxReads,
         Lend(leaf, bytes)
  PROVE  /\ reads' \in 0..MaxReads
         /\ views' \in [Leaf -> [buffer : 0..MaxReads, bytes : Bytes]]
         /\ answer' \in {leaf, NoAnswer}
         /\ answer' = leaf <=> bytes = "original"
         /\ \A other \in Leaf : views[other] # NoView => views'[other] = views[other]
         /\ \A other \in Leaf : views'[other] # NoView => views'[other].bytes = "original"
<1>. USE MediaAssumption DEF MediaInv, TypeOK, LentIsOriginal
<1>1. CASE bytes # "original"
  BY <1>1 DEF Lend
<1>2. CASE bytes = "original" /\ views[leaf] # NoView
  BY <1>2 DEF Lend
<1>3. CASE bytes = "original" /\ views[leaf] = NoView
  <2>1. /\ answer' = leaf /\ reads' = reads + 1
        /\ views' = [views EXCEPT ![leaf] = [buffer |-> reads + 1, bytes |-> bytes]]
    BY <1>3 DEF Lend
  <2>2. reads + 1 \in 0..MaxReads
    OBVIOUS
  <2>3. QED
    BY <2>1, <2>2, <1>3
<1>. QED
  BY <1>1, <1>2, <1>3

LEMMA MediaInvInit == Init => MediaInv
  BY MediaAssumption DEF Init, MediaInv, TypeOK, LentIsOriginal, HeldIsOriginal, NoViews, NoView,
       Bytes, Layouts

(* Every step preserves the invariant: changes of the disk cannot reach    *)
(* what is held or lent, and only originals become either.                 *)
LEMMA MediaInvNext == MediaInv /\ [Next]_vars => MediaInv'
<1>. SUFFICES ASSUME MediaInv, [Next]_vars PROVE MediaInv'
  OBVIOUS
<1>1. CASE ChangeFile
  <2>1. disk' \in [Leaf -> Bytes]
    BY <1>1 DEF ChangeFile, MediaInv, TypeOK
  <2>2. QED
    BY <2>1, <1>1 DEF ChangeFile, MediaInv, TypeOK, LentIsOriginal, HeldIsOriginal
<1>2. CASE Begin
  BY <1>2 DEF Begin, MediaInv, TypeOK, LentIsOriginal, HeldIsOriginal
<1>3. CASE OpenArchives
  BY <1>3 DEF OpenArchives, MediaInv, TypeOK, LentIsOriginal, HeldIsOriginal
<1>4. CASE VerifyMember
  BY <1>4 DEF VerifyMember, MediaInv, TypeOK, LentIsOriginal, HeldIsOriginal
<1>5. CASE Borrow
  <2>1. PICK leaf \in Leaf : Lend(leaf, ReadNow(leaf))
    BY <1>5 DEF Borrow
  <2>2. ReadNow(leaf) \in Bytes
    BY DEF ReadNow, MediaInv, TypeOK
  <2>3. reads < MaxReads /\ UNCHANGED <<layout, disk, session, checked, held>>
    BY <1>5 DEF Borrow
  <2>4. /\ reads' \in 0..MaxReads
        /\ views' \in [Leaf -> [buffer : 0..MaxReads, bytes : Bytes]]
        /\ answer' \in Leaf \cup {NoAnswer}
        /\ \A other \in Leaf : views'[other] # NoView => views'[other].bytes = "original"
    BY <2>1, <2>2, <2>3, LendShape
  <2>5. QED
    BY <2>3, <2>4 DEF MediaInv, TypeOK, LentIsOriginal, HeldIsOriginal
<1>6. CASE Close
  BY <1>6, MediaAssumption DEF Close, NoViews, NoView, Bytes, MediaInv, TypeOK, LentIsOriginal,
       HeldIsOriginal
<1>7. CASE UNCHANGED vars
  BY <1>7 DEF vars, MediaInv, TypeOK, LentIsOriginal, HeldIsOriginal
<1>. QED
  BY <1>1, <1>2, <1>3, <1>4, <1>5, <1>6, <1>7 DEF Next

(* The media session's invariant, for any leaves and any changes.          *)
THEOREM MediaInvariant == Spec => []MediaInv
  BY MediaInvInit, MediaInvNext, PTL DEF Spec

(* Every span lent is of the original leaf.                                *)
THEOREM LentIsOriginalHolds == Spec => []LentIsOriginal
<1>1. MediaInv => LentIsOriginal
  BY DEF MediaInv
<1>. QED
  BY <1>1, MediaInvariant, PTL

(* What a borrow that finds its leaf says of the disk at that moment.      *)
LEMMA BorrowStep ==
  ASSUME MediaInv, Borrow
  PROVE  IF layout = "archives" THEN answer' # NoAnswer
         ELSE answer' # NoAnswer => disk[answer'] = "original"
<1>1. PICK leaf \in Leaf : Lend(leaf, ReadNow(leaf))
  BY DEF Borrow
<1>2. ReadNow(leaf) \in Bytes
  BY DEF ReadNow, MediaInv, TypeOK
<1>3. answer' \in {leaf, NoAnswer} /\ (answer' = leaf <=> ReadNow(leaf) = "original")
  BY <1>1, <1>2, LendShape DEF Borrow
<1>4. CASE layout = "archives"
  BY <1>3, <1>4, MediaAssumption DEF ReadNow, Borrow, MediaInv, HeldIsOriginal
<1>5. CASE layout # "archives"
  BY <1>3, <1>5 DEF ReadNow
<1>. QED
  BY <1>4, <1>5

(* A borrow answers what the disk holds now, an archive what it held.      *)
THEOREM BorrowAnswersThePresentHolds == Spec => BorrowAnswersThePresent
  BY BorrowStep, MediaInvariant, PTL DEF Spec, BorrowAnswersThePresent

(* Only a borrow touches the views, and never one that was lent.           *)
LEMMA LoanStep ==
  ASSUME MediaInv, [Next]_vars, session = "open", session' = "open"
  PROVE  \A leaf \in Leaf : views[leaf] # NoView => views'[leaf] = views[leaf]
<1>1. CASE Borrow
  <2>1. PICK leaf \in Leaf : Lend(leaf, ReadNow(leaf))
    BY <1>1 DEF Borrow
  <2>2. ReadNow(leaf) \in Bytes
    BY DEF ReadNow, MediaInv, TypeOK
  <2>. QED
    BY <1>1, <2>1, <2>2, LendShape DEF Borrow
<1>2. CASE ~Borrow
  BY <1>2 DEF Next, ChangeFile, Begin, OpenArchives, VerifyMember, Close, vars
<1>. QED
  BY <1>1, <1>2

(* No loan moves or changes while its session lasts.                       *)
THEOREM LoansAreStableHolds == Spec => LoansAreStable
  BY LoanStep, MediaInvariant, PTL DEF Spec, LoansAreStable

----------------------------------------------------------------------------
(***************************************************************************)
(* What an accepted reference trace is, for texts of any length and any    *)
(* writers.  The grammar keeps a list of the calls that are open; that its *)
(* texts are well nested, by the definition that counts calls and returns, *)
(* is an induction over the text.  The library's induction theorems take   *)
(* an operator, so the least counterexample of a set is taken instead.     *)
(***************************************************************************)

LEMMA NatOrder ==
  \E R : IsWellFoundedOn(R, Nat) /\ \A x, y \in Nat : y < x => <<y, x>> \in R
<1>1. \A x, y \in Nat : y < x => <<y, x>> \in OpToRel(<, Nat)
  BY DEF OpToRel
<1>. QED
  BY <1>1, NatLessThanWellFounded

(* A set with zero that is closed under the successor has every number.    *)
LEMMA NatSetInduction ==
  ASSUME NEW S, 0 \in S, \A n \in Nat : n \in S => n + 1 \in S
  PROVE  Nat \subseteq S
<1>1. PICK R : IsWellFoundedOn(R, Nat) /\ \A x, y \in Nat : y < x => <<y, x>> \in R
  BY NatOrder
<1>2. SUFFICES ASSUME Nat \ S # {} PROVE FALSE
  OBVIOUS
<1>3. PICK x \in Nat \ S : \A y \in Nat \ S : ~(<<y, x>> \in R)
  BY <1>1, <1>2, WFMin
<1>4. x \in Nat /\ x # 0
  BY <1>3
<1>5. x - 1 \in Nat /\ x - 1 < x /\ (x - 1) + 1 = x
  BY <1>4
<1>6. x - 1 \in S
  BY <1>1, <1>3, <1>5, <1>4
<1>. QED
  BY <1>3, <1>5, <1>6

-----------------------------------------------------------------------------
(* Counting the events of a kind in a stretch of a text.                   *)
LEMMA CountIsNat ==
  ASSUME NEW text, NEW kind, NEW from \in Nat, NEW to \in Nat
  PROVE  NumberOf(text, kind, from, to) \in Nat
<1>1. IsFiniteSet(from..to) /\ {i \in from..to : text[i].kind = kind} \in SUBSET (from..to)
  BY FS_Interval
<1>. QED
  BY <1>1, FS_Subset, FS_CardinalityType DEF NumberOf

LEMMA CountJoins ==
  ASSUME NEW text, NEW kind, NEW from \in Nat, NEW mid \in Nat, NEW to \in Nat,
         from <= mid + 1, mid <= to
  PROVE  NumberOf(text, kind, from, to) = NumberOf(text, kind, from, mid) + NumberOf(text, kind, mid + 1, to)
<1>. DEFINE A == {i \in from..mid : text[i].kind = kind}
            B == {i \in (mid + 1)..to : text[i].kind = kind}
<1>1. IsFiniteSet(from..mid) /\ IsFiniteSet((mid + 1)..to)
  BY FS_Interval
<1>2. IsFiniteSet(A) /\ IsFiniteSet(B)
  BY <1>1, FS_Subset
<1>3. A \cap B = {}
  OBVIOUS
<1>4. {i \in from..to : text[i].kind = kind} = A \cup B
  OBVIOUS
<1>5. Cardinality(A \cap B) = 0
  BY <1>3, FS_EmptySet
<1>6. Cardinality(A \cup B) = Cardinality(A) + Cardinality(B) - Cardinality(A \cap B)
  BY <1>2, FS_Union
<1>7. Cardinality(A) \in Nat /\ Cardinality(B) \in Nat
  BY <1>2, FS_CardinalityType
<1>8. /\ NumberOf(text, kind, from, to) = Cardinality(A \cup B)
      /\ NumberOf(text, kind, from, mid) = Cardinality(A)
      /\ NumberOf(text, kind, mid + 1, to) = Cardinality(B)
  BY <1>4 DEF NumberOf
<1>. HIDE DEF A, B
<1>. QED
  BY <1>5, <1>6, <1>7, <1>8

LEMMA CountOfOne ==
  ASSUME NEW text, NEW kind, NEW at \in Nat
  PROVE  NumberOf(text, kind, at, at) = IF text[at].kind = kind THEN 1 ELSE 0
<1>1. {i \in at..at : text[i].kind = kind} = IF text[at].kind = kind THEN {at} ELSE {}
  OBVIOUS
<1>. QED
  BY <1>1, FS_Singleton, FS_EmptySet DEF NumberOf

LEMMA CountOfNone ==
  ASSUME NEW text, NEW kind, NEW from \in Nat, NEW to \in Nat,
         \A i \in from..to : text[i].kind # kind
  PROVE  NumberOf(text, kind, from, to) = 0
<1>1. {i \in from..to : text[i].kind = kind} = {}
  OBVIOUS
<1>. QED
  BY <1>1, FS_EmptySet DEF NumberOf

(* Calls and returns are four different kinds.                             *)
LEMMA CallKinds ==
  /\ \A call \in Calls : ReturnOf[call] \notin Calls
  /\ \A a, b \in Calls : ReturnOf[a] = ReturnOf[b] => a = b
  BY DEF Calls, ReturnOf

Balanced(text, from, to) == \A call \in Calls : Closes(text, call, from, to)

IsNeutral(kind) == kind \notin Calls /\ \A call \in Calls : kind # ReturnOf[call]

LEMMA NothingIsBalanced ==
  ASSUME NEW text, NEW from \in Nat, NEW to \in Nat,
         \A i \in from..to : IsNeutral(text[i].kind)
  PROVE  Balanced(text, from, to)
  BY CountOfNone DEF Balanced, Closes, IsNeutral

LEMMA BalancedJoins ==
  ASSUME NEW text, NEW from \in Nat, NEW mid \in Nat, NEW to \in Nat, from <= mid + 1, mid <= to,
         Balanced(text, from, mid), Balanced(text, mid + 1, to)
  PROVE  Balanced(text, from, to)
<1>. SUFFICES ASSUME NEW call \in Calls PROVE Closes(text, call, from, to)
  BY DEF Balanced
<1>1. /\ NumberOf(text, call, from, to) = NumberOf(text, call, from, mid) + NumberOf(text, call, mid + 1, to)
      /\ NumberOf(text, ReturnOf[call], from, to)
           = NumberOf(text, ReturnOf[call], from, mid) + NumberOf(text, ReturnOf[call], mid + 1, to)
  BY CountJoins
<1>. QED
  BY <1>1 DEF Balanced, Closes

(* A call, what is balanced, and the call's return are balanced.           *)
LEMMA CallAndReturn ==
  ASSUME NEW text, NEW begun \in Nat \ {0}, NEW back \in Nat, begun < back, NEW call \in Calls,
         text[begun].kind = call, text[back].kind = ReturnOf[call],
         Balanced(text, begun + 1, back - 1)
  PROVE  Balanced(text, begun, back)
<1>. SUFFICES ASSUME NEW other \in Calls PROVE Closes(text, other, begun, back)
  BY DEF Balanced
<1>. DEFINE N(kind, from, to) == NumberOf(text, kind, from, to)
<1>1. back - 1 \in Nat /\ begun \in Nat /\ begun + 1 \in Nat /\ (back - 1) + 1 = back
  OBVIOUS
<1>2. ASSUME NEW kind
      PROVE  N(kind, begun, back) = N(kind, begun, begun) + N(kind, begun + 1, back - 1) + N(kind, back, back)
  <2>1. N(kind, begun, back) = N(kind, begun, begun) + N(kind, begun + 1, back)
    BY <1>1, CountJoins
  <2>2. N(kind, begun + 1, back) = N(kind, begun + 1, back - 1) + N(kind, back, back)
    <3>1. \A mid \in Nat : begun + 1 <= mid + 1 /\ mid <= back =>
            N(kind, begun + 1, back) = N(kind, begun + 1, mid) + N(kind, mid + 1, back)
      <4>. SUFFICES ASSUME NEW mid \in Nat, begun + 1 <= mid + 1, mid <= back
                    PROVE  N(kind, begun + 1, back) =
                             N(kind, begun + 1, mid) + N(kind, mid + 1, back)
        OBVIOUS
      <4>. QED
        BY <1>1, CountJoins
    <3>. HIDE DEF N
    <3>2. N(kind, begun + 1, back) = N(kind, begun + 1, back - 1) + N(kind, (back - 1) + 1, back)
      BY <1>1, <3>1
    <3>. QED
      BY <1>1, <3>2
  <2>3. /\ N(kind, begun, begun) \in Nat /\ N(kind, begun + 1, back - 1) \in Nat
        /\ N(kind, back, back) \in Nat
    BY <1>1, CountIsNat
  <2>. HIDE DEF N
  <2>. QED
    BY <2>1, <2>2, <2>3
<1>3. N(other, begun + 1, back - 1) = N(ReturnOf[other], begun + 1, back - 1)
  BY DEF Balanced, Closes
<1>4. /\ N(other, begun, begun) = N(ReturnOf[other], back, back)
      /\ N(ReturnOf[other], begun, begun) = 0 /\ N(other, back, back) = 0
  <2>1. /\ text[back].kind = ReturnOf[other] <=> text[begun].kind = other
        /\ text[begun].kind # ReturnOf[other] /\ text[back].kind # other
    <3>1. /\ ReturnOf[call] = ReturnOf[other] <=> call = other
          /\ call # ReturnOf[other] /\ ReturnOf[call] # other
      BY CallKinds, Zenon
    <3>. QED
      BY <3>1
  <2>. QED
    BY <2>1, CountOfOne
<1>5. N(other, begun, begun) \in Nat /\ N(other, begun + 1, back - 1) \in Nat
  BY <1>1, CountIsNat
<1>. HIDE DEF N
<1>6. N(other, begun, back) = N(ReturnOf[other], begun, back)
  BY <1>2, <1>3, <1>4, <1>5
<1>. QED
  BY <1>6 DEF N, Closes

-----------------------------------------------------------------------------
(* What the grammar of a bridge keeps while it reads, event by event.      *)
ParserStates == [at : 0..(Len(BridgeOrder) + 1), pending : Seq(Calls), drawn : BOOLEAN]

LEMMA BridgeShape ==
  /\ Len(BridgeOrder) = 14 /\ DOMAIN BridgeOrder = 1..14
  /\ \A i \in 1..14 : IsNeutral(BridgeOrder[i])
  BY DEF BridgeOrder, IsNeutral, Calls, ReturnOf

LEMMA TakesShape ==
  ASSUME NEW p \in ParserStates, NEW kind
  PROVE  /\ Takes(p, kind) \in ParserStates
         /\ p.at = 0 => Takes(p, kind).at = 0
<1>1. Refused \in ParserStates /\ Refused.at = 0
  <2>1. 0 \in 0..(Len(BridgeOrder) + 1) /\ 1 \in 0..(Len(BridgeOrder) + 1)
    BY BridgeShape
  <2>2. BridgeStart \in ParserStates
    BY <2>1 DEF BridgeStart, ParserStates
  <2>. QED
    BY <2>1, <2>2 DEF Refused, ParserStates
<1>2. CASE p.at = CallSegment /\ kind \in Calls
  <2>1. Takes(p, kind) = [p EXCEPT !.pending = Append(@, kind), !.drawn = @ \/ kind = "graphics-call"]
    BY <1>2 DEF Takes
  <2>2. Append(p.pending, kind) \in Seq(Calls)
    BY <1>2 DEF ParserStates
  <2>. QED
    BY <1>2, <2>1, <2>2 DEF ParserStates, CallSegment
<1>3. CASE /\ ~(p.at = CallSegment /\ kind \in Calls)
           /\ p.at = CallSegment /\ p.pending # << >> /\ kind = ReturnOf[p.pending[Len(p.pending)]]
  <2>1. Takes(p, kind) = [p EXCEPT !.pending = SubSeq(@, 1, Len(@) - 1)]
    BY <1>3 DEF Takes
  <2>2. SubSeq(p.pending, 1, Len(p.pending) - 1) \in Seq(Calls)
    BY DEF ParserStates
  <2>. QED
    BY <1>3, <2>1, <2>2 DEF ParserStates, CallSegment
<1>4. CASE Takes(p, kind) = [p EXCEPT !.at = @ + 1] /\ p.at \in DOMAIN BridgeOrder
  BY <1>4, BridgeShape DEF ParserStates
<1>5. CASE Takes(p, kind) = Refused
  BY <1>1, <1>5
<1>. QED
  BY <1>2, <1>3, <1>4, <1>5 DEF Takes

(* The recursive definition has a value: one is built up to every length.  *)
LEMMA ParsedIsRead ==
  ASSUME NEW text \in Seq(Events)
  PROVE  /\ Parsed(text) \in [0..Len(text) -> ParserStates]
         /\ Parsed(text)[0] = BridgeStart
         /\ \A n \in 1..Len(text) : Parsed(text)[n] = Takes(Parsed(text)[n - 1], text[n].kind)
<1>. DEFINE Step(f, n) == IF n = 0 THEN BridgeStart ELSE Takes(f[n - 1], text[n].kind)
            Reads(f, k) == f = [n \in 0..k |-> Step(f, n)]
            S == {k \in Nat : \E f \in [0..k -> ParserStates] : Reads(f, k)}
<1>1. BridgeStart \in ParserStates
  BY DEF BridgeStart, ParserStates
<1>2. 0 \in S
  <2>. DEFINE f == [n \in 0..0 |-> BridgeStart]
  <2>1. f \in [0..0 -> ParserStates] /\ Reads(f, 0)
    BY <1>1
  <2>. QED
    BY <2>1
<1>3. ASSUME NEW k \in Nat, k \in S PROVE k + 1 \in S
  <2>1. PICK f \in [0..k -> ParserStates] : Reads(f, k)
    BY <1>3
  <2>. DEFINE g == [n \in 0..(k + 1) |-> IF n = k + 1 THEN Takes(f[k], text[k + 1].kind) ELSE f[n]]
  <2>2. g \in [0..(k + 1) -> ParserStates]
    <3>1. Takes(f[k], text[k + 1].kind) \in ParserStates
      BY <2>1, TakesShape
    <3>. QED
      BY <2>1, <3>1
  <2>3. ASSUME NEW n \in 0..(k + 1) PROVE g[n] = Step(g, n)
    <3>1. CASE n = k + 1
      BY <3>1
    <3>2. CASE n \in 1..k
      <4>1. g[n] = f[n] /\ g[n - 1] = f[n - 1] /\ n # 0
        BY <3>2
      <4>2. f[n] = Takes(f[n - 1], text[n].kind)
        BY <2>1, <3>2
      <4>. QED
        BY <4>1, <4>2
    <3>3. CASE n = 0
      BY <2>1, <3>3
    <3>. QED
      BY <3>1, <3>2, <3>3
  <2>4. Reads(g, k + 1)
    <3>1. g = [n \in 0..(k + 1) |-> g[n]]
      OBVIOUS
    <3>. HIDE DEF g, Step
    <3>. QED
      BY <2>3, <3>1
  <2>. HIDE DEF g, Reads
  <2>. QED
    BY <2>2, <2>4
<1>4. Len(text) \in S
  <2>1. Nat \subseteq S
    <3>. HIDE DEF S
    <3>. QED
      BY <1>2, <1>3, NatSetInduction
  <2>. QED
    BY <2>1
<1>5. PICK f \in [0..Len(text) -> ParserStates] : Reads(f, Len(text))
  BY <1>4
<1>6. Parsed(text) = CHOOSE h : h = [n \in 0..Len(text) |-> Step(h, n)]
  BY DEF Parsed
<1>7. Parsed(text) = [n \in 0..Len(text) |-> Step(Parsed(text), n)]
  BY <1>5, <1>6
<1>8. \A n \in 0..Len(text) : f[n] = Step(f, n)
  BY <1>5
<1>. QED
  BY <1>7

(* What the open calls after n events say of the text so far: the one that *)
(* was opened last stands somewhere in it, the others were open before it, *)
(* and from there on every call was ended.                                 *)
Front(pending) == SubSeq(pending, 1, Len(pending) - 1)

Nests(text, n) ==
  LET after == Parsed(text) IN
  after[n].at # 0 =>
    /\ after[n].at # CallSegment => after[n].pending = << >>
    /\ IF after[n].pending = << >> THEN Balanced(text, 1, n)
       ELSE \E begun \in 1..n :
              /\ text[begun].kind = after[n].pending[Len(after[n].pending)]
              /\ after[begun - 1].pending = Front(after[n].pending) /\ after[begun - 1].at # 0
              /\ Balanced(text, begun + 1, n)

LEMMA CallNests ==
  ASSUME NEW text \in Seq(Events), NEW n \in 1..Len(text), Nests(text, n - 1),
         Parsed(text)[n - 1].at = CallSegment, text[n].kind \in Calls
  PROVE  Nests(text, n)
<1>. DEFINE p == Parsed(text)[n - 1]
            q == Parsed(text)[n]
            kind == text[n].kind
<1>1. p \in ParserStates /\ q = Takes(p, kind) /\ n \in Nat \ {0}
  BY ParsedIsRead
<1>2. q = [p EXCEPT !.pending = Append(@, kind), !.drawn = @ \/ kind = "graphics-call"]
  BY <1>1 DEF Takes
<1>3. q.pending = Append(p.pending, kind) /\ q.at = CallSegment /\ p.pending \in Seq(Calls) /\ p.at # 0
  BY <1>1, <1>2 DEF ParserStates, CallSegment
<1>. HIDE DEF p, q, kind
<1>4. /\ q.pending # << >> /\ q.pending[Len(q.pending)] = kind /\ Front(q.pending) = p.pending
  BY <1>3 DEF Front
<1>5. Balanced(text, n + 1, n)
  BY <1>1, NothingIsBalanced
<1>6. n \in 1..n
  BY <1>1
<1>. QED
  BY <1>3, <1>4, <1>5, <1>6 DEF Nests, p, q, kind

LEMMA ReturnNests ==
  ASSUME NEW text \in Seq(Events), NEW n \in 1..Len(text), \A m \in 0..(n - 1) : Nests(text, m),
         Parsed(text)[n - 1].at = CallSegment, text[n].kind \notin Calls,
         Parsed(text)[n - 1].pending # << >>,
         text[n].kind = ReturnOf[Parsed(text)[n - 1].pending[Len(Parsed(text)[n - 1].pending)]]
  PROVE  /\ Nests(text, n)
         /\ \E begun \in 1..(n - 1) :
              /\ text[begun].kind \in Calls /\ text[n].kind = ReturnOf[text[begun].kind]
              /\ Balanced(text, begun + 1, n - 1)
<1>. DEFINE after == Parsed(text)
            p == after[n - 1]
            q == after[n]
            kind == text[n].kind
            call == p.pending[Len(p.pending)]
<1>1. p \in ParserStates /\ q = Takes(p, kind) /\ n \in Nat \ {0} /\ n - 1 \in 0..(n - 1)
  <2>1. /\ Parsed(text) \in [0..Len(text) -> ParserStates]
        /\ \A m \in 1..Len(text) : Parsed(text)[m] = Takes(Parsed(text)[m - 1], text[m].kind)
    BY ParsedIsRead
  <2>2. n \in Nat \ {0} /\ n - 1 \in 0..(n - 1) /\ n - 1 \in 0..Len(text)
    OBVIOUS
  <2>. QED
    BY <2>1, <2>2
<1>2. q = [p EXCEPT !.pending = SubSeq(@, 1, Len(@) - 1)]
  BY <1>1 DEF Takes
<1>3. /\ q.pending = Front(p.pending) /\ q.at = CallSegment /\ p.pending \in Seq(Calls)
      /\ p.pending # << >> /\ call \in Calls /\ kind = ReturnOf[call] /\ p.at # 0
  BY <1>1, <1>2 DEF ParserStates, CallSegment, Front
<1>. HIDE DEF p, q, kind, call
<1>4. Nests(text, n - 1)
  BY <1>1
<1>5. PICK begun \in 1..(n - 1) :
        /\ text[begun].kind = call /\ Balanced(text, begun + 1, n - 1)
        /\ after[begun - 1].pending = Front(p.pending) /\ after[begun - 1].at # 0
  BY <1>3, <1>4 DEF Nests, p, call
<1>6. begun \in Nat \ {0} /\ begun < n /\ begun - 1 \in 0..(n - 1) /\ begun - 1 \in Nat
  BY <1>1
<1>7. Balanced(text, begun, n)
  BY <1>1, <1>3, <1>5, <1>6, CallAndReturn DEF kind
<1>8. Nests(text, n)
  <2>. DEFINE m == begun - 1
  <2>1. Nests(text, m) /\ m \in Nat /\ m + 1 = begun /\ m <= n /\ n \in Nat
    BY <1>1, <1>6
  <2>2. after[m].pending = q.pending /\ after[m].at # 0
    BY <1>3, <1>5
  <2>. HIDE DEF m
  <2>3. CASE q.pending = << >>
    <3>1. Balanced(text, 1, m)
      BY <2>1, <2>2, <2>3 DEF Nests
    <3>2. Balanced(text, 1, n)
      BY <1>7, <2>1, <3>1, BalancedJoins
    <3>. QED
      BY <1>3, <2>3, <3>2 DEF Nests, q
  <2>4. CASE q.pending # << >>
    <3>1. PICK b \in 1..m :
            /\ text[b].kind = q.pending[Len(q.pending)] /\ Balanced(text, b + 1, m)
            /\ after[b - 1].pending = Front(q.pending) /\ after[b - 1].at # 0
      BY <2>1, <2>2, <2>4 DEF Nests
    <3>2. b + 1 \in Nat /\ b + 1 <= m + 1 /\ b \in 1..n
      BY <2>1
    <3>3. Balanced(text, b + 1, n)
      BY <1>7, <2>1, <3>1, <3>2, BalancedJoins
    <3>. QED
      BY <1>3, <2>4, <3>1, <3>2, <3>3 DEF Nests, q
  <2>. QED
    BY <2>3, <2>4
<1>. QED
  BY <1>3, <1>5, <1>8 DEF kind

LEMMA OrderNests ==
  ASSUME NEW text \in Seq(Events), NEW n \in 1..Len(text), Nests(text, n - 1),
         NEW p, p = Parsed(text)[n - 1], Parsed(text)[n] = [p EXCEPT !.at = @ + 1],
         p.at # 0, p.at = CallSegment => p.pending = << >>, IsNeutral(text[n].kind)
  PROVE  Nests(text, n)
<1>1. p \in ParserStates /\ n \in Nat \ {0} /\ n - 1 \in Nat /\ (n - 1) + 1 = n
  BY ParsedIsRead
<1>2. Parsed(text)[n].pending = p.pending
  BY <1>1 DEF ParserStates
<1>3. p.pending = << >> /\ Balanced(text, 1, n - 1)
  BY DEF Nests
<1>4. Balanced(text, n, n)
  BY <1>1, NothingIsBalanced
<1>5. \A mid \in Nat : 1 <= mid + 1 /\ mid <= n /\ Balanced(text, 1, mid) /\ Balanced(text, mid + 1, n)
         => Balanced(text, 1, n)
  BY <1>1, BalancedJoins
<1>6. Balanced(text, 1, n)
  BY <1>1, <1>3, <1>4, <1>5
<1>. QED
  BY <1>2, <1>3, <1>6 DEF Nests

ReturnCloses(text, n) ==
  (\E call \in Calls : text[n].kind = ReturnOf[call]) =>
    \E begun \in 1..(n - 1) :
      /\ text[begun].kind \in Calls /\ text[n].kind = ReturnOf[text[begun].kind]
      /\ Balanced(text, begun + 1, n - 1)

(* One more event leaves what is read nested, or is refused.               *)
LEMMA EventNests ==
  ASSUME NEW text \in Seq(Events), NEW n \in 1..Len(text), \A m \in 0..(n - 1) : Nests(text, m)
  PROVE  Nests(text, n) /\ (Parsed(text)[n].at # 0 => ReturnCloses(text, n))
<1>. DEFINE p == Parsed(text)[n - 1]
            q == Parsed(text)[n]
            kind == text[n].kind
<1>1. p \in ParserStates /\ q = Takes(p, kind) /\ Nests(text, n - 1)
  BY ParsedIsRead
<1>2. CASE p.at = CallSegment /\ kind \in Calls
  <2>1. Nests(text, n)
    BY <1>1, <1>2, CallNests
  <2>2. ReturnCloses(text, n)
    BY <1>2, CallKinds DEF ReturnCloses
  <2>. QED
    BY <2>1, <2>2
<1>3. CASE /\ p.at = CallSegment /\ kind \notin Calls /\ p.pending # << >>
           /\ kind = ReturnOf[p.pending[Len(p.pending)]]
  BY <1>3, ReturnNests DEF ReturnCloses
<1>4. CASE /\ q = [p EXCEPT !.at = @ + 1] /\ p.at \in DOMAIN BridgeOrder /\ kind = BridgeOrder[p.at]
           /\ p.at = CallSegment => p.pending = << >>
  <2>1. p.at # 0 /\ IsNeutral(kind)
    BY <1>4, BridgeShape
  <2>2. Nests(text, n)
    BY <1>1, <1>4, <2>1, OrderNests
  <2>3. ReturnCloses(text, n)
    BY <2>1 DEF ReturnCloses, IsNeutral
  <2>. QED
    BY <2>2, <2>3
<1>5. CASE q = Refused
  <2>1. q.at = 0
    BY <1>5 DEF Refused, BridgeStart
  <2>. QED
    BY <2>1 DEF Nests
<1>. HIDE DEF p, q, kind
<1>. QED
  BY <1>1, <1>2, <1>3, <1>4, <1>5 DEF Takes

LEMMA EveryEventNests ==
  ASSUME NEW text \in Seq(Events)
  PROVE  \A n \in 0..Len(text) : Nests(text, n)
<1>. DEFINE S == {n \in Nat : \A m \in 0..n : m <= Len(text) => Nests(text, m)}
<1>1. 0 \in S
  <2>1. Parsed(text)[0].pending = << >> /\ Parsed(text)[0].at # CallSegment
    BY ParsedIsRead DEF BridgeStart, CallSegment
  <2>2. Balanced(text, 1, 0)
    BY NothingIsBalanced
  <2>3. Nests(text, 0)
    BY <2>1, <2>2 DEF Nests
  <2>. QED
    BY <2>3
<1>2. ASSUME NEW n \in Nat, n \in S PROVE n + 1 \in S
  <2>1. SUFFICES ASSUME n + 1 <= Len(text) PROVE Nests(text, n + 1)
    BY <1>2
  <2>2. n + 1 \in 1..Len(text) /\ \A m \in 0..((n + 1) - 1) : Nests(text, m)
    BY <1>2, <2>1
  <2>. QED
    BY <2>2, EventNests
<1>3. Nat \subseteq S
  <2>. HIDE DEF S
  <2>. QED
    BY <1>1, <1>2, NatSetInduction
<1>4. Len(text) \in S
  BY <1>3
<1>. QED
  BY <1>4

(* What was refused stays refused: a bridge was accepted at every event.   *)
LEMMA BridgeIsNeverRefused ==
  ASSUME NEW text \in Seq(Events), IsBridge(text)
  PROVE  \A n \in 0..Len(text) : Parsed(text)[n].at # 0
<1>. DEFINE S == {k \in Nat : k <= Len(text) => Parsed(text)[Len(text) - k].at # 0}
<1>1. 0 \in S
  BY BridgeShape DEF IsBridge
<1>2. ASSUME NEW k \in Nat, k \in S PROVE k + 1 \in S
  <2>1. SUFFICES ASSUME k + 1 <= Len(text) PROVE Parsed(text)[Len(text) - (k + 1)].at # 0
    OBVIOUS
  <2>. DEFINE n == Len(text) - k
  <2>2. n \in 1..Len(text) /\ n - 1 \in 0..Len(text) /\ n - 1 = Len(text) - (k + 1)
    BY <2>1
  <2>3. Parsed(text)[n].at # 0
    BY <1>2, <2>1
  <2>. HIDE DEF n
  <2>4. Parsed(text)[n - 1].at # 0
    <3>1. /\ Parsed(text)[n - 1] \in ParserStates
          /\ Parsed(text)[n] = Takes(Parsed(text)[n - 1], text[n].kind)
      BY <2>2, ParsedIsRead
    <3>. QED
      BY <2>3, <3>1, TakesShape
  <2>. QED
    BY <2>2, <2>4
<1>3. Nat \subseteq S
  <2>. HIDE DEF S
  <2>. QED
    BY <1>1, <1>2, NatSetInduction
<1>4. \A n \in 0..Len(text) : Len(text) - n \in S
  BY <1>3
<1>. QED
  BY <1>4

(* The calls and returns of an accepted bridge are well nested.            *)
LEMMA BridgeIsWellNested ==
  ASSUME NEW text \in Seq(Events), IsBridge(text)
  PROVE  Balanced(text, 1, Len(text)) /\ \A n \in DOMAIN text : ReturnCloses(text, n)
<1>1. Nests(text, Len(text)) /\ Parsed(text)[Len(text)].at = 15
  BY EveryEventNests, BridgeShape DEF IsBridge
<1>2. Balanced(text, 1, Len(text))
  BY <1>1 DEF Nests, CallSegment
<1>3. ASSUME NEW n \in 1..Len(text) PROVE ReturnCloses(text, n)
  BY EveryEventNests, EventNests, BridgeIsNeverRefused
<1>. QED
  BY <1>2, <1>3

-----------------------------------------------------------------------------
(* From a stretch that is balanced where its returns stand, to the         *)
(* definition by which a whole text is well nested.                        *)
LEMMA NestedByCounting ==
  ASSUME NEW text \in Seq(Events), Balanced(text, 1, Len(text)),
         \A n \in DOMAIN text : ReturnCloses(text, n)
  PROVE  WellNested(text)
<1>1. ASSUME NEW back \in DOMAIN text, NEW call \in Calls, text[back].kind = ReturnOf[call]
      PROVE  \E begun \in 1..(back - 1) :
               /\ text[begun].kind = call
               /\ \A other \in Calls : Closes(text, other, begun + 1, back - 1)
  <2>1. PICK begun \in 1..(back - 1) :
          /\ text[begun].kind \in Calls /\ text[back].kind = ReturnOf[text[begun].kind]
          /\ Balanced(text, begun + 1, back - 1)
    BY <1>1 DEF ReturnCloses
  <2>2. text[begun].kind = call
    BY <1>1, <2>1, CallKinds
  <2>. QED
    BY <2>1, <2>2 DEF Balanced
<1>. QED
  BY <1>1 DEF WellNested, Balanced

LEMMA NeutralIsWellNested ==
  ASSUME NEW text \in Seq(Events), \A n \in DOMAIN text : IsNeutral(text[n].kind)
  PROVE  WellNested(text)
<1>1. Len(text) \in Nat /\ DOMAIN text = 1..Len(text)
  OBVIOUS
<1>2. Balanced(text, 1, Len(text))
  BY <1>1, NothingIsBalanced
<1>3. ASSUME NEW n \in DOMAIN text PROVE ReturnCloses(text, n)
  BY DEF ReturnCloses, IsNeutral
<1>. QED
  BY <1>2, <1>3, NestedByCounting

(* The events beside the bridge are of no call.                            *)
LEMMA FreeIsNeutral ==
  ASSUME NEW adapter \in DOMAIN FreeKinds, NEW kind \in FreeKinds[adapter]
  PROVE  IsNeutral(kind)
  BY DEF FreeKinds, PlainKinds, StartupKinds, BootKinds, BootstrapKinds, StageKinds, IsNeutral, Calls,
         ReturnOf

LEMMA FixedIsNeutral ==
  ASSUME NEW adapter \in DOMAIN FixedOrder, NEW i \in DOMAIN FixedOrder[adapter]
  PROVE  IsNeutral(FixedOrder[adapter][i])
<1>. USE DEF IsNeutral, Calls, ReturnOf
<1>1. \A n \in DOMAIN OverlayOrder : IsNeutral(OverlayOrder[n])
  BY DEF OverlayOrder
<1>2. \A n \in DOMAIN TitleOrder : IsNeutral(TitleOrder[n])
  BY DEF TitleOrder
<1>3. \A n \in DOMAIN HandoffOrder : IsNeutral(HandoffOrder[n])
  BY DEF HandoffOrder
<1>4. \A n \in DOMAIN <<"copy-210d4">> : IsNeutral(<<"copy-210d4">>[n])
  OBVIOUS
<1>. QED
  BY <1>1, <1>2, <1>3, <1>4 DEF FixedOrder

LEMMA DisplayIsNeutral ==
  /\ Len(DisplayOrder) = 6 /\ DOMAIN DisplayOrder = 1..6
  /\ \A i \in 1..6 : IsNeutral(DisplayOrder[i])
  BY DEF DisplayOrder, IsNeutral, Calls, ReturnOf

(* A display trace is well nested for its bridge is, and nothing follows   *)
(* that calls or returns.                                                  *)
LEMMA DisplayIsWellNested ==
  ASSUME NEW text \in Seq(Events), NEW timeline, IsDisplay(text, timeline)
  PROVE  WellNested(text) /\ text # << >>
<1>1. PICK first \in DOMAIN text :
        /\ IsBridge(SubSeq(text, 1, first - 1))
        /\ KindsOf(SubSeq(text, first, Len(text))) = DisplayOrder
  BY DEF IsDisplay
<1>. DEFINE bridge == SubSeq(text, 1, first - 1)
            rest == SubSeq(text, first, Len(text))
            m == first - 1
<1>2. first \in 1..Len(text) /\ Len(text) \in Nat /\ m \in Nat /\ m + 1 = first /\ m <= Len(text)
  OBVIOUS
<1>3. /\ IsBridge(bridge) /\ bridge \in Seq(Events) /\ Len(bridge) = m /\ \A i \in 1..m : bridge[i] = text[i]
  BY <1>1, <1>2
<1>4. \A i \in first..Len(text) : IsNeutral(text[i].kind)
  <2>1. SUFFICES ASSUME NEW i \in first..Len(text) PROVE IsNeutral(text[i].kind)
    OBVIOUS
  <2>2. /\ rest \in Seq(Events) /\ Len(rest) = Len(text) - first + 1
        /\ i - first + 1 \in DOMAIN rest /\ rest[i - first + 1] = text[i]
    BY <1>2
  <2>3. DOMAIN rest = 1..6 /\ KindsOf(rest)[i - first + 1] = DisplayOrder[i - first + 1]
    <3>1. DOMAIN KindsOf(rest) = DOMAIN rest
      BY DEF KindsOf
    <3>. QED
      BY <1>1, <3>1, DisplayIsNeutral
  <2>4. text[i].kind = DisplayOrder[i - first + 1]
    BY <2>2, <2>3 DEF KindsOf
  <2>. HIDE DEF rest
  <2>. QED
    BY <2>2, <2>3, <2>4, DisplayIsNeutral
<1>. HIDE DEF bridge, rest, m
<1>5. ASSUME NEW from \in Nat \ {0}, NEW to \in Nat, to <= m, Balanced(bridge, from, to)
      PROVE  Balanced(text, from, to)
  <2>1. \A kind : {i \in from..to : bridge[i].kind = kind} = {i \in from..to : text[i].kind = kind}
    BY <1>2, <1>3, <1>5
  <2>. QED
    BY <1>5, <2>1 DEF Balanced, Closes, NumberOf
<1>6. Balanced(text, 1, Len(text))
  <2>1. Balanced(text, 1, m)
    <3>1. Balanced(bridge, 1, m)
      BY <1>3, BridgeIsWellNested
    <3>. QED
      BY <1>2, <1>5, <3>1
  <2>2. Balanced(text, m + 1, Len(text))
    BY <1>2, <1>4, NothingIsBalanced
  <2>. QED
    BY <1>2, <2>1, <2>2, BalancedJoins
<1>7. ASSUME NEW n \in DOMAIN text PROVE ReturnCloses(text, n)
  <2>1. CASE n \in 1..m
    <3>1. ReturnCloses(bridge, n)
      <4>1. n \in DOMAIN bridge
        BY <1>3, <2>1
      <4>. QED
        BY <1>3, <4>1, BridgeIsWellNested
    <3>2. SUFFICES ASSUME \E call \in Calls : text[n].kind = ReturnOf[call]
                   PROVE  \E begun \in 1..(n - 1) :
                            /\ text[begun].kind \in Calls /\ text[n].kind = ReturnOf[text[begun].kind]
                            /\ Balanced(text, begun + 1, n - 1)
      BY DEF ReturnCloses
    <3>3. PICK begun \in 1..(n - 1) :
            /\ bridge[begun].kind \in Calls /\ bridge[n].kind = ReturnOf[bridge[begun].kind]
            /\ Balanced(bridge, begun + 1, n - 1)
      BY <1>3, <2>1, <3>1, <3>2 DEF ReturnCloses
    <3>4. begun \in 1..m /\ begun + 1 \in Nat \ {0} /\ n - 1 \in Nat /\ n - 1 <= m
      BY <1>2, <2>1
    <3>. QED
      BY <1>3, <1>5, <2>1, <3>3, <3>4
  <2>2. CASE n \notin 1..m
    BY <1>2, <1>4, <2>2 DEF ReturnCloses, IsNeutral
  <2>. QED
    BY <2>1, <2>2
<1>. QED
  BY <1>2, <1>6, <1>7, NestedByCounting

Adapters == {"plain"} \cup DOMAIN Registry

LEMMA AdapterShape ==
  ASSUME NEW adapter \in Adapters
  PROVE  adapter \in DOMAIN FreeKinds \cup DOMAIN FixedOrder \cup {"bridge"} \cup Displays
  BY DEF Adapters, Registry, FreeKinds, FixedOrder, Displays

(* What any adapter accepts has events, which increase and are well nested. *)
LEMMA AcceptedIsNested ==
  ASSUME NEW adapter \in Adapters, NEW text \in Seq(Events), NEW timeline,
         Accepts(adapter, text, timeline)
  PROVE  text # << >> /\ Increases(text) /\ WellNested(text)
<1>1. Increases(text)
  BY DEF Accepts
<1>2. CASE adapter \in DOMAIN FreeKinds
  <2>1. IsFree(adapter, text)
    BY <1>2 DEF Accepts, FreeKinds, FixedOrder, Displays
  <2>. QED
    BY <1>1, <1>2, <2>1, FreeIsNeutral, NeutralIsWellNested DEF IsFree
<1>3. CASE adapter \in DOMAIN FixedOrder
  <2>1. IsFixed(adapter, text)
    BY <1>3 DEF Accepts, FreeKinds, FixedOrder, Displays
  <2>2. DOMAIN text = DOMAIN FixedOrder[adapter]
        /\ \A n \in DOMAIN text : text[n].kind = FixedOrder[adapter][n]
    BY <2>1 DEF IsFixed, KindsOf
  <2>3. 1 \in DOMAIN FixedOrder[adapter]
    BY <1>3 DEF FixedOrder, OverlayOrder, TitleOrder, HandoffOrder
  <2>4. \A n \in DOMAIN text : IsNeutral(text[n].kind)
    BY <1>3, <2>2, FixedIsNeutral
  <2>5. text # << >>
    BY <2>2, <2>3
  <2>. QED
    BY <1>1, <2>4, <2>5, NeutralIsWellNested
<1>4. CASE adapter = "bridge"
  <2>1. IsBridge(text)
    BY <1>4 DEF Accepts, FreeKinds, FixedOrder, Displays
  <2>2. text # << >>
    <3>1. SUFFICES ASSUME Len(text) = 0 PROVE FALSE
      OBVIOUS
    <3>2. Parsed(text)[0].at = 1
      BY ParsedIsRead DEF BridgeStart
    <3>. QED
      BY <2>1, <3>1, <3>2, BridgeShape DEF IsBridge
  <2>. QED
    BY <1>1, <2>1, <2>2, BridgeIsWellNested, NestedByCounting
<1>5. CASE adapter \in Displays
  <2>1. IsDisplay(text, timeline)
    BY <1>5 DEF Accepts, FreeKinds, FixedOrder, Displays
  <2>. QED
    BY <1>1, <2>1, DisplayIsWellNested
<1>. QED
  BY <1>2, <1>3, <1>4, <1>5, AdapterShape

(* A replay's order has the kinds of its grammar, each of them once.       *)
LEMMA ReplayIsPermutation ==
  ASSUME NEW adapter \in DOMAIN ReplayOrder
  PROVE  /\ adapter \in DOMAIN FixedOrder \ DOMAIN FreeKinds
         /\ \A n \in DOMAIN ReplayOrder[adapter] :
              \E i \in DOMAIN FixedOrder[adapter] : FixedOrder[adapter][i] = ReplayOrder[adapter][n]
         /\ \A i \in DOMAIN FixedOrder[adapter] :
              \E n \in DOMAIN ReplayOrder[adapter] : ReplayOrder[adapter][n] = FixedOrder[adapter][i]
         /\ \A i, j \in DOMAIN FixedOrder[adapter] :
              FixedOrder[adapter][i] = FixedOrder[adapter][j] => i = j
<1>1. CASE adapter = "overlay"
  <2>1. ReplayOrder[adapter] = OverlayOrder /\ FixedOrder[adapter] = OverlayOrder
    BY <1>1 DEF ReplayOrder, FixedOrder
  <2>2. \A i, j \in DOMAIN OverlayOrder : OverlayOrder[i] = OverlayOrder[j] => i = j
    BY DEF OverlayOrder
  <2>. QED
    BY <1>1, <2>1, <2>2 DEF FixedOrder, FreeKinds
<1>2. CASE adapter = "handoff"
  <2>1. ReplayOrder[adapter] = HandoffReplay /\ FixedOrder[adapter] = HandoffOrder
    BY <1>2 DEF ReplayOrder, FixedOrder
  <2>2. \A i, j \in DOMAIN HandoffOrder : HandoffOrder[i] = HandoffOrder[j] => i = j
    BY DEF HandoffOrder
  <2>3. \A n \in DOMAIN HandoffReplay : \E i \in DOMAIN HandoffOrder : HandoffOrder[i] = HandoffReplay[n]
    BY DEF HandoffOrder, HandoffReplay
  <2>4. \A i \in DOMAIN HandoffOrder : \E n \in DOMAIN HandoffReplay : HandoffReplay[n] = HandoffOrder[i]
    BY DEF HandoffOrder, HandoffReplay
  <2>. QED
    BY <1>2, <2>1, <2>2, <2>3, <2>4 DEF FixedOrder, FreeKinds
<1>. QED
  BY <1>1, <1>2 DEF ReplayOrder

(* A replay gives the session all the events of its text and no other.     *)
LEMMA ReplayedIsText ==
  ASSUME NEW adapter \in DOMAIN ReplayOrder, NEW text, NEW timeline, Accepts(adapter, text, timeline)
  PROVE  {Replayed(adapter, text)[n] : n \in DOMAIN Replayed(adapter, text)}
           = {text[i] : i \in DOMAIN text}
<1>. DEFINE told == {text[i] : i \in DOMAIN text}
            order == ReplayOrder[adapter]
            fixed == FixedOrder[adapter]
<1>1. DOMAIN text = DOMAIN fixed /\ \A i \in DOMAIN text : text[i].kind = fixed[i]
  <2>1. IsFixed(adapter, text)
    <3>1. adapter \in {"overlay", "handoff"}
      BY DEF ReplayOrder
    <3>. QED
      BY <3>1 DEF Accepts, FreeKinds, FixedOrder, Displays
  <2>. QED
    BY <2>1 DEF IsFixed, KindsOf
<1>2. DOMAIN Replayed(adapter, text) = DOMAIN order
  BY DEF Replayed
<1>3. ASSUME NEW n \in DOMAIN order, NEW i \in DOMAIN text, fixed[i] = order[n]
      PROVE  Replayed(adapter, text)[n] = text[i]
  <2>1. Replayed(adapter, text)[n] = CHOOSE event \in told : event.kind = order[n]
    BY DEF Replayed
  <2>2. text[i] \in told /\ text[i].kind = order[n]
    BY <1>1, <1>3
  <2>3. ASSUME NEW event \in told, event.kind = order[n] PROVE event = text[i]
    <3>1. PICK j \in DOMAIN text : event = text[j]
      OBVIOUS
    <3>2. j \in DOMAIN fixed /\ i \in DOMAIN fixed /\ fixed[j] = fixed[i]
      BY <1>1, <1>3, <2>3, <3>1
    <3>3. j = i
      BY <3>2, ReplayIsPermutation
    <3>. QED
      BY <3>1, <3>3
  <2>. QED
    <3>. HIDE DEF told, order
    <3>. QED
      BY <2>1, <2>2, <2>3
<1>. QED
  BY <1>1, <1>2, <1>3, ReplayIsPermutation

-----------------------------------------------------------------------------
(* Between the three reads of the text: what is known of it after each, if *)
(* it was written to at most once since the validation began.              *)
Texts == {m.text : m \in TraceManifests} \cup {NoText}

TraceShape ==
  /\ capture = [text |-> capture.text, artifacts |-> capture.artifacts] /\ capture.text \in Texts
  /\ writes \in Nat
  /\ trace = [at |-> trace.at, manifest |-> trace.manifest, text |-> trace.text,
              artifact |-> trace.artifact] /\ trace.text \in Texts
  /\ replay = [read |-> replay.read, given |-> replay.given]

ManifestIsBound ==
  trace.at # "none" => trace.manifest \in TraceManifests /\ trace.manifest.adapter \in Adapters

TextWasAccepted ==
  trace.at \in WasRead => Accepts(trace.manifest.adapter, trace.text, trace.manifest.timeline)

TextWasListed ==
  LET listed == trace.manifest.text IN
  /\ trace.at = "read" /\ writes = 0 => capture.text = listed
  /\ trace.at = "rehash" => /\ writes = 0 => trace.text = listed
                            /\ writes <= 1 => trace.text \in {listed, capture.text}
  /\ trace.at \in WasHashed \cup {"artifacts"} /\ writes <= 1 => trace.text = listed

ArtifactsWereFixed ==
  /\ trace.at = "artifacts" => trace.manifest.adapter = "artifacts"
  /\ trace.at \in WasHashed /\ trace.manifest.adapter = "artifacts" =>
       FixedByText(trace.manifest, trace.text)

ReplayWasListed ==
  /\ trace.at = "open" => replay.read = trace.manifest.text /\ MayReplay(trace.manifest.adapter)
  /\ trace.at # "reported" => replay.given = NoText
  /\ replay.given # NoText =>
       /\ MayReplay(trace.manifest.adapter)
       /\ Accepts(trace.manifest.adapter, trace.manifest.text, trace.manifest.timeline)
       /\ replay.given = Replayed(trace.manifest.adapter, trace.manifest.text)

TraceInv ==
  TraceShape /\ ManifestIsBound /\ TextWasAccepted /\ TextWasListed /\ ArtifactsWereFixed
    /\ ReplayWasListed

LEMMA TextsAreEvents == Texts \subseteq Seq(Events)
<1>1. NoText \in Seq(Events)
  BY DEF NoText
<1>2. \A m \in TraceManifests : m.text \in Seq(Events)
  BY TraceAssumption
<1>. QED
  BY <1>1, <1>2 DEF Texts

LEMMA TraceInvInit == TraceInit => TraceInv
  BY DEF TraceInit, TraceInv, TraceShape, ManifestIsBound, TextWasAccepted, TextWasListed,
         ArtifactsWereFixed, ReplayWasListed, NoTrace, NoReplay, WasRead, WasHashed, Texts

(* A validation that moves on to a place.                                  *)
LEMMA GoToShape ==
  ASSUME TraceShape, NEW at, GoTo(at)
  PROVE  /\ trace'.at = at /\ trace'.manifest = trace.manifest /\ trace'.text = trace.text
         /\ trace' = [at |-> trace'.at, manifest |-> trace'.manifest, text |-> trace'.text,
                      artifact |-> trace'.artifact]
<1>1. trace' = [trace EXCEPT !.at = at]
  BY DEF GoTo
<1>. QED
  BY <1>1 DEF TraceShape

LEMMA RejectKeepsTrace ==
  ASSUME TraceInv, RejectTrace, UNCHANGED <<capture, writes>>,
         replay' = NoReplay \/ (trace.at # "reported" /\ UNCHANGED replay)
  PROVE  TraceInv'
<1>1. /\ trace' = [at |-> "none", manifest |-> NoManifestOf, text |-> NoText, artifact |-> 1]
      /\ replay' = [read |-> replay'.read, given |-> replay'.given] /\ replay'.given = NoText
  <2>1. trace' = [at |-> "none", manifest |-> NoManifestOf, text |-> NoText, artifact |-> 1]
    BY DEF RejectTrace, NoTrace
  <2>2. CASE replay' = NoReplay
    BY <2>1, <2>2 DEF NoReplay
  <2>3. CASE trace.at # "reported" /\ UNCHANGED replay
    BY <2>1, <2>3 DEF TraceInv, TraceShape, ReplayWasListed
  <2>. QED
    BY <2>2, <2>3
<1>2. TraceShape'
  BY <1>1 DEF TraceInv, TraceShape, Texts
<1>. QED
  BY <1>1, <1>2 DEF TraceInv, ManifestIsBound, TextWasAccepted, TextWasListed, ArtifactsWereFixed,
                    ReplayWasListed, WasRead, WasHashed

(* The validation moves to a place where nothing is replayed.              *)
LEMMA MoveKeepsTrace ==
  ASSUME TraceInv, NEW at, GoTo(at), trace.at \notin {"none", "reported", "open"},
         at \notin {"none", "open"}, UNCHANGED <<capture, writes, replay>>,
         at \in WasRead => trace.at \in WasRead,
         at = "read" => capture.text = trace.manifest.text, at # "rehash",
         at \in WasHashed \cup {"artifacts"} =>
           trace.at \in WasHashed \cup {"artifacts"} \/ capture.text = trace.manifest.text,
         at \in WasHashed => trace.at \in WasHashed \/ trace.manifest.adapter # "artifacts"
                               \/ FixedByText(trace.manifest, trace.text),
         at = "artifacts" => trace.manifest.adapter = "artifacts"
  PROVE  TraceInv'
<1>1. /\ trace'.at = at /\ trace'.manifest = trace.manifest /\ trace'.text = trace.text
      /\ trace' = [at |-> trace'.at, manifest |-> trace'.manifest, text |-> trace'.text,
                   artifact |-> trace'.artifact]
  BY GoToShape DEF TraceInv
<1>2. TraceShape' /\ ManifestIsBound'
  BY <1>1 DEF TraceInv, TraceShape, ManifestIsBound
<1>3. TextWasAccepted'
  BY <1>1 DEF TraceInv, TextWasAccepted
<1>4. TextWasListed'
  BY <1>1 DEF TraceInv, TextWasListed, TraceShape, WasRead, WasHashed
<1>5. ArtifactsWereFixed'
  BY <1>1 DEF TraceInv, ArtifactsWereFixed, FixedByText
<1>6. ReplayWasListed'
  BY <1>1 DEF TraceInv, ReplayWasListed
<1>. QED
  BY <1>2, <1>3, <1>4, <1>5, <1>6 DEF TraceInv

LEMMA WritesKeepTrace ==
  ASSUME TraceInv, WriteSource \/ WriteText \/ WriteArtifact
  PROVE  TraceInv'
<1>1. CASE WriteSource \/ WriteArtifact
  <2>1. /\ UNCHANGED <<writes, trace, replay>> /\ capture'.text = capture.text
        /\ capture' = [text |-> capture'.text, artifacts |-> capture'.artifacts]
    BY <1>1 DEF WriteSource, WriteArtifact, TraceInv, TraceShape
  <2>. QED
    BY <2>1 DEF TraceInv, TraceShape, ManifestIsBound, TextWasAccepted, TextWasListed,
                ArtifactsWereFixed, ReplayWasListed
<1>2. CASE WriteText
  <2>1. /\ UNCHANGED <<trace, replay>> /\ writes' = writes + 1 /\ writes \in Nat
        /\ capture' = [text |-> capture'.text, artifacts |-> capture'.artifacts]
        /\ capture'.text \in Texts
    BY <1>2 DEF WriteText, TraceInv, TraceShape, Texts
  <2>2. TraceShape' /\ ManifestIsBound' /\ TextWasAccepted' /\ ArtifactsWereFixed' /\ ReplayWasListed'
    BY <2>1 DEF TraceInv, TraceShape, ManifestIsBound, TextWasAccepted, ArtifactsWereFixed,
                ReplayWasListed
  <2>3. TextWasListed'
    BY <2>1 DEF TraceInv, TextWasListed
  <2>. QED
    BY <2>2, <2>3 DEF TraceInv
<1>. QED
  BY <1>1, <1>2

LEMMA ReadTraceManifestKeeps == ASSUME TraceInv, ReadTraceManifest PROVE TraceInv'
<1>1. PICK m \in TraceManifests, other \in TraceManifests, request \in Requests :
        /\ capture' = [capture EXCEPT !.text = other.text]
        /\ IF Names(m, request) /\ source[m.release] # "gone"
           THEN trace' = [NoTrace EXCEPT !.at = "source", !.manifest = m]
           ELSE RejectTrace
  BY DEF ReadTraceManifest
<1>2. writes' = 0 /\ replay' = [read |-> NoText, given |-> NoText]
  BY DEF ReadTraceManifest, NoReplay
<1>3. /\ capture' = [text |-> capture'.text, artifacts |-> capture'.artifacts]
      /\ capture'.text \in Texts
  BY <1>1 DEF TraceInv, TraceShape, Texts
<1>4. CASE trace' = [NoTrace EXCEPT !.at = "source", !.manifest = m] /\ Names(m, request)
  <2>1. trace' = [at |-> "source", manifest |-> m, text |-> NoText, artifact |-> 1]
    BY <1>4 DEF NoTrace
  <2>2. m.adapter \in Adapters
    BY <1>4 DEF Names, IsBound, Adapters
  <2>3. TraceShape'
    BY <1>2, <1>3, <2>1 DEF TraceShape, Texts
  <2>. QED
    BY <1>2, <2>1, <2>2, <2>3 DEF TraceInv, ManifestIsBound, TextWasAccepted, TextWasListed,
         ArtifactsWereFixed, ReplayWasListed, WasRead, WasHashed
<1>5. CASE RejectTrace
  <2>1. trace' = [at |-> "none", manifest |-> NoManifestOf, text |-> NoText, artifact |-> 1]
    BY <1>5 DEF RejectTrace, NoTrace
  <2>2. TraceShape'
    BY <1>2, <1>3, <2>1 DEF TraceShape, Texts
  <2>. QED
    BY <1>2, <2>1, <2>2 DEF TraceInv, ManifestIsBound, TextWasAccepted, TextWasListed,
         ArtifactsWereFixed, ReplayWasListed, WasRead, WasHashed
<1>. QED
  BY <1>1, <1>4, <1>5

LEMMA HashesKeepTrace ==
  ASSUME TraceInv, HashSource \/ HashText \/ RehashText \/ HashArtifact \/ VerifySource \/ Report
  PROVE  TraceInv'
<1>1. CASE RejectTrace
  BY <1>1, RejectKeepsTrace DEF HashSource, HashText, RehashText, HashArtifact, VerifySource, Report
<1>2. CASE HashSource /\ ~RejectTrace
  BY <1>2, MoveKeepsTrace DEF HashSource, WasRead, WasHashed
<1>3. CASE HashText /\ ~RejectTrace
  BY <1>3, MoveKeepsTrace DEF HashText, WasRead, WasHashed
<1>4. CASE RehashText /\ ~RejectTrace
  <2>. DEFINE at == IF trace.manifest.adapter = "artifacts" THEN "artifacts" ELSE "valid"
  <2>1. GoTo(at) /\ trace.at = "rehash" /\ capture.text = trace.manifest.text
        /\ UNCHANGED <<capture, writes, replay>>
    BY <1>4 DEF RehashText
  <2>2. at \in {"artifacts", "valid"} /\ (at = "artifacts" <=> trace.manifest.adapter = "artifacts")
    OBVIOUS
  <2>. HIDE DEF at
  <2>. QED
    BY <2>1, <2>2, MoveKeepsTrace DEF WasRead, WasHashed
<1>5. CASE HashArtifact /\ ~RejectTrace
  <2>1. trace.at = "artifacts" /\ FixedByText(trace.manifest, trace.text)
        /\ UNCHANGED <<capture, writes, replay>>
    BY <1>5 DEF HashArtifact
  <2>2. CASE GoTo("valid")
    BY <2>1, <2>2, MoveKeepsTrace DEF WasRead, WasHashed
  <2>3. CASE trace' = [trace EXCEPT !.artifact = @ + 1]
    <3>1. /\ trace'.at = trace.at /\ trace'.manifest = trace.manifest /\ trace'.text = trace.text
          /\ trace' = [at |-> trace'.at, manifest |-> trace'.manifest, text |-> trace'.text,
                       artifact |-> trace'.artifact]
      BY <2>3 DEF TraceInv, TraceShape
    <3>. QED
      BY <2>1, <3>1 DEF TraceInv, TraceShape, ManifestIsBound, TextWasAccepted, TextWasListed,
           ArtifactsWereFixed, ReplayWasListed, FixedByText
  <2>. QED
    BY <1>5, <2>2, <2>3 DEF HashArtifact
<1>6. CASE VerifySource /\ ~RejectTrace
  BY <1>6, MoveKeepsTrace DEF VerifySource, WasRead, WasHashed
<1>7. CASE Report
  BY <1>7, MoveKeepsTrace DEF Report, WasRead, WasHashed
<1>. QED
  BY <1>1, <1>2, <1>3, <1>4, <1>5, <1>6, <1>7

(* What is parsed is the text of that moment, which may be of neither hash. *)
LEMMA ReadTextKeeps == ASSUME TraceInv, ReadText PROVE TraceInv'
<1>1. CASE RejectTrace
  BY <1>1, RejectKeepsTrace DEF ReadText
<1>2. CASE ~RejectTrace
  <2>1. /\ trace' = [trace EXCEPT !.at = "rehash", !.text = capture.text] /\ trace.at = "read"
        /\ Accepts(trace.manifest.adapter, capture.text, trace.manifest.timeline)
        /\ UNCHANGED <<capture, writes, replay>>
    BY <1>2 DEF ReadText
  <2>2. /\ trace'.at = "rehash" /\ trace'.manifest = trace.manifest /\ trace'.text = capture.text
        /\ trace' = [at |-> trace'.at, manifest |-> trace'.manifest, text |-> trace'.text,
                     artifact |-> trace'.artifact]
    BY <2>1 DEF TraceInv, TraceShape
  <2>3. TraceShape' /\ ManifestIsBound'
    BY <2>1, <2>2 DEF TraceInv, TraceShape, ManifestIsBound
  <2>4. TextWasAccepted'
    BY <2>1, <2>2 DEF TextWasAccepted
  <2>5. TextWasListed' /\ ArtifactsWereFixed'
    BY <2>1, <2>2 DEF TraceInv, TextWasListed, ArtifactsWereFixed, WasHashed, WasRead
  <2>6. ReplayWasListed'
    BY <2>1, <2>2 DEF TraceInv, ReplayWasListed
  <2>. QED
    BY <2>3, <2>4, <2>5, <2>6 DEF TraceInv
<1>. QED
  BY <1>1, <1>2

(* The text of a replay is in memory when it is hashed.                    *)
LEMMA ReplayKeepsTrace ==
  ASSUME TraceInv, ReadForReplay \/ OpenForReplay
  PROVE  TraceInv'
<1>1. CASE RejectTrace /\ UNCHANGED replay
  <2>1. trace.at # "reported" /\ UNCHANGED <<capture, writes>>
    BY DEF ReadForReplay, OpenForReplay
  <2>. QED
    BY <1>1, <2>1, RejectKeepsTrace
<1>2. CASE ReadForReplay /\ ~(RejectTrace /\ UNCHANGED replay)
  <2>1. /\ GoTo("open") /\ trace.at \in {"valid", "verified"} /\ MayReplay(trace.manifest.adapter)
        /\ capture.text = trace.manifest.text /\ replay' = [NoReplay EXCEPT !.read = capture.text]
        /\ UNCHANGED <<capture, writes>>
    BY <1>2 DEF ReadForReplay
  <2>2. replay' = [read |-> trace.manifest.text, given |-> NoText]
    BY <2>1 DEF NoReplay
  <2>3. /\ trace'.at = "open" /\ trace'.manifest = trace.manifest /\ trace'.text = trace.text
        /\ trace' = [at |-> trace'.at, manifest |-> trace'.manifest, text |-> trace'.text,
                     artifact |-> trace'.artifact]
    BY <2>1, GoToShape DEF TraceInv
  <2>4. TraceShape' /\ ManifestIsBound' /\ TextWasAccepted' /\ TextWasListed'
    BY <2>1, <2>2, <2>3 DEF TraceInv, TraceShape, ManifestIsBound, TextWasAccepted, TextWasListed,
         WasRead, WasHashed
  <2>5. ArtifactsWereFixed'
    BY <2>1, <2>3 DEF TraceInv, ArtifactsWereFixed, FixedByText, WasRead, WasHashed
  <2>6. ReplayWasListed'
    BY <2>1, <2>2, <2>3 DEF ReplayWasListed
  <2>. QED
    BY <2>4, <2>5, <2>6 DEF TraceInv
<1>3. CASE OpenForReplay /\ ~(RejectTrace /\ UNCHANGED replay)
  <2>1. /\ GoTo("reported") /\ trace.at = "open"
        /\ Accepts(trace.manifest.adapter, replay.read, trace.manifest.timeline)
        /\ replay' = [replay EXCEPT !.given = Replayed(trace.manifest.adapter, replay.read)]
        /\ UNCHANGED <<capture, writes>>
    BY <1>3 DEF OpenForReplay
  <2>2. replay.read = trace.manifest.text /\ MayReplay(trace.manifest.adapter)
    BY <2>1 DEF TraceInv, ReplayWasListed
  <2>3. replay' = [read |-> trace.manifest.text,
                   given |-> Replayed(trace.manifest.adapter, trace.manifest.text)]
    BY <2>1, <2>2 DEF TraceInv, TraceShape
  <2>4. /\ trace'.at = "reported" /\ trace'.manifest = trace.manifest /\ trace'.text = trace.text
        /\ trace' = [at |-> trace'.at, manifest |-> trace'.manifest, text |-> trace'.text,
                     artifact |-> trace'.artifact]
    BY <2>1, GoToShape DEF TraceInv
  <2>5. TraceShape' /\ ManifestIsBound' /\ TextWasAccepted' /\ TextWasListed'
    BY <2>1, <2>3, <2>4 DEF TraceInv, TraceShape, ManifestIsBound, TextWasAccepted, TextWasListed,
         WasRead, WasHashed
  <2>6. ArtifactsWereFixed'
    BY <2>1, <2>4 DEF TraceInv, ArtifactsWereFixed, FixedByText, WasRead, WasHashed
  <2>7. ReplayWasListed'
    BY <2>1, <2>2, <2>3, <2>4 DEF ReplayWasListed
  <2>. QED
    BY <2>5, <2>6, <2>7 DEF TraceInv
<1>. QED
  BY <1>1, <1>2, <1>3

LEMMA TraceInvNext == TraceInv /\ [TraceStep]_traceVars => TraceInv'
<1>. SUFFICES ASSUME TraceInv, [TraceStep]_traceVars PROVE TraceInv'
  OBVIOUS
<1>1. CASE WriteSource \/ WriteText \/ WriteArtifact
  BY <1>1, WritesKeepTrace
<1>2. CASE ReadTraceManifest
  BY <1>2, ReadTraceManifestKeeps
<1>3. CASE HashSource \/ HashText \/ RehashText \/ HashArtifact \/ VerifySource \/ Report
  BY <1>3, HashesKeepTrace
<1>4. CASE ReadText
  BY <1>4, ReadTextKeeps
<1>5. CASE ReadForReplay \/ OpenForReplay
  BY <1>5, ReplayKeepsTrace
<1>6. CASE NextTrace
  BY <1>6, RejectKeepsTrace DEF NextTrace
<1>7. CASE UNCHANGED traceVars
  BY <1>7 DEF traceVars, TraceInv, TraceShape, ManifestIsBound, TextWasAccepted, TextWasListed,
              ArtifactsWereFixed, ReplayWasListed
<1>. QED
  BY <1>1, <1>2, <1>3, <1>4, <1>5, <1>6, <1>7 DEF TraceStep

(* What the invariant says of a report and of a replay.                    *)
LEMMA TraceInvIsListed == TraceInv => TraceIsListed
<1>. SUFFICES ASSUME TraceInv PROVE TraceIsListed
  OBVIOUS
<1>1. trace.at \in WasRead => trace.text # NoText /\ Increases(trace.text) /\ WellNested(trace.text)
  <2>1. SUFFICES ASSUME trace.at \in WasRead
                 PROVE  trace.text # NoText /\ Increases(trace.text) /\ WellNested(trace.text)
    OBVIOUS
  <2>2. /\ trace.text \in Seq(Events) /\ trace.manifest.adapter \in Adapters
        /\ Accepts(trace.manifest.adapter, trace.text, trace.manifest.timeline)
    BY <2>1, TextsAreEvents DEF TraceInv, TraceShape, ManifestIsBound, TextWasAccepted, WasRead
  <2>. QED
    BY <2>2, AcceptedIsNested DEF NoText
<1>2. trace.at \in WasHashed /\ writes <= 1 =>
        /\ trace.text = trace.manifest.text
        /\ trace.manifest.adapter = "artifacts" => FixedByText(trace.manifest, trace.manifest.text)
  BY DEF TraceInv, TextWasListed, ArtifactsWereFixed
<1>3. replay.given # NoText =>
        {replay.given[i] : i \in DOMAIN replay.given}
          = {trace.manifest.text[i] : i \in DOMAIN trace.manifest.text}
  BY ReplayedIsText DEF TraceInv, ReplayWasListed, MayReplay
<1>. QED
  BY <1>1, <1>2, <1>3 DEF TraceIsListed

----------------------------------------------------------------------------
(* What a session shows *)

(* A task reads for the session that asked for it, which asks once.        *)
TaskIsForRoute ==
  /\ task.kind \in {"none", "preflight", "create"} /\ (task.kind = "none" <=> task = NoTask)
  /\ task # NoTask => /\ route.screen \in Screens /\ route.modern
                      /\ resolver = NoResolver /\ ~shown.claimed /\ shown.art = "none"
  /\ task = NoTask /\ route.screen # "menu" => route.attempted
  /\ task.kind = "preflight" => ~route.attempted
  /\ task.kind = "create" => route.attempted
  /\ task.at = "load" => /\ task.kind = "create" /\ task.read.release = route.screen
                         /\ task.tier = TierOf(task.read, route.screen) /\ task.tier \in Tiers
                         /\ task.left \subseteq PicturesOf(task.tier, route.screen)

(* A pack in use is of this release and has a size to show.                *)
ResolverIsForRoute ==
  resolver # NoResolver =>
    /\ route.screen \in Screens /\ route.modern /\ resolver.read.release = route.screen
    /\ resolver.tier = TierOf(resolver.read, route.screen) /\ resolver.tier \in Tiers

(* The picture uploaded is one the pack in use lists, as it was listed.    *)
TextureIsListed ==
  /\ resolver = NoResolver => texture = NoTexture
  /\ texture # NoTexture =>
       /\ texture.picture \in PicturesOf(resolver.tier, route.screen)
       /\ texture.art = resolver.read.lists[texture.picture] /\ texture.art \notin {"unfit", "none"}
  /\ route.screen = "title" /\ resolver # NoResolver => texture # NoTexture

(* Where a picture was due and none was drawn, the pack is not in use.     *)
FrameIsOfTexture ==
  /\ shown.art # "none" => /\ resolver # NoResolver /\ ShownIsListed
  /\ shown.claimed /\ shown.art = "none" => resolver = NoResolver
  /\ shown.enhanced \in {0, shown.tick} /\ pipeline.surface \in {0, pipeline.key}

ManifestsRead == Manifests \cup {NoManifest}

PackTypes ==
  /\ manifest \in ManifestsRead
  /\ route \in [screen : Screens \cup {"menu"}, modern : BOOLEAN, pack : BOOLEAN,
                ready : BOOLEAN, attempted : BOOLEAN]
  /\ task \in [kind : {"none", "preflight", "create"}, at : {"none", "manifest", "hash", "load"},
               read : ManifestsRead, tier : Tiers \cup {"none"}, left : SUBSET Picture]
  /\ resolver \in [read : ManifestsRead, tier : Tiers \cup {"none"}]
  /\ texture \in [picture : Picture \cup {<<"none", 0>>}, art : Art \cup {"none"}]
  /\ pipeline \in [key : Nat, surface : Nat]
  /\ shown \in [tick : Nat, claimed : BOOLEAN, art : Art \cup {"none"}, enhanced : Nat]

PackInv ==
  PackTypes /\ TaskIsForRoute /\ ResolverIsForRoute /\ TextureIsListed /\ FrameIsOfTexture

-----------------------------------------------------------------------------
LEMMA ManifestShape ==
  ASSUME NEW m \in ManifestsRead
  PROVE  Listed(m) \subseteq Picture
  BY PackAssumption DEF ManifestsRead, NoManifest, Listed

(* A size that is found has all its screen shows.                          *)
LEMMA TierIsListed ==
  ASSUME NEW read, NEW screen, TierOf(read, screen) \in Tiers
  PROVE  PicturesOf(TierOf(read, screen), screen) \subseteq Listed(read)
<1>1. CASE screen = "title"
  BY <1>1 DEF TierOf, TitleTier, PicturesOf, Tiers
<1>2. CASE screen # "title"
  BY <1>2 DEF TierOf, SequenceTier, PicturesOf, Tiers
<1>. QED
  BY <1>1, <1>2

LEMMA TierShape ==
  ASSUME NEW read, NEW screen
  PROVE  TierOf(read, screen) \in Tiers \cup {"none"}
  BY DEF TierOf, TitleTier, SequenceTier, Tiers

LEMMA PicturesShape ==
  ASSUME NEW tier \in Tiers, NEW screen
  PROVE  PicturesOf(tier, screen) \subseteq Picture
  BY PackAssumption DEF PicturesOf, Picture, Frame

LEMMA PackInvInit == PackInit => PackInv
<1>. SUFFICES ASSUME PackInit PROVE PackInv
  OBVIOUS
<1>1. PackTypes
  BY DEF PackInit, PackTypes, ManifestsRead, NoManifest, Menu, NoTask, NoResolver, NoTexture,
       NoPipeline, NotShown, Picture
<1>2. TaskIsForRoute
  BY DEF PackInit, TaskIsForRoute, Menu, NoTask, NoResolver, NotShown
<1>3. ResolverIsForRoute /\ TextureIsListed
  BY DEF PackInit, ResolverIsForRoute, TextureIsListed, Menu, NoTexture, NoResolver
<1>4. FrameIsOfTexture
  BY DEF PackInit, FrameIsOfTexture, NotShown, NoPipeline
<1>. QED
  BY <1>1, <1>2, <1>3, <1>4 DEF PackInv

(* Asking for the pack starts one task, or none and never again.           *)
LEMMA StartKeeps ==
  ASSUME PackInv, NEW r \in [screen : Screens \cup {"menu"}, modern : BOOLEAN, pack : BOOLEAN,
                            ready : BOOLEAN, attempted : BOOLEAN],
         r.screen \in Screens, r.screen = route.screen \/ route.screen = "menu",
         r.modern = route.modern \/ route.screen = "menu",
         MayLoad(r) => resolver' = NoResolver /\ ~shown'.claimed /\ shown'.art = "none",
         StartLoading(r)
  PROVE  /\ route' \in [screen : Screens \cup {"menu"}, modern : BOOLEAN, pack : BOOLEAN,
                        ready : BOOLEAN, attempted : BOOLEAN]
         /\ task' \in [kind : {"none", "preflight", "create"}, at : {"none", "manifest", "hash", "load"},
                       read : ManifestsRead, tier : Tiers \cup {"none"}, left : SUBSET Picture]
         /\ route'.screen = r.screen /\ route'.modern = r.modern
         /\ TaskIsForRoute'
<1>1. /\ route' = [r EXCEPT !.attempted = TRUE]
      /\ route' \in [screen : Screens \cup {"menu"}, modern : BOOLEAN, pack : BOOLEAN,
                     ready : BOOLEAN, attempted : BOOLEAN]
      /\ route'.screen = r.screen /\ route'.modern = r.modern /\ route'.attempted
  BY DEF StartLoading
<1>2. CASE MayLoad(r)
  <2>1. task' = [kind |-> "create", at |-> "manifest", read |-> NoManifest, tier |-> "none", left |-> {}]
    BY <1>2 DEF StartLoading, Reading, NoTask
  <2>. QED
    BY <1>1, <1>2, <2>1 DEF TaskIsForRoute, MayLoad, NoTask, ManifestsRead
<1>3. CASE ~MayLoad(r)
  <2>1. task' = NoTask
    BY <1>3 DEF StartLoading
  <2>. QED
    BY <1>1, <2>1 DEF TaskIsForRoute, NoTask, ManifestsRead
<1>. QED
  BY <1>2, <1>3

(* A task at work has nothing to show yet, and a rejected one never will.  *)
LEMMA RejectKeeps ==
  ASSUME PackInv, task # NoTask, Reject, UNCHANGED <<manifest, pipeline, shown>>
  PROVE  PackInv'
<1>1. /\ resolver = NoResolver /\ texture = NoTexture /\ resolver' = NoResolver /\ texture' = NoTexture
      /\ route.screen \in Screens /\ route.modern /\ ~shown.claimed /\ shown.art = "none"
  BY DEF PackInv, TaskIsForRoute, TextureIsListed, Reject
<1>2. /\ TaskIsForRoute' /\ route'.screen = route.screen /\ route'.modern = route.modern
      /\ route' \in [screen : Screens \cup {"menu"}, modern : BOOLEAN, pack : BOOLEAN,
                     ready : BOOLEAN, attempted : BOOLEAN]
      /\ task' \in [kind : {"none", "preflight", "create"}, at : {"none", "manifest", "hash", "load"},
                    read : ManifestsRead, tier : Tiers \cup {"none"}, left : SUBSET Picture]
  <2>1. CASE task.kind = "preflight"
    <3>. DEFINE r == [route EXCEPT !.pack = FALSE]
    <3>1. StartLoading(r)
      BY <2>1 DEF Reject
    <3>2. /\ r \in [screen : Screens \cup {"menu"}, modern : BOOLEAN, pack : BOOLEAN,
                   ready : BOOLEAN, attempted : BOOLEAN]
          /\ r.screen = route.screen /\ r.modern = route.modern
      BY DEF PackInv, PackTypes
    <3>3. resolver' = NoResolver /\ ~shown'.claimed /\ shown'.art = "none"
      BY <1>1
    <3>. HIDE DEF r
    <3>. QED
      BY <1>1, <3>1, <3>2, <3>3, StartKeeps
  <2>2. CASE task.kind # "preflight"
    <3>1. task' = NoTask /\ route' = route
      BY <2>2 DEF Reject
    <3>. QED
      BY <2>2, <3>1, <1>1 DEF PackInv, PackTypes, TaskIsForRoute, NoTask, ManifestsRead
  <2>. QED
    BY <2>1, <2>2
<1>3. PackTypes'
  BY <1>1, <1>2 DEF PackInv, PackTypes, NoResolver, NoTexture
<1>4. ResolverIsForRoute' /\ TextureIsListed'
  BY <1>1 DEF ResolverIsForRoute, TextureIsListed
<1>5. FrameIsOfTexture'
  BY <1>1 DEF PackInv, FrameIsOfTexture
<1>. QED
  BY <1>2, <1>3, <1>4, <1>5 DEF PackInv

(* Reading on leaves the session and what it shows alone.                  *)
LEMMA ReadOnKeeps ==
  ASSUME PackInv, task # NoTask,
         task' \in [kind : {"none", "preflight", "create"}, at : {"none", "manifest", "hash", "load"},
                    read : ManifestsRead, tier : Tiers \cup {"none"}, left : SUBSET Picture],
         task'.kind = task.kind, task'.at # "none",
         task'.at = "load" =>
           /\ task'.kind = "create" /\ task'.read.release = route.screen
           /\ task'.tier = TierOf(task'.read, route.screen) /\ task'.tier \in Tiers
           /\ task'.left \subseteq PicturesOf(task'.tier, route.screen),
         UNCHANGED <<manifest, route, resolver, texture, pipeline, shown>>
  PROVE  PackInv'
<1>1. task' # NoTask /\ task.kind # "none"
  BY DEF PackInv, TaskIsForRoute, NoTask
<1>2. TaskIsForRoute'
  BY <1>1 DEF PackInv, TaskIsForRoute
<1>3. PackTypes' /\ ResolverIsForRoute' /\ TextureIsListed'
  BY DEF PackInv, PackTypes, ResolverIsForRoute, TextureIsListed
<1>4. FrameIsOfTexture'
  BY DEF PackInv, FrameIsOfTexture, ShownIsListed
<1>. QED
  BY <1>2, <1>3, <1>4 DEF PackInv

LEMMA ReadManifestKeeps == ASSUME PackInv, ReadManifest PROVE PackInv'
<1>1. task # NoTask
  BY DEF ReadManifest, NoTask
<1>2. CASE Reject
  BY <1>1, <1>2, RejectKeeps DEF ReadManifest
<1>3. CASE ~Reject
  <2>1. /\ task' = [task EXCEPT !.at = "hash", !.read = manifest, !.left = Listed(manifest)]
        /\ UNCHANGED <<manifest, route, resolver, texture, pipeline, shown>>
    BY <1>3 DEF ReadManifest
  <2>2. Listed(manifest) \in SUBSET Picture
    BY ManifestShape DEF PackInv, PackTypes
  <2>. QED
    BY <1>1, <2>1, <2>2, ReadOnKeeps DEF PackInv, PackTypes
<1>. QED
  BY <1>2, <1>3

LEMMA HashPictureKeeps == ASSUME PackInv, HashPicture PROVE PackInv'
<1>1. task # NoTask /\ task.at = "hash"
  BY DEF HashPicture, NoTask
<1>2. CASE Reject
  BY <1>1, <1>2, RejectKeeps DEF HashPicture
<1>3. CASE ~Reject
  <2>1. PICK picture \in task.left : task' = [task EXCEPT !.left = @ \ {picture}]
    BY <1>3 DEF HashPicture
  <2>2. UNCHANGED <<manifest, route, resolver, texture, pipeline, shown>>
    BY <1>3 DEF HashPicture
  <2>. QED
    BY <1>1, <2>1, <2>2, ReadOnKeeps DEF PackInv, PackTypes
<1>. QED
  BY <1>2, <1>3

LEMMA ValidatedKeeps == ASSUME PackInv, Validated PROVE PackInv'
<1>1. task # NoTask /\ task.at = "hash"
  BY DEF Validated, NoTask
<1>. DEFINE tier == TierOf(task.read, route.screen)
<1>2. CASE Reject
  BY <1>1, <1>2, RejectKeeps DEF Validated
<1>3. CASE StartLoading([route EXCEPT !.ready = TRUE]) /\ UNCHANGED <<resolver, texture>>
  <2>1. /\ resolver = NoResolver /\ texture = NoTexture /\ UNCHANGED <<manifest, pipeline, shown>>
        /\ route.screen \in Screens /\ ~shown.claimed /\ shown.art = "none"
    BY <1>1, <1>3 DEF PackInv, TaskIsForRoute, TextureIsListed, Validated
  <2>2. /\ TaskIsForRoute' /\ route'.screen = route.screen /\ route'.modern = route.modern
        /\ route' \in [screen : Screens \cup {"menu"}, modern : BOOLEAN, pack : BOOLEAN,
                       ready : BOOLEAN, attempted : BOOLEAN]
        /\ task' \in [kind : {"none", "preflight", "create"}, at : {"none", "manifest", "hash", "load"},
                      read : ManifestsRead, tier : Tiers \cup {"none"}, left : SUBSET Picture]
    <3>. DEFINE r == [route EXCEPT !.ready = TRUE]
    <3>1. StartLoading(r) /\ resolver' = NoResolver /\ ~shown'.claimed /\ shown'.art = "none"
      BY <1>3, <2>1
    <3>2. /\ r \in [screen : Screens \cup {"menu"}, modern : BOOLEAN, pack : BOOLEAN,
                   ready : BOOLEAN, attempted : BOOLEAN]
          /\ r.screen = route.screen /\ r.modern = route.modern
      BY DEF PackInv, PackTypes
    <3>. HIDE DEF r
    <3>. QED
      BY <2>1, <3>1, <3>2, StartKeeps
  <2>. QED
    BY <1>3, <2>1, <2>2 DEF PackInv, PackTypes, ResolverIsForRoute, TextureIsListed, FrameIsOfTexture
<1>4. CASE ~Reject /\ ~(StartLoading([route EXCEPT !.ready = TRUE]) /\ UNCHANGED <<resolver, texture>>)
  <2>1. /\ task.read.release = route.screen /\ tier # "none" /\ task.kind # "preflight"
        /\ task' = [task EXCEPT !.at = "load", !.tier = tier, !.left = PicturesOf(tier, route.screen)]
        /\ UNCHANGED <<manifest, route, resolver, texture, pipeline, shown>>
    BY <1>4 DEF Validated
  <2>2. tier \in Tiers /\ PicturesOf(tier, route.screen) \in SUBSET Picture
    BY <2>1, TierShape, PicturesShape
  <2>3. task.kind = "create"
    BY <1>1, <2>1 DEF PackInv, TaskIsForRoute
  <2>. HIDE DEF tier
  <2>4. task' \in [kind : {"none", "preflight", "create"}, at : {"none", "manifest", "hash", "load"},
                   read : ManifestsRead, tier : Tiers \cup {"none"}, left : SUBSET Picture]
    BY <2>1, <2>2 DEF PackInv, PackTypes
  <2>5. /\ task'.kind = "create" /\ task'.at = "load" /\ task'.read = task.read
        /\ task'.tier = tier /\ task'.left = PicturesOf(tier, route.screen)
    BY <2>1, <2>3 DEF PackInv, PackTypes
  <2>6. task'.tier = TierOf(task'.read, route.screen)
    BY <2>5 DEF tier
  <2>. QED
    BY <1>1, <2>1, <2>2, <2>3, <2>4, <2>5, <2>6, ReadOnKeeps
<1>. QED
  BY <1>2, <1>3, <1>4

(* The last picture that loads makes the pack the session's.               *)
LEMMA LoadPictureKeeps == ASSUME PackInv, LoadPicture PROVE PackInv'
<1>1. task # NoTask /\ task.at = "load" /\ UNCHANGED <<manifest, pipeline, shown>>
  BY DEF LoadPicture, NoTask
<1>2. CASE Reject
  BY <1>1, <1>2, RejectKeeps
<1>3. CASE ~Reject
  <2>1. PICK picture \in task.left :
          /\ Loads(task.read, picture) /\ route' = route
          /\ IF task.left # {picture}
             THEN task' = [task EXCEPT !.left = @ \ {picture}] /\ UNCHANGED <<resolver, texture>>
             ELSE /\ resolver' = [read |-> task.read, tier |-> task.tier] /\ task' = NoTask
                  /\ texture' = IF route.screen = "title"
                                THEN [picture |-> picture, art |-> files[picture]] ELSE texture
    BY <1>3 DEF LoadPicture
  <2>2. CASE task.left # {picture}
    BY <1>1, <2>1, <2>2, ReadOnKeeps DEF PackInv, PackTypes, TaskIsForRoute
  <2>3. CASE task.left = {picture}
    <3>1. /\ task.kind = "create" /\ route.attempted /\ route.screen \in Screens /\ route.modern
          /\ task.tier \in Tiers /\ task.tier = TierOf(task.read, route.screen)
          /\ task.read.release = route.screen /\ picture \in PicturesOf(task.tier, route.screen)
          /\ resolver = NoResolver /\ texture = NoTexture /\ ~shown.claimed /\ shown.art = "none"
      BY <1>1, <2>1 DEF PackInv, TaskIsForRoute, TextureIsListed
    <3>2. /\ resolver' = [read |-> task.read, tier |-> task.tier] /\ task' = NoTask
          /\ texture' = IF route.screen = "title"
                        THEN [picture |-> picture, art |-> files[picture]] ELSE NoTexture
      BY <2>1, <2>3, <3>1
    <3>3. /\ files[picture] = task.read.lists[picture] /\ files[picture] \in Art
          /\ files[picture] \notin {"unfit", "none"}
      BY <2>1 DEF Loads, Art
    <3>4. resolver' # NoResolver /\ resolver'.tier = task.tier /\ resolver'.read = task.read
      BY <3>1, <3>2 DEF NoResolver, Tiers
    <3>5. PackTypes'
      <4>1. /\ task' \in [kind : {"none", "preflight", "create"}, at : {"none", "manifest", "hash", "load"},
                          read : ManifestsRead, tier : Tiers \cup {"none"}, left : SUBSET Picture]
            /\ resolver' \in [read : ManifestsRead, tier : Tiers \cup {"none"}]
        BY <3>1, <3>2 DEF NoTask, ManifestsRead, PackInv, PackTypes
      <4>2. texture' \in [picture : Picture \cup {<<"none", 0>>}, art : Art \cup {"none"}]
        BY <3>1, <3>2, <3>3, PicturesShape DEF NoTexture
      <4>. QED
        BY <1>1, <2>1, <4>1, <4>2 DEF PackInv, PackTypes
    <3>6. TaskIsForRoute'
      BY <2>1, <3>1, <3>2 DEF TaskIsForRoute, NoTask, Screens
    <3>7. ResolverIsForRoute'
      BY <2>1, <3>1, <3>4 DEF ResolverIsForRoute
    <3>8. TextureIsListed'
      <4>1. CASE route.screen = "title"
        <5>1. texture'.picture = picture /\ texture'.art = files[picture] /\ texture' # NoTexture
          BY <3>2, <3>3, <4>1 DEF NoTexture
        <5>. QED
          BY <2>1, <3>1, <3>3, <3>4, <5>1 DEF TextureIsListed
      <4>2. CASE route.screen # "title"
        BY <2>1, <3>2, <4>2 DEF TextureIsListed
      <4>. QED
        BY <4>1, <4>2
    <3>9. FrameIsOfTexture'
      BY <1>1, <3>1 DEF PackInv, FrameIsOfTexture
    <3>. QED
      BY <3>5, <3>6, <3>7, <3>8, <3>9 DEF PackInv
  <2>. QED
    BY <2>2, <2>3
<1>. QED
  BY <1>2, <1>3

(* A launch and a return to the menu leave nothing of the last session.    *)
LEMMA NothingIsShown ==
  ASSUME PackInv, resolver' = NoResolver, texture' = NoTexture, pipeline' = NoPipeline,
         shown' = NotShown, manifest' = manifest, TaskIsForRoute',
         route' \in [screen : Screens \cup {"menu"}, modern : BOOLEAN, pack : BOOLEAN,
                     ready : BOOLEAN, attempted : BOOLEAN],
         task' \in [kind : {"none", "preflight", "create"}, at : {"none", "manifest", "hash", "load"},
                    read : ManifestsRead, tier : Tiers \cup {"none"}, left : SUBSET Picture]
  PROVE  PackInv'
<1>1. PackTypes'
  BY DEF PackInv, PackTypes, NoResolver, NoTexture, NoPipeline, NotShown, ManifestsRead
<1>2. ResolverIsForRoute' /\ TextureIsListed'
  BY DEF ResolverIsForRoute, TextureIsListed
<1>3. FrameIsOfTexture'
  BY DEF FrameIsOfTexture, NotShown, NoPipeline
<1>. QED
  BY <1>1, <1>2, <1>3 DEF PackInv

LEMMA LaunchKeeps == ASSUME PackInv, Launch PROVE PackInv'
<1>1. PICK screen \in Screens, modern \in BOOLEAN, pack \in BOOLEAN :
        LET launched == [Menu EXCEPT !.screen = screen, !.modern = modern, !.pack = pack] IN
        IF modern /\ pack THEN route' = launched /\ task' = Reading("preflight")
        ELSE StartLoading(launched)
  BY DEF Launch
<1>. DEFINE launched == [Menu EXCEPT !.screen = screen, !.modern = modern, !.pack = pack]
<1>2. /\ launched \in [screen : Screens \cup {"menu"}, modern : BOOLEAN, pack : BOOLEAN,
                       ready : BOOLEAN, attempted : BOOLEAN]
      /\ launched.screen = screen /\ launched.modern = modern /\ launched.pack = pack
      /\ ~launched.attempted
  BY DEF Menu
<1>3. /\ route.screen = "menu" /\ resolver' = NoResolver /\ texture' = NoTexture
      /\ pipeline' = NoPipeline /\ shown' = NotShown /\ manifest' = manifest
      /\ ~shown'.claimed /\ shown'.art = "none"
  BY DEF Launch, NotShown
<1>. HIDE DEF launched
<1>4. CASE modern /\ pack
  <2>1. route' = launched
    BY <1>1, <1>4 DEF launched
  <2>2. task' = [kind |-> "preflight", at |-> "manifest", read |-> NoManifest, tier |-> "none", left |-> {}]
    BY <1>1, <1>4 DEF Reading, NoTask
  <2>3. TaskIsForRoute'
    BY <1>2, <1>3, <1>4, <2>1, <2>2 DEF TaskIsForRoute, NoTask
  <2>. QED
    BY <1>2, <1>3, <2>1, <2>2, <2>3, NothingIsShown DEF ManifestsRead
<1>5. CASE ~(modern /\ pack)
  <2>1. StartLoading(launched)
    BY <1>1, <1>5 DEF launched
  <2>. QED
    BY <1>2, <1>3, <2>1, StartKeeps, NothingIsShown
<1>. QED
  BY <1>4, <1>5

LEMMA ReturnToMenuKeeps == ASSUME PackInv, ReturnToMenu PROVE PackInv'
<1>1. /\ route' = [screen |-> "menu", modern |-> FALSE, pack |-> FALSE, ready |-> FALSE, attempted |-> FALSE]
      /\ task' = task /\ task = NoTask /\ task.kind = "none" /\ task.at = "none"
  BY DEF ReturnToMenu, Menu, NoTask
<1>2. TaskIsForRoute'
  BY <1>1 DEF TaskIsForRoute
<1>. QED
  BY <1>1, <1>2, NothingIsShown DEF ReturnToMenu, PackInv, PackTypes

LEMMA OpeningStartedKeeps == ASSUME PackInv, OpeningStarted PROVE PackInv'
<1>1. /\ route.screen \in Screens /\ route.attempted /\ task = NoTask /\ StartLoading(route)
      /\ UNCHANGED <<manifest, resolver, texture, pipeline, shown>>
  BY DEF OpeningStarted, PackInv, TaskIsForRoute, Screens
<1>2. task' = task /\ route' = route
  BY <1>1 DEF StartLoading, MayLoad, PackInv, PackTypes
<1>. QED
  BY <1>1, <1>2 DEF PackInv, PackTypes, TaskIsForRoute, ResolverIsForRoute, TextureIsListed,
                    FrameIsOfTexture, ShownIsListed

(* What one frame draws, of whatever picture was uploaded last.            *)
LEMMA DrawShape ==
  ASSUME PackInv, NEW tick \in Nat, NEW claimed \in BOOLEAN, NEW enhance \in BOOLEAN,
         texture'.art \in Art \cup {"none"}, Draw(tick, claimed, enhance)
  PROVE  /\ shown' \in [tick : Nat, claimed : BOOLEAN, art : Art \cup {"none"}, enhanced : Nat]
         /\ pipeline' \in [key : Nat, surface : Nat] /\ pipeline'.surface \in {0, pipeline'.key}
         /\ shown'.tick = tick /\ shown'.claimed = claimed /\ shown'.enhanced \in {0, tick}
         /\ shown'.art = IF claimed THEN texture'.art ELSE "none"
<1>1. pipeline \in [key : Nat, surface : Nat] /\ pipeline.surface \in {0, pipeline.key}
  BY DEF PackInv, PackTypes, FrameIsOfTexture
<1>2. CASE claimed /\ texture'.art # "none"
  <2>1. /\ shown' = [tick |-> tick, claimed |-> TRUE, art |-> texture'.art, enhanced |-> 0]
        /\ pipeline' = pipeline
    BY <1>2 DEF Draw
  <2>. QED
    BY <1>1, <1>2, <2>1
<1>3. CASE ~(claimed /\ texture'.art # "none")
  <2>1. PICK fits \in BOOLEAN : pipeline' = IF enhance THEN Reconstructed(tick, fits) ELSE pipeline
    BY <1>3 DEF Draw
  <2>2. shown' = [tick |-> tick, claimed |-> claimed, art |-> "none",
                  enhanced |-> IF enhance THEN pipeline'.surface ELSE 0]
    BY <1>3 DEF Draw
  <2>3. /\ pipeline' \in [key : Nat, surface : Nat] /\ pipeline'.surface \in {0, pipeline'.key}
        /\ enhance => pipeline'.surface \in {0, tick}
    BY <1>1, <2>1 DEF Reconstructed
  <2>. QED
    BY <1>3, <2>2, <2>3
<1>. QED
  BY <1>2, <1>3

(* A frame of the opening shows the picture listed for its tick, or ends   *)
(* the pack's use.                                                         *)
LEMMA RefreshShape ==
  ASSUME PackInv, resolver # NoResolver, route.screen = "opening", NEW tick \in 1..Frames, Refresh(tick)
  PROVE  \/ resolver' = NoResolver /\ texture' = NoTexture
         \/ /\ resolver' = resolver /\ texture' # NoTexture
            /\ texture' \in [picture : Picture \cup {<<"none", 0>>}, art : Art \cup {"none"}]
            /\ texture'.picture = <<resolver.tier, tick>>
            /\ texture'.picture \in PicturesOf(resolver.tier, route.screen)
            /\ texture'.art = resolver.read.lists[texture'.picture]
            /\ texture'.art \notin {"unfit", "none"}
<1>. DEFINE picture == <<resolver.tier, tick>>
<1>1. resolver.tier \in Tiers /\ resolver.tier # "none"
  BY DEF PackInv, ResolverIsForRoute, Tiers
<1>2. picture \in PicturesOf(resolver.tier, route.screen) /\ picture # <<"none", 0>>
  BY <1>1 DEF PicturesOf, Frame
<1>3. CASE texture.picture = picture
  <2>1. texture # NoTexture
    BY <1>2, <1>3 DEF NoTexture
  <2>. QED
    BY <1>2, <1>3, <2>1 DEF Refresh, PackInv, PackTypes, TextureIsListed
<1>4. CASE texture.picture # picture /\ Loads(resolver.read, picture)
  <2>1. texture' = [picture |-> picture, art |-> files[picture]] /\ resolver' = resolver
    BY <1>4 DEF Refresh
  <2>2. /\ files[picture] = resolver.read.lists[picture] /\ files[picture] \in Art
        /\ files[picture] \notin {"unfit", "none"}
    BY <1>4 DEF Loads, Art
  <2>3. picture \in Picture
    BY <1>1, <1>2, PicturesShape
  <2>. HIDE DEF picture
  <2>4. texture'.picture = picture /\ texture'.art = files[picture] /\ texture' # NoTexture
    BY <1>2, <2>1 DEF NoTexture
  <2>. QED
    BY <1>2, <2>1, <2>2, <2>3, <2>4 DEF picture
<1>5. CASE texture.picture # picture /\ ~Loads(resolver.read, picture)
  BY <1>5 DEF Refresh
<1>. QED
  BY <1>3, <1>4, <1>5

LEMMA DrawOpeningKeeps == ASSUME PackInv, DrawOpening PROVE PackInv'
<1>1. /\ route.screen = "opening" /\ task = NoTask /\ UNCHANGED <<manifest, route, task>>
  BY DEF DrawOpening
<1>2. PICK tick \in shown.tick..(Frames + 1), handedOff \in BOOLEAN, enhance \in {FALSE, route.modern} :
        /\ IF resolver # NoResolver /\ Claimed(tick, handedOff) THEN Refresh(tick)
           ELSE UNCHANGED <<resolver, texture>>
        /\ Draw(tick, route.modern /\ Claimed(tick, handedOff), enhance)
  BY DEF DrawOpening
<1>. DEFINE claimed == route.modern /\ Claimed(tick, handedOff)
<1>3. /\ tick \in Nat /\ claimed \in BOOLEAN /\ enhance \in BOOLEAN
      /\ Claimed(tick, handedOff) => tick \in 1..Frames
  <2>1. route.modern \in BOOLEAN /\ shown.tick \in Nat /\ Frames \in Nat
    BY PackAssumption DEF PackInv, PackTypes
  <2>2. Claimed(tick, handedOff) \in BOOLEAN /\ (Claimed(tick, handedOff) => tick \in 1..Frames)
    BY DEF Claimed
  <2>3. tick \in Nat
    BY <2>1
  <2>4. claimed \in BOOLEAN
    BY <2>1, <2>2, Zenon
  <2>5. enhance \in BOOLEAN
    BY <2>1
  <2>. QED
    BY <2>2, <2>3, <2>4, <2>5
<1>4. texture' \in [picture : Picture \cup {<<"none", 0>>}, art : Art \cup {"none"}]
  BY <1>1, <1>2, <1>3, RefreshShape DEF PackInv, PackTypes, NoTexture
<1>5. resolver' \in {resolver, NoResolver}
  BY <1>1, <1>2, <1>3, RefreshShape
<1>6. /\ shown' \in [tick : Nat, claimed : BOOLEAN, art : Art \cup {"none"}, enhanced : Nat]
      /\ pipeline' \in [key : Nat, surface : Nat] /\ pipeline'.surface \in {0, pipeline'.key}
      /\ shown'.tick = tick /\ shown'.claimed = claimed /\ shown'.enhanced \in {0, tick}
      /\ shown'.art = IF claimed THEN texture'.art ELSE "none"
  BY <1>2, <1>3, <1>4, DrawShape
<1>7. PackTypes'
  BY <1>1, <1>4, <1>5, <1>6 DEF PackInv, PackTypes, NoResolver, ManifestsRead
<1>8. TaskIsForRoute'
  BY <1>1 DEF PackInv, TaskIsForRoute, NoTask
<1>9. ResolverIsForRoute'
  BY <1>1, <1>5 DEF PackInv, ResolverIsForRoute
<1>10. TextureIsListed'
  BY <1>1, <1>2, <1>3, RefreshShape DEF PackInv, TextureIsListed
<1>11. FrameIsOfTexture'
  <2>1. claimed => \/ resolver' = NoResolver /\ texture' = NoTexture
                   \/ /\ resolver' = resolver /\ resolver # NoResolver
                      /\ texture'.picture = <<resolver.tier, tick>>
                      /\ texture'.art = resolver.read.lists[texture'.picture]
                      /\ texture'.art \notin {"unfit", "none"}
                      /\ texture'.picture \in PicturesOf(resolver.tier, route.screen)
    BY <1>1, <1>2, <1>3, RefreshShape DEF PackInv, TextureIsListed
  <2>2. CASE shown'.art # "none"
    <3>1. /\ claimed /\ resolver' = resolver /\ resolver # NoResolver
          /\ texture'.picture = <<resolver.tier, tick>> /\ shown'.art = texture'.art
          /\ texture'.art = resolver.read.lists[texture'.picture] /\ texture'.art # "unfit"
          /\ texture'.picture \in PicturesOf(resolver.tier, route.screen)
      BY <1>6, <2>1, <2>2 DEF NoTexture
    <3>2. /\ resolver.read.release = route.screen /\ resolver.tier = TierOf(resolver.read, route.screen)
          /\ resolver.tier \in Tiers
      BY <3>1 DEF PackInv, ResolverIsForRoute
    <3>3. texture'.picture \in Listed(resolver.read)
      BY <3>1, <3>2, TierIsListed
    <3>4. ShownIsListed'
      BY <1>1, <1>6, <3>1, <3>2, <3>3 DEF ShownIsListed
    <3>. QED
      BY <1>6, <2>2, <3>1, <3>4 DEF FrameIsOfTexture
  <2>3. CASE shown'.art = "none"
    BY <1>6, <2>1, <2>3 DEF FrameIsOfTexture
  <2>. QED
    BY <2>2, <2>3
<1>. QED
  BY <1>7, <1>8, <1>9, <1>10, <1>11 DEF PackInv

LEMMA DrawTitleKeeps == ASSUME PackInv, DrawTitle PROVE PackInv'
<1>1. /\ route.screen = "title" /\ task = NoTask
      /\ UNCHANGED <<manifest, route, task, resolver, texture>>
  BY DEF DrawTitle
<1>2. PICK enhance \in {FALSE, route.modern} : Draw(1, TRUE, enhance)
  BY DEF DrawTitle
<1>3. /\ shown' \in [tick : Nat, claimed : BOOLEAN, art : Art \cup {"none"}, enhanced : Nat]
      /\ pipeline' \in [key : Nat, surface : Nat] /\ pipeline'.surface \in {0, pipeline'.key}
      /\ shown'.tick = 1 /\ shown'.claimed /\ shown'.enhanced \in {0, 1} /\ shown'.art = texture.art
  <2>1. enhance \in BOOLEAN /\ texture'.art = texture.art /\ texture'.art \in Art \cup {"none"}
    BY <1>1, <1>2 DEF PackInv, PackTypes
  <2>2. TRUE \in BOOLEAN /\ 1 \in Nat /\ Draw(1, TRUE, enhance)
    BY <1>2
  <2>. HIDE DEF Draw
  <2>. QED
    BY <2>1, <2>2, DrawShape, Zenon
<1>4. PackTypes' /\ TaskIsForRoute' /\ ResolverIsForRoute' /\ TextureIsListed'
  BY <1>1, <1>3 DEF PackInv, PackTypes, TaskIsForRoute, ResolverIsForRoute, TextureIsListed, NoTask
<1>5. FrameIsOfTexture'
  <2>1. CASE texture = NoTexture
    BY <1>1, <1>3, <2>1 DEF PackInv, TextureIsListed, FrameIsOfTexture, NoTexture
  <2>2. CASE texture # NoTexture
    <3>1. /\ resolver # NoResolver /\ texture.art = resolver.read.lists[texture.picture]
          /\ texture.art \notin {"unfit", "none"} /\ resolver.tier \in Tiers
          /\ texture.picture \in PicturesOf(resolver.tier, route.screen)
          /\ route.modern /\ resolver.read.release = route.screen
          /\ resolver.tier = TierOf(resolver.read, route.screen)
      BY <2>2 DEF PackInv, TextureIsListed, ResolverIsForRoute
    <3>2. texture.picture = <<resolver.tier, 0>> /\ texture.picture \in Listed(resolver.read)
      BY <1>1, <3>1, TierIsListed DEF PicturesOf
    <3>. QED
      BY <1>1, <1>3, <3>1, <3>2 DEF FrameIsOfTexture, ShownIsListed
  <2>. QED
    BY <2>1, <2>2
<1>. QED
  BY <1>4, <1>5 DEF PackInv

-----------------------------------------------------------------------------
LEMMA PackInvNext == PackInv /\ [PackStep]_packVars => PackInv'
<1>. SUFFICES ASSUME PackInv, [PackStep]_packVars PROVE PackInv'
  OBVIOUS
<1>1. CASE ChangePicture \/ UNCHANGED packVars
  BY <1>1 DEF ChangePicture, packVars, PackInv, PackTypes, TaskIsForRoute, ResolverIsForRoute,
              TextureIsListed, FrameIsOfTexture, ShownIsListed
<1>2. CASE ChangeManifest
  BY <1>2 DEF ChangeManifest, PackInv, PackTypes, TaskIsForRoute, ResolverIsForRoute,
              TextureIsListed, FrameIsOfTexture, ShownIsListed, ManifestsRead
<1>3. CASE ReadManifest \/ HashPicture \/ Validated \/ LoadPicture
  BY <1>3, ReadManifestKeeps, HashPictureKeeps, ValidatedKeeps, LoadPictureKeeps
<1>4. CASE Launch \/ ReturnToMenu \/ OpeningStarted
  BY <1>4, LaunchKeeps, ReturnToMenuKeeps, OpeningStartedKeeps
<1>5. CASE DrawOpening \/ DrawTitle
  BY <1>5, DrawOpeningKeeps, DrawTitleKeeps
<1>. QED
  BY <1>1, <1>2, <1>3, <1>4, <1>5 DEF PackStep

(* Between two frames of one session the pack in use stays the same or     *)
(* goes, and a place where the original was drawn stays without a picture. *)
LEMMA RouteStep ==
  ASSUME PackInv, [PackStep]_packVars, route.screen # "menu", route'.screen # "menu"
  PROVE  /\ (resolver # NoResolver /\ resolver' # NoResolver) => resolver' = resolver
         /\ (shown.claimed /\ shown.art = "none") => shown'.art = "none"
<1>1. CASE UNCHANGED packVars \/ ChangePicture \/ ChangeManifest \/ OpeningStarted \/ DrawTitle
  <2>1. resolver' = resolver /\ texture' = texture
    BY <1>1 DEF packVars, ChangePicture, ChangeManifest, OpeningStarted, DrawTitle
  <2>2. (shown.claimed /\ shown.art = "none") => shown'.art = "none"
    <3>1. CASE DrawTitle
      <4>1. SUFFICES ASSUME shown.claimed, shown.art = "none" PROVE shown'.art = "none"
        OBVIOUS
      <4>2. texture'.art = "none"
        BY <2>1, <4>1 DEF PackInv, FrameIsOfTexture, TextureIsListed, NoTexture
      <4>. QED
        BY <3>1, <4>2 DEF DrawTitle, Draw
    <3>2. CASE ~DrawTitle
      BY <1>1, <3>2 DEF packVars, ChangePicture, ChangeManifest, OpeningStarted
    <3>. QED
      BY <3>1, <3>2
  <2>. QED
    BY <2>1, <2>2
<1>2. CASE ReadManifest \/ HashPicture \/ Validated \/ LoadPicture
  <2>1. task # NoTask /\ shown' = shown
    BY <1>2 DEF ReadManifest, HashPicture, Validated, LoadPicture, NoTask
  <2>. QED
    BY <2>1 DEF PackInv, TaskIsForRoute
<1>3. ~Launch /\ ~ReturnToMenu
  <2>1. ~Launch
    BY DEF Launch
  <2>2. ~ReturnToMenu
    BY DEF ReturnToMenu, Menu
  <2>. QED
    BY <2>1, <2>2
<1>4. CASE DrawOpening
  <2>1. PICK tick \in shown.tick..(Frames + 1), handedOff \in BOOLEAN, enhance \in {FALSE, route.modern} :
          /\ IF resolver # NoResolver /\ Claimed(tick, handedOff) THEN Refresh(tick)
             ELSE UNCHANGED <<resolver, texture>>
          /\ Draw(tick, route.modern /\ Claimed(tick, handedOff), enhance)
    BY <1>4 DEF DrawOpening
  <2>2. resolver' \in {resolver, NoResolver}
    BY <2>1 DEF Refresh
  <2>3. (shown.claimed /\ shown.art = "none") => shown'.art = "none"
    <3>1. SUFFICES ASSUME shown.claimed, shown.art = "none" PROVE shown'.art = "none"
      OBVIOUS
    <3>2. resolver = NoResolver /\ texture.art = "none"
      BY <3>1 DEF PackInv, FrameIsOfTexture, TextureIsListed, NoTexture
    <3>3. texture'.art = "none"
      BY <2>1, <3>2
    <3>. QED
      BY <2>1, <3>3 DEF Draw
  <2>. QED
    BY <2>2, <2>3
<1>. QED
  BY <1>1, <1>2, <1>3, <1>4 DEF PackStep

-----------------------------------------------------------------------------
LEMMA FileStepShape ==
  [FileNext]_fileVars => [PackStep]_packVars /\ [Next]_vars /\ [TraceStep]_traceVars
<1>. SUFFICES ASSUME [FileNext]_fileVars
              PROVE  [PackStep]_packVars /\ [Next]_vars /\ [TraceStep]_traceVars
  OBVIOUS
<1>1. CASE UNCHANGED fileVars
  BY <1>1 DEF fileVars
<1>2. CASE ScanStep \/ (subject = "scan" /\ (ReplaceEntry \/ Finish) /\ UNCHANGED <<vars, packVars, traceVars, subject>>)
  BY <1>2 DEF ScanStep
<1>3. CASE subject = "media" /\ Next /\ UNCHANGED <<scanVars, packVars, traceVars, subject>>
  BY <1>3
<1>4. CASE subject = "pack" /\ PackStep /\ UNCHANGED <<scanVars, vars, traceVars, subject>>
  BY <1>4
<1>5. CASE subject = "trace" /\ TraceStep /\ UNCHANGED <<scanVars, vars, packVars, subject>>
  BY <1>5
<1>. QED
  BY <1>1, <1>2, <1>3, <1>4, <1>5 DEF FileNext

(* The pack's invariant, for any frames, manifests and writers.            *)
THEOREM PackInvariant == FileSpec => []PackInv
<1>1. FileInit => PackInv
  BY PackInvInit DEF FileInit
<1>2. PackInv /\ [FileNext]_fileVars => PackInv'
  BY PackInvNext, FileStepShape
<1>. QED
  BY <1>1, <1>2, PTL DEF FileSpec

(* Within a session the pack and its size never change, and where the      *)
(* original was drawn for want of a picture it is drawn from there on.     *)
THEOREM RouteIsOneHolds == FileSpec => RouteIsOne
<1>1. PackInv /\ [FileNext]_fileVars =>
        [(route.screen # "menu" /\ route'.screen # "menu") =>
           /\ (resolver # NoResolver /\ resolver' # NoResolver) => resolver' = resolver
           /\ (shown.claimed /\ shown.art = "none") => shown'.art = "none"]_packVars
  BY RouteStep, FileStepShape
<1>. QED
  BY <1>1, PackInvariant, PTL DEF FileSpec, RouteIsOne

(* The media's invariant, whatever else is read beside it.                 *)
THEOREM FilesMediaInvariant == FileSpec => []MediaInv
<1>1. FileInit => MediaInv
  BY MediaInvInit DEF FileInit
<1>2. MediaInv /\ [FileNext]_fileVars => MediaInv'
  BY MediaInvNext, FileStepShape
<1>. QED
  BY <1>1, <1>2, PTL DEF FileSpec

(* A borrow answers what the disk holds now, an archive what it held.      *)
THEOREM FilesBorrowAnswers == FileSpec => BorrowAnswersThePresent
<1>1. MediaInv /\ [FileNext]_fileVars =>
        [Borrow => IF layout = "archives" THEN answer' # NoAnswer
                   ELSE answer' # NoAnswer => disk[answer'] = "original"]_vars
  BY BorrowStep
<1>. QED
  BY <1>1, FilesMediaInvariant, PTL DEF FileSpec, BorrowAnswersThePresent

(* No loan moves or changes while its session lasts.                       *)
THEOREM FilesLoansAreStable == FileSpec => LoansAreStable
<1>1. MediaInv /\ [FileNext]_fileVars =>
        [session = "open" /\ session' = "open" =>
           \A leaf \in Leaf : views[leaf] # NoView => views'[leaf] = views[leaf]]_vars
  BY LoanStep, FileStepShape
<1>. QED
  BY <1>1, FilesMediaInvariant, PTL DEF FileSpec, LoansAreStable

(* The validation's invariant, for texts of any length.                    *)
THEOREM FilesTraceInvariant == FileSpec => []TraceInv
<1>1. FileInit => TraceInv
  BY TraceInvInit DEF FileInit
<1>2. TraceInv /\ [FileNext]_fileVars => TraceInv'
  BY TraceInvNext, FileStepShape
<1>. QED
  BY <1>1, <1>2, PTL DEF FileSpec

(* What is shown, parsed or replayed of the user's files is what they were *)
(* verified to be: the three invariants together.                          *)
THEOREM FilesAreVerifiedHolds == FileSpec => []FilesAreVerified
<1>1. MediaInv => LentIsOriginal
  BY DEF MediaInv
<1>2. PackInv => ShownIsListed
  BY DEF PackInv, FrameIsOfTexture, ShownIsListed
<1>3. TraceInv => TraceIsListed
  BY TraceInvIsListed
<1>4. MediaInv /\ PackInv /\ TraceInv => FilesAreVerified
  BY <1>1, <1>2, <1>3 DEF FilesAreVerified
<1>. QED
  BY <1>4, FilesMediaInvariant, PackInvariant, FilesTraceInvariant, PTL

-----------------------------------------------------------------------------
(***************************************************************************)
(* What a scan finds, for any tree, contents and sets, over a disk that    *)
(* changes.  A scan is judged by a disk and a start of its own, so that a  *)
(* step that leaves the disk alone is judged by the same.                  *)
(***************************************************************************)

FoundReleases == [release : Nat, layout : FoundLayouts, path : Dir \cup File \cup {NoFile}]

Scans ==
  [phase : {"discovering", "direct_sets", "container_sets", "candidates"},
   queue : Seq(Dir), opened : Nat, listing : SUBSET DOMAIN ParentOf,
   candidates : SUBSET File, left : SUBSET File, cursor : Nat, inspected : File \cup {NoFile},
   size : Nat, releases : Seq(FoundReleases), leaves : SUBSET ParserLeaf, bound : SUBSET File,
   containers : SUBSET File, report : [Counters -> Nat]]

Pairs(s) == Len(s.queue) * Len(DirectSets)

ScanShape(s) ==
  /\ s \in Scans
  /\ s.opened <= Len(s.queue)
  /\ s.left \subseteq s.candidates /\ s.containers \subseteq s.candidates
  /\ s.inspected \in s.left \cup {NoFile}
  /\ s.phase # "candidates" => s.left = {}
  /\ s.phase = "discovering" => s.cursor = 0
  /\ s.phase = "direct_sets" => s.cursor <= Pairs(s)
  /\ s.phase = "container_sets" => s.cursor <= Len(ContainerSets)

(* The reads: nothing is counted before the candidates are complete, and   *)
(* only the disks of a container set are taken without a verdict.          *)
Counted(r) ==
  r["size_rejected"] + r["hash_rejected"] + r["verified"] + r["verified_leaves"]
    + r["unreadable"]

CountsAgree(s) ==
  /\ s.report["hashed"] =
       s.report["hash_rejected"] + s.report["verified"] + s.report["verified_leaves"]
  /\ s.phase # "candidates" => Counted(s.report) = 0
  /\ s.phase = "candidates" =>
       /\ Counted(s.report) <= Cardinality(s.candidates \ s.left)
       /\ Cardinality(s.candidates \ s.left) - Counted(s.report)
            <= Cardinality(s.containers \ s.left)

(* The releases: each identity is there once, and every layout adds up.    *)
Distinct(releases) ==
  \A i, j \in DOMAIN releases : releases[i].release = releases[j].release => i = j

InLayout(releases, tag) == {i \in DOMAIN releases : releases[i].layout = tag}

LayoutsAddUp(s) ==
  LET In(tag) == Cardinality(InLayout(s.releases, tag))
      r == s.report
  IN  /\ In("zip_archive") + r["duplicates"] = r["verified"]
      /\ In("verified_directory") + r["duplicate_direct_sets"] = r["direct_sets"]
      /\ In("verified_container_set") <= r["container_sets"]
      /\ IsFiniteSet(s.leaves)
      /\ Cardinality(s.leaves) + r["duplicate_leaves"] = r["verified_leaves"]

(* The order: what was taken comes before what is left, and a finished     *)
(* list is in the order of its identities.                                 *)
Least(f, left) == f \in left /\ \A other \in left : f <= other

InOrder(s) ==
  /\ \A f \in s.candidates \ s.left, g \in s.left : f <= g
  /\ s.inspected # NoFile => Least(s.inspected, s.left)
  /\ Done(s) => \A i, j \in DOMAIN s.releases :
                  i < j => s.releases[i].release < s.releases[j].release

(* A quiet disk: what there is to find on it, by definition.               *)
On(d, start) == {f \in File : start \in {Root, f} /\ d[f] # Gone}
DirsFrom(start) == IF start = Root THEN Dir ELSE {}
DirectOn(d, dirs) ==
  {DirectSets[j].release : j \in {j \in DOMAIN DirectSets :
     \E dir \in dirs : VerifiedDirect(d, dir, DirectSets[j])}}
ContainersOn(d, those, n) ==
  {ContainerSets[k].release : k \in {k \in 1..n :
     VerifiedContainers(d, those, ContainerSets[k])}}
ArchivesOn(d, those) == {ArchiveOf[d[f]] : f \in those} \ {0}

(* And what has been found of it so far.  Of a directory opened, every     *)
(* entry was taken or is still listed.                                     *)
Opened(s) == {s.queue[i] : i \in 1..s.opened}
Taken(s, d, e) ==
  \/ e \in Link
  \/ e \in Dir /\ e \in {s.queue[i] : i \in 1..Len(s.queue)}
  \/ e \in File /\ (d[e] = Gone \/ e \in s.candidates)

Discovered(s, d, start) ==
  IF s.phase = "discovering"
  THEN /\ start = Root /\ Len(s.queue) > 0 /\ s.queue[1] = Root
       /\ s.candidates \subseteq On(d, Root)
       /\ \A e \in DOMAIN ParentOf :
            ParentOf[e] \in Opened(s) => e \in s.listing \/ Taken(s, d, e)
  ELSE /\ s.candidates = On(d, start)
       /\ {s.queue[i] : i \in 1..Len(s.queue)} = DirsFrom(start)

DirectSoFar(s, d) ==
  {DirectSets[(p % Len(DirectSets)) + 1].release : p \in {p \in 0..(s.cursor - 1) :
     VerifiedDirect(d, s.queue[(p \div Len(DirectSets)) + 1],
                    DirectSets[(p % Len(DirectSets)) + 1])}}

FoundSoFar(s, d, start) ==
  LET direct == DirectOn(d, DirsFrom(start))
      those  == On(d, start)
  IN  CASE s.phase = "discovering" -> {}
        [] s.phase = "direct_sets" -> DirectSoFar(s, d)
        [] s.phase = "container_sets" -> direct \cup ContainersOn(d, those, s.cursor)
        [] s.phase = "candidates" ->
             direct \cup ContainersOn(d, those, Len(ContainerSets))
               \cup ArchivesOn(d, s.candidates \ s.left)

(* A directory comes before a container set, which comes before an         *)
(* archive; and of an archive's copies the first path is kept.             *)
AsFound(found, d, start) ==
  LET direct     == DirectOn(d, DirsFrom(start))
      containers == ContainersOn(d, On(d, start), Len(ContainerSets))
      copies     == {f \in On(d, start) : ArchiveOf[d[f]] = found.release}
  IN  /\ found.release \in direct => found.layout = "verified_directory"
      /\ found.release \in containers \ direct => found.layout = "verified_container_set"
      /\ found.release \notin direct \cup containers =>
           found.layout = "zip_archive" /\ Least(found.path, copies)

FoundOnQuiet(s, d, start) ==
  /\ Discovered(s, d, start)
  /\ s.phase \in {"discovering", "direct_sets"} => s.containers = {}
  /\ Found(s.releases) = FoundSoFar(s, d, start)
  /\ \A i \in DOMAIN s.releases : AsFound(s.releases[i], d, start)
  /\ \A f \in s.containers : ArchiveOf[d[f]] = 0

(* What holds of a scan whatever becomes of the disk.                      *)
ScanOK(s) ==
  /\ ScanShape(s) /\ CountsAgree(s) /\ Distinct(s.releases) /\ LayoutsAddUp(s) /\ InOrder(s)

ScanInv ==
  /\ chosen \in Sources /\ collection \in [File -> Content \cup {Gone}]
  /\ changes \in 0..MaxChanges /\ disturbed \in BOOLEAN
  /\ ScanOK(scan)
  /\ ~disturbed => FoundOnQuiet(scan, collection, chosen)

-----------------------------------------------------------------------------
(* The list of releases.                                                   *)
Permuted(rs, t) ==
  \E m \in Bijection(DOMAIN rs, DOMAIN rs) : t = [n \in DOMAIN rs |-> rs[m[n]]]

Increasing(t) == \A i, j \in DOMAIN t : i < j => t[i].release < t[j].release

LEMMA FoundTyped ==
  ASSUME NEW rs \in Seq(FoundReleases)
  PROVE  /\ Len(rs) \in Nat /\ DOMAIN rs = 1..Len(rs) /\ IsFiniteSet(DOMAIN rs)
         /\ Cardinality(DOMAIN rs) = Len(rs)
         /\ \A i \in DOMAIN rs : rs[i] \in FoundReleases /\ rs[i].release \in Nat
<1>1. Len(rs) \in Nat /\ DOMAIN rs = 1..Len(rs)
  OBVIOUS
<1>2. IsFiniteSet(1..Len(rs)) /\ Cardinality(1..Len(rs)) = Len(rs)
  BY <1>1, FS_Interval
<1>3. \A i \in DOMAIN rs : rs[i] \in FoundReleases
  OBVIOUS
<1>4. QED
  BY <1>1, <1>2, <1>3 DEF FoundReleases

(* What a release is sorted by: how many come before it.                   *)
LEMMA SortedIsPermuted ==
  ASSUME NEW rs \in Seq(FoundReleases), Distinct(rs)
  PROVE  Permuted(rs, Sorted(rs)) /\ Increasing(Sorted(rs))
<1> DEFINE D == DOMAIN rs
           N == Len(rs)
           R(i) == rs[i].release
           B(i) == {j \in D : R(j) < R(i) \/ (R(j) = R(i) /\ j < i)}
           Rank == [i \in D |-> Cardinality(B(i)) + 1]
           m == [n \in D |-> CHOOSE i \in D : Cardinality(B(i)) = n - 1]
<1>1. N \in Nat /\ D = 1..N /\ IsFiniteSet(D) /\ Cardinality(D) = N
  BY FoundTyped
<1>2. \A i \in D : R(i) \in Nat
  BY FoundTyped
<1>3. \A i, j \in D : R(i) = R(j) => i = j
  BY DEF Distinct
<1>4. Sorted(rs) = [n \in D |-> rs[m[n]]]
  <2>1. Sorted(rs) = [n \in D |-> rs[CHOOSE i \in D : Cardinality(B(i)) = n - 1]]
    BY Zenon DEF Sorted
  <2>2. \A n \in D : m[n] = CHOOSE i \in D : Cardinality(B(i)) = n - 1
    OBVIOUS
  <2> HIDE DEF m, D
  <2>3. QED
    BY <2>1, <2>2, Zenon
<1> HIDE DEF D, N, R
<1>5. \A i \in D : IsFiniteSet(B(i)) /\ Cardinality(B(i)) \in 0..(N - 1)
  <2> TAKE i \in D
  <2>1. IsFiniteSet(D \ {i}) /\ Cardinality(D \ {i}) = N - 1
    BY <1>1, FS_RemoveElement
  <2>2. B(i) \in SUBSET (D \ {i})
    <3>1. \A j \in B(i) : j \in D /\ j # i
      BY <1>1, <1>2
    <3>2. QED
      BY <3>1
  <2>3. IsFiniteSet(B(i)) /\ Cardinality(B(i)) <= N - 1
    BY <2>1, <2>2, FS_Subset
  <2>4. Cardinality(B(i)) \in Nat
    BY <2>3, FS_CardinalityType
  <2>5. QED
    BY <1>1, <2>3, <2>4
<1>6. \A i, k \in D : R(i) < R(k) => Cardinality(B(i)) < Cardinality(B(k))
  <2> SUFFICES ASSUME NEW i \in D, NEW k \in D, R(i) < R(k)
               PROVE  Cardinality(B(i)) < Cardinality(B(k))
    OBVIOUS
  <2>1. i \in B(k) /\ i \notin B(i)
    BY <1>1, <1>2
  <2>2. B(i) \in SUBSET (B(k) \ {i})
    BY <1>1, <1>2, <2>1
  <2>3. IsFiniteSet(B(k)) /\ IsFiniteSet(B(k) \ {i})
        /\ Cardinality(B(k) \ {i}) = Cardinality(B(k)) - 1
    BY <1>5, <2>1, FS_RemoveElement
  <2>4. Cardinality(B(i)) <= Cardinality(B(k) \ {i})
    BY <2>2, <2>3, FS_Subset
  <2>5. Cardinality(B(i)) \in 0..(N - 1) /\ Cardinality(B(k)) \in 0..(N - 1)
    BY <1>5
  <2>6. QED
    BY <1>1, <2>3, <2>4, <2>5
<1> HIDE DEF B
<1>7. \A i \in D : Rank[i] = Cardinality(B(i)) + 1
  OBVIOUS
<1>8. Rank \in [D -> D]
  BY <1>1, <1>5
<1> HIDE DEF Rank
<1>9. \A i, k \in D : Rank[i] = Rank[k] => i = k
  <2> SUFFICES ASSUME NEW i \in D, NEW k \in D, Rank[i] = Rank[k] PROVE i = k
    OBVIOUS
  <2>1. Cardinality(B(i)) = Cardinality(B(k))
    BY <1>1, <1>5, <1>7
  <2>2. ~(R(i) < R(k)) /\ ~(R(k) < R(i))
    BY <1>1, <1>5, <1>6, <2>1
  <2>3. R(i) = R(k)
    BY <1>2, <2>2
  <2>4. QED
    BY <1>3, <2>3
<1>10. Rank \in Surjection(D, D)
  <2>1. Rank \in Injection(D, D)
    BY <1>8, <1>9 DEF Injection, IsInjective
  <2>2. QED
    BY <1>1, <2>1, FS_Injection
<1>11. \A n \in D : m[n] \in D /\ Rank[m[n]] = n
  <2> TAKE n \in D
  <2>1. PICK i \in D : Rank[i] = n
    BY <1>10 DEF Surjection
  <2>2. Cardinality(B(i)) = n - 1
    BY <1>1, <1>5, <1>7, <2>1
  <2>3. m[n] \in D /\ Cardinality(B(m[n])) = n - 1
    BY <2>2
  <2>4. QED
    BY <1>1, <1>7, <2>3
<1> HIDE DEF m
<1>12. m \in Bijection(D, D)
  <2>1. m \in [D -> D]
    BY <1>11 DEF m
  <2>2. \A n, k \in D : m[n] = m[k] => n = k
    BY <1>11
  <2>3. \A k \in D : \E n \in D : m[n] = k
    <3> TAKE k \in D
    <3>1. Rank[k] \in D
      BY <1>8
    <3>2. m[Rank[k]] \in D /\ Rank[m[Rank[k]]] = Rank[k]
      BY <1>11, <3>1
    <3>3. m[Rank[k]] = k
      BY <1>9, <3>2
    <3>4. QED
      BY <3>1, <3>3
  <2>4. QED
    BY <2>1, <2>2, <2>3 DEF Bijection, Injection, Surjection, IsInjective
<1>13. Increasing(Sorted(rs))
  <2> SUFFICES ASSUME NEW n \in D, NEW k \in D, n < k PROVE R(m[n]) < R(m[k])
    BY <1>4 DEF Increasing, D, R
  <2>1. m[n] \in D /\ m[k] \in D /\ Rank[m[n]] = n /\ Rank[m[k]] = k
    BY <1>11
  <2>2. Cardinality(B(m[n])) < Cardinality(B(m[k]))
    <3>1. n \in Nat /\ k \in Nat
      BY <1>1
    <3>2. n = Cardinality(B(m[n])) + 1 /\ k = Cardinality(B(m[k])) + 1
      BY <1>7, <2>1
    <3>3. Cardinality(B(m[n])) \in Int /\ Cardinality(B(m[k])) \in Int
      BY <1>1, <1>5, <2>1
    <3>4. QED
      BY <3>1, <3>2, <3>3
  <2>3. ~(R(m[k]) < R(m[n])) /\ m[n] # m[k]
    BY <1>1, <1>5, <1>6, <2>1, <2>2
  <2>4. QED
    BY <1>2, <1>3, <2>1, <2>3
<1>14. Permuted(rs, Sorted(rs))
  BY <1>4, <1>12 DEF Permuted, D
<1>15. QED
  BY <1>13, <1>14

(* A permuted list has the same releases, in the same layouts.             *)
LEMMA PermutedKeeps ==
  ASSUME NEW rs \in Seq(FoundReleases), Distinct(rs), NEW t, Permuted(rs, t)
  PROVE  /\ t \in Seq(FoundReleases) /\ Len(t) = Len(rs) /\ Distinct(t) /\ Found(t) = Found(rs)
         /\ \A tag : Cardinality(InLayout(t, tag)) = Cardinality(InLayout(rs, tag))
         /\ \A n \in DOMAIN t : \E i \in DOMAIN rs : t[n] = rs[i]
<1> DEFINE D == DOMAIN rs
<1>1. PICK m \in Bijection(D, D) : t = [n \in D |-> rs[m[n]]]
  BY DEF Permuted
<1>2. D = 1..Len(rs) /\ Len(rs) \in Nat /\ IsFiniteSet(D)
      /\ \A i \in D : rs[i] \in FoundReleases
  BY FoundTyped
<1>3. /\ m \in [D -> D]
      /\ \A n, k \in D : m[n] = m[k] => n = k
      /\ \A k \in D : \E n \in D : m[n] = k
  BY DEF Bijection, Injection, Surjection, IsInjective
<1>4. DOMAIN t = D /\ \A n \in D : t[n] = rs[m[n]] /\ m[n] \in D
  BY <1>1, <1>3
<1>5. t \in Seq(FoundReleases) /\ Len(t) = Len(rs)
  <2>1. t = [n \in 1..Len(rs) |-> rs[m[n]]] /\ \A n \in 1..Len(rs) : rs[m[n]] \in FoundReleases
    BY <1>1, <1>2, <1>3
  <2>2. QED
    BY <1>2, <2>1
<1>6. Distinct(t)
  BY <1>3, <1>4 DEF Distinct
<1>7. Found(t) = Found(rs)
  BY <1>3, <1>4 DEF Found
<1>8. ASSUME NEW tag PROVE Cardinality(InLayout(t, tag)) = Cardinality(InLayout(rs, tag))
  <2> DEFINE S == InLayout(t, tag)
             T == InLayout(rs, tag)
             g == [n \in S |-> m[n]]
  <2>1. S \subseteq D /\ T \subseteq D /\ \A n \in D : n \in S <=> m[n] \in T
    BY <1>4 DEF InLayout
  <2>2. IsFiniteSet(S)
    BY <1>2, <2>1, FS_Subset
  <2> HIDE DEF S, T
  <2>3. g \in Bijection(S, T)
    BY <1>3, <2>1 DEF Bijection, Injection, Surjection, IsInjective
  <2>4. ExistsBijection(S, T)
    BY <2>3 DEF ExistsBijection
  <2>5. QED
    BY <2>2, <2>4, FS_Bijection DEF S, T
<1>9. QED
  BY <1>4, <1>5, <1>6, <1>7, <1>8

(* A release that was not found yet is added.                              *)
LEMMA AppendAdds ==
  ASSUME NEW rs \in Seq(FoundReleases), NEW r \in FoundReleases
  PROVE  LET t == Append(rs, r) IN
         /\ t \in Seq(FoundReleases)
         /\ Found(t) = Found(rs) \cup {r.release}
         /\ Distinct(rs) /\ r.release \notin Found(rs) => Distinct(t)
         /\ \A i \in DOMAIN t : t[i] = r \/ \E j \in DOMAIN rs : t[i] = rs[j]
         /\ \A tag : Cardinality(InLayout(t, tag)) =
                       Cardinality(InLayout(rs, tag)) + (IF r.layout = tag THEN 1 ELSE 0)
<1> DEFINE t == Append(rs, r)
           N == Len(rs)
<1>1. N \in Nat /\ DOMAIN rs = 1..N /\ IsFiniteSet(DOMAIN rs)
  BY FoundTyped
<1>2. /\ t \in Seq(FoundReleases) /\ DOMAIN t = 1..(N + 1)
      /\ \A i \in 1..N : t[i] = rs[i]
      /\ t[N + 1] = r
  BY <1>1
<1> HIDE DEF t, N
<1>3. Found(t) = Found(rs) \cup {r.release}
  BY <1>1, <1>2 DEF Found
<1>4. ASSUME Distinct(rs), r.release \notin Found(rs) PROVE Distinct(t)
  BY <1>1, <1>2, <1>4 DEF Distinct, Found
<1>5. \A i \in DOMAIN t : t[i] = r \/ \E j \in DOMAIN rs : t[i] = rs[j]
  BY <1>1, <1>2
<1>6. ASSUME NEW tag
      PROVE  Cardinality(InLayout(t, tag)) =
               Cardinality(InLayout(rs, tag)) + (IF r.layout = tag THEN 1 ELSE 0)
  <2> DEFINE S == InLayout(rs, tag)
  <2>1. S \subseteq 1..N /\ N + 1 \notin S
    BY <1>1 DEF InLayout
  <2>2. IsFiniteSet(S)
    BY <1>1, <2>1, FS_Subset
  <2>3. InLayout(t, tag) = IF r.layout = tag THEN S \cup {N + 1} ELSE S
    BY <1>1, <1>2 DEF InLayout
  <2> HIDE DEF S
  <2>4. Cardinality(S) \in Nat /\ Cardinality(S \cup {N + 1}) = Cardinality(S) + 1
    BY <2>1, <2>2, FS_AddElement, FS_CardinalityType
  <2>5. QED
    BY <2>3, <2>4 DEF S
<1>7. QED
  BY <1>2, <1>3, <1>4, <1>5, <1>6 DEF t

-----------------------------------------------------------------------------
(* Taking a candidate                                                      *)

LEMMA CountIs ==
  ASSUME NEW r \in [Counters -> Nat], NEW cs
  PROVE  /\ Count(r, cs) \in [Counters -> Nat]
         /\ \A c \in Counters : Count(r, cs)[c] = r[c] + (IF c \in cs THEN 1 ELSE 0)
  BY DEF Count

LEMMA CountersAreNumbers ==
  ASSUME NEW r \in [Counters -> Nat]
  PROVE  /\ r["size_rejected"] \in Nat /\ r["hash_rejected"] \in Nat /\ r["hashed"] \in Nat
         /\ r["verified"] \in Nat /\ r["duplicates"] \in Nat /\ r["unreadable"] \in Nat
         /\ r["verified_leaves"] \in Nat /\ r["duplicate_leaves"] \in Nat
         /\ r["direct_sets"] \in Nat /\ r["duplicate_direct_sets"] \in Nat
         /\ r["container_sets"] \in Nat /\ Counted(r) \in Nat
<1>1. /\ r["size_rejected"] \in Nat /\ r["hash_rejected"] \in Nat /\ r["hashed"] \in Nat
      /\ r["verified"] \in Nat /\ r["duplicates"] \in Nat /\ r["unreadable"] \in Nat
  BY DEF Counters
<1>2. /\ r["verified_leaves"] \in Nat /\ r["duplicate_leaves"] \in Nat
      /\ r["direct_sets"] \in Nat /\ r["duplicate_direct_sets"] \in Nat
      /\ r["container_sets"] \in Nat
  BY DEF Counters
<1>3. QED
  BY <1>1, <1>2 DEF Counted

LEMMA FilesAreNumbers == File \subseteq Nat /\ NoFile \notin File /\ IsFiniteSet(File)
  BY ScannerAssumption

LEMMA LeastOfFiles ==
  ASSUME NEW left \in SUBSET File, left # {}
  PROVE  \E f : Least(f, left)
<1>1. PICK R : IsWellFoundedOn(R, Nat) /\ \A x, y \in Nat : y < x => <<y, x>> \in R
  BY NatOrder
<1>2. left \subseteq Nat
  BY FilesAreNumbers
<1>3. PICK f \in left : \A g \in left : ~(<<g, f>> \in R)
  BY <1>1, <1>2, WFMin
<1>4. ASSUME NEW g \in left PROVE f <= g
  <2>1. f \in Nat /\ g \in Nat /\ ~(g < f)
    BY <1>1, <1>2, <1>3
  <2>2. QED
    BY <2>1
<1>5. QED
  BY <1>3, <1>4 DEF Least

LEMMA FirstLeftIsLeast ==
  ASSUME NEW s, s.left \in SUBSET File, s.left # {}
  PROVE  Least(FirstLeft(s), s.left)
<1>1. \E f \in s.left : \A other \in s.left : f <= other
  BY LeastOfFiles DEF Least
<1>2. QED
  BY <1>1 DEF FirstLeft, Least

SameReleases(rs, t) ==
  /\ t \in Seq(FoundReleases) /\ Distinct(t) /\ Found(t) = Found(rs)
  /\ \A tag : Cardinality(InLayout(t, tag)) = Cardinality(InLayout(rs, tag))
  /\ \A n \in DOMAIN t : \E i \in DOMAIN rs : t[n] = rs[i]

LEMMA SortedIsSame ==
  ASSUME NEW rs \in Seq(FoundReleases), Distinct(rs)
  PROVE  /\ SameReleases(rs, Sorted(rs)) /\ SameReleases(rs, rs)
         /\ Increasing(Sorted(rs))
<1>1. SameReleases(rs, Sorted(rs)) /\ Increasing(Sorted(rs))
  BY SortedIsPermuted, PermutedKeeps DEF SameReleases
<1>2. SameReleases(rs, rs)
  BY DEF SameReleases
<1>3. QED
  BY <1>1, <1>2

(* A scan but for what an operation says of itself.                        *)
Elsewhere(s, t) ==
  /\ t.phase = s.phase /\ t.queue = s.queue /\ t.opened = s.opened /\ t.listing = s.listing
  /\ t.candidates = s.candidates /\ t.cursor = s.cursor /\ t.containers = s.containers

LEMMA SettledIs ==
  ASSUME NEW s \in Scans, Distinct(s.releases)
  PROVE  LET t == Settled(s) IN
         /\ t \in Scans /\ Elsewhere(s, t)
         /\ t.left = s.left /\ t.inspected = s.inspected /\ t.size = s.size
         /\ t.leaves = s.leaves /\ t.bound = s.bound /\ t.report = s.report
         /\ SameReleases(s.releases, t.releases)
         /\ Done(t) => Increasing(t.releases)
<1>1. s.releases \in Seq(FoundReleases)
  BY DEF Scans
<1>2. /\ SameReleases(s.releases, Sorted(s.releases)) /\ SameReleases(s.releases, s.releases)
      /\ Increasing(Sorted(s.releases)) /\ Sorted(s.releases) \in Seq(FoundReleases)
  BY <1>1, SortedIsSame DEF SameReleases
<1>3. CASE Done(s)
  <2> DEFINE t == [s EXCEPT !.releases = Sorted(s.releases)]
  <2>1. Settled(s) = t
    BY <1>3 DEF Settled
  <2>2. t \in Scans /\ t.releases = Sorted(s.releases)
    BY <1>2 DEF Scans
  <2>3. /\ Elsewhere(s, t) /\ t.left = s.left /\ t.inspected = s.inspected /\ t.size = s.size
        /\ t.leaves = s.leaves /\ t.bound = s.bound /\ t.report = s.report
    BY DEF Scans, Elsewhere
  <2> HIDE DEF t
  <2>4. QED
    BY <1>2, <2>1, <2>2, <2>3
<1>4. CASE ~Done(s)
  BY <1>2, <1>4 DEF Settled, Elsewhere
<1>5. QED
  BY <1>3, <1>4

LEMMA FinishedIs ==
  ASSUME NEW s \in Scans, Distinct(s.releases), NEW file \in s.left, NEW cs
  PROVE  LET t == Finished(s, file, cs) IN
         /\ t \in Scans /\ Elsewhere(s, t)
         /\ t.left = s.left \ {file} /\ t.inspected = NoFile
         /\ t.leaves = s.leaves /\ t.bound = s.bound /\ t.report = Count(s.report, cs)
         /\ SameReleases(s.releases, t.releases)
         /\ Done(t) => Increasing(t.releases)
<1> DEFINE u == [s EXCEPT !.left = @ \ {file}, !.inspected = NoFile, !.report = Count(@, cs)]
<1>1. s.report \in [Counters -> Nat] /\ Count(s.report, cs) \in [Counters -> Nat]
  BY CountIs DEF Scans
<1>2. u \in Scans
  BY <1>1 DEF Scans
<1>3. /\ Elsewhere(s, u) /\ u.left = s.left \ {file} /\ u.inspected = NoFile
      /\ u.leaves = s.leaves /\ u.bound = s.bound /\ u.report = Count(s.report, cs)
      /\ u.releases = s.releases
  BY DEF Scans, Elsewhere
<1>4. Finished(s, file, cs) = Settled(u)
  BY DEF Finished
<1> HIDE DEF u
<1>5. QED
  BY <1>2, <1>3, <1>4, SettledIs DEF Elsewhere

(* A candidate is taken with a verdict, or as the disk of a complete set.  *)
LEMMA TakenKeeps ==
  ASSUME NEW s, ScanShape(s), CountsAgree(s), InOrder(s), s.phase = "candidates",
         NEW file, Least(file, s.left),
         NEW t \in Scans, Elsewhere(s, t), t.left = s.left \ {file}, t.inspected = NoFile,
         Done(t) => Increasing(t.releases),
         t.report["hashed"] =
           t.report["hash_rejected"] + t.report["verified"] + t.report["verified_leaves"],
         \/ Counted(t.report) = Counted(s.report) + 1
         \/ Counted(t.report) = Counted(s.report) /\ file \in s.containers
  PROVE  ScanShape(t) /\ CountsAgree(t) /\ InOrder(t)
<1> DEFINE taken == s.candidates \ s.left
           disks == s.containers \ s.left
<1>1. /\ s \in Scans /\ s.left \subseteq s.candidates /\ s.containers \subseteq s.candidates
      /\ s.candidates \in SUBSET File /\ s.opened <= Len(s.queue)
      /\ file \in s.left /\ \A other \in s.left : file <= other
  BY DEF ScanShape, Scans, Least
<1>2. IsFiniteSet(taken) /\ IsFiniteSet(disks)
  <2>1. taken \in SUBSET File /\ disks \in SUBSET File
    BY <1>1
  <2>2. QED
    BY <2>1, FilesAreNumbers, FS_Subset
<1>3. /\ t.candidates \ t.left = taken \cup {file} /\ file \notin taken
      /\ t.containers \ t.left = IF file \in s.containers THEN disks \cup {file} ELSE disks
      /\ file \notin disks
  BY <1>1 DEF Elsewhere
<1>4. /\ Counted(s.report) <= Cardinality(taken)
      /\ Cardinality(taken) - Counted(s.report) <= Cardinality(disks)
  BY DEF CountsAgree
<1>5. Counted(s.report) \in Nat
  <2>1. s.report \in [Counters -> Nat]
    BY <1>1 DEF Scans
  <2>2. QED
    BY <2>1, CountersAreNumbers
<1> HIDE DEF taken, disks
<1>6. /\ Cardinality(taken) \in Nat /\ Cardinality(taken \cup {file}) = Cardinality(taken) + 1
      /\ Cardinality(disks) \in Nat /\ Cardinality(disks \cup {file}) = Cardinality(disks) + 1
  BY <1>2, <1>3, FS_AddElement, FS_CardinalityType
<1>7. CountsAgree(t)
  <2>1. /\ Counted(t.report) <= Cardinality(taken) + 1
        /\ Cardinality(taken) + 1 - Counted(t.report)
             <= IF file \in s.containers THEN Cardinality(disks) + 1 ELSE Cardinality(disks)
    BY <1>4, <1>5, <1>6
  <2>2. /\ Cardinality(t.candidates \ t.left) = Cardinality(taken) + 1
        /\ Cardinality(t.containers \ t.left) =
             IF file \in s.containers THEN Cardinality(disks) + 1 ELSE Cardinality(disks)
    BY <1>3, <1>6
  <2>3. t.phase = "candidates"
    BY DEF Elsewhere
  <2>4. /\ Counted(t.report) <= Cardinality(t.candidates \ t.left)
        /\ Cardinality(t.candidates \ t.left) - Counted(t.report)
             <= Cardinality(t.containers \ t.left)
    <3>1. CASE file \in s.containers
      BY <1>5, <1>6, <2>1, <2>2, <3>1
    <3>2. CASE file \notin s.containers
      BY <1>5, <1>6, <2>1, <2>2, <3>2
    <3>3. QED
      BY <3>1, <3>2
  <2>5. QED
    BY <2>3, <2>4 DEF CountsAgree
<1>8. ScanShape(t)
  BY <1>1 DEF ScanShape, Elsewhere
<1>9. InOrder(t)
  <2>1. \A f \in t.candidates \ t.left, g \in t.left : f <= g
    <3>1. \A f \in s.candidates \ s.left, g \in s.left : f <= g
      BY DEF InOrder
    <3>2. QED
      BY <1>1, <3>1 DEF Elsewhere
  <2>2. QED
    BY <2>1 DEF InOrder, Increasing
<1>10. QED
  BY <1>7, <1>8, <1>9

LEMMA CountsAre ==
  ASSUME NEW r \in [Counters -> Nat], NEW cs
  PROVE  LET q      == Count(r, cs)
             One(c) == IF c \in cs THEN 1 ELSE 0
         IN  /\ q \in [Counters -> Nat]
             /\ \A c \in {"hashed", "hash_rejected", "verified", "verified_leaves", "duplicates",
                          "duplicate_leaves", "direct_sets", "duplicate_direct_sets",
                          "container_sets"} : q[c] = r[c] + One(c) /\ r[c] \in Nat
             /\ Counted(q) = Counted(r) + One("size_rejected") + One("hash_rejected")
                               + One("verified") + One("verified_leaves") + One("unreadable")
             /\ Counted(r) \in Nat
<1> DEFINE q == Count(r, cs)
           One(c) == IF c \in cs THEN 1 ELSE 0
<1>1. q \in [Counters -> Nat] /\ \A c \in Counters : q[c] = r[c] + One(c)
  BY CountIs
<1> HIDE DEF q
<1>2. \A c : One(c) \in Nat
  OBVIOUS
<1>3. \A c \in {"hashed", "hash_rejected", "verified", "verified_leaves", "duplicates",
                "duplicate_leaves", "direct_sets", "duplicate_direct_sets",
                "container_sets"} : c \in Counters
  BY DEF Counters
<1>4. /\ q["size_rejected"] = r["size_rejected"] + One("size_rejected")
      /\ q["hash_rejected"] = r["hash_rejected"] + One("hash_rejected")
      /\ q["verified"] = r["verified"] + One("verified")
      /\ q["verified_leaves"] = r["verified_leaves"] + One("verified_leaves")
      /\ q["unreadable"] = r["unreadable"] + One("unreadable")
  BY <1>1 DEF Counters
<1>5. /\ r["size_rejected"] \in Nat /\ r["hash_rejected"] \in Nat /\ r["verified"] \in Nat
      /\ r["verified_leaves"] \in Nat /\ r["unreadable"] \in Nat /\ Counted(r) \in Nat
  BY CountersAreNumbers
<1> HIDE DEF One
<1>6. Counted(q) = Counted(r) + One("size_rejected") + One("hash_rejected")
                     + One("verified") + One("verified_leaves") + One("unreadable")
  BY <1>2, <1>4, <1>5 DEF Counted
<1>7. QED
  BY <1>1, <1>3, <1>5, <1>6 DEF q, One

LEMMA LayoutsKept ==
  ASSUME NEW s, LayoutsAddUp(s), NEW t, t.leaves = s.leaves,
         \A tag : Cardinality(InLayout(t.releases, tag)) = Cardinality(InLayout(s.releases, tag)),
         \A c \in {"verified", "duplicates", "direct_sets", "duplicate_direct_sets",
                   "container_sets", "verified_leaves", "duplicate_leaves"} :
           t.report[c] = s.report[c]
  PROVE  LayoutsAddUp(t)
  BY DEF LayoutsAddUp

LEMMA InspectKeeps ==
  ASSUME ScanOK(scan), collection \in [File -> Content \cup {Gone}], InspectCandidate
  PROVE  ScanOK(scan')
<1> DEFINE file == FirstLeft(scan)
           size == SizeOf[collection[file]]
           kinds == (IF size \in OuterSizes THEN {"size_candidates"} ELSE {})
                      \cup (IF size \in LeafSizes THEN {"leaf_size"} ELSE {})
<1>1. /\ scan \in Scans /\ Distinct(scan.releases) /\ scan.phase = "candidates"
      /\ scan.inspected = NoFile /\ scan.left # {} /\ scan.left \in SUBSET File
      /\ scan.report \in [Counters -> Nat]
  BY DEF ScanOK, ScanShape, Scans, InspectCandidate
<1>2. Least(file, scan.left) /\ file \in scan.left /\ file \in File
  BY <1>1, FirstLeftIsLeast DEF Least
<1>3. scan' = IF collection[file] = Gone THEN Finished(scan, file, {"unreadable"})
              ELSE IF file \in scan.containers THEN Finished(scan, file, {})
              ELSE IF kinds = {} THEN Finished(scan, file, {"size_rejected"})
              ELSE [scan EXCEPT !.inspected = file, !.size = size, !.report = Count(@, kinds)]
  BY DEF InspectCandidate
<1>4. kinds \subseteq {"size_candidates", "leaf_size"}
  OBVIOUS
<1> HIDE DEF file, kinds, size
<1>5. ASSUME NEW cs \in {{"unreadable"}, {"size_rejected"}, {}},
             cs = {} => file \in scan.containers,
             scan' = Finished(scan, file, cs)
      PROVE  ScanOK(scan')
  <2> DEFINE t == Finished(scan, file, cs)
  <2>1. /\ t \in Scans /\ Elsewhere(scan, t) /\ t.left = scan.left \ {file}
        /\ t.inspected = NoFile /\ t.leaves = scan.leaves
        /\ t.report = Count(scan.report, cs) /\ SameReleases(scan.releases, t.releases)
        /\ Done(t) => Increasing(t.releases)
    BY <1>1, <1>2, FinishedIs
  <2> HIDE DEF t
  <2>2. /\ \A c \in {"hashed", "hash_rejected", "verified", "verified_leaves", "duplicates",
                     "duplicate_leaves", "direct_sets", "duplicate_direct_sets",
                     "container_sets"} : t.report[c] = scan.report[c]
        /\ Counted(t.report) = Counted(scan.report) + (IF cs = {} THEN 0 ELSE 1)
        /\ Counted(scan.report) \in Nat
    <3>1. \A c \in {"hashed", "hash_rejected", "verified", "verified_leaves", "duplicates",
                    "duplicate_leaves", "direct_sets", "duplicate_direct_sets",
                    "container_sets"} : c \notin cs
      BY <1>5
    <3>2. CASE cs = {}
      BY <1>1, <2>1, <3>1, <3>2, CountsAre
    <3>3. CASE cs = {"unreadable"}
      BY <1>1, <2>1, <3>1, <3>3, CountsAre
    <3>4. CASE cs = {"size_rejected"}
      BY <1>1, <2>1, <3>1, <3>4, CountsAre
    <3>5. QED
      BY <3>2, <3>3, <3>4, <1>5
  <2>3. ScanShape(t) /\ CountsAgree(t) /\ InOrder(t)
    <3>1. ScanShape(scan) /\ CountsAgree(scan) /\ InOrder(scan)
      BY DEF ScanOK
    <3>2. t.report["hashed"] =
            t.report["hash_rejected"] + t.report["verified"] + t.report["verified_leaves"]
      BY <2>2, <3>1 DEF CountsAgree
    <3>3. \/ Counted(t.report) = Counted(scan.report) + 1
          \/ Counted(t.report) = Counted(scan.report) /\ file \in scan.containers
      BY <1>5, <2>2
    <3>4. QED
      BY <1>1, <1>2, <2>1, <3>1, <3>2, <3>3, TakenKeeps
  <2>4. LayoutsAddUp(t) /\ Distinct(t.releases)
    <3>1. LayoutsAddUp(scan)
      BY DEF ScanOK
    <3>2. QED
      BY <2>1, <2>2, <3>1, LayoutsKept DEF SameReleases
  <2>5. QED
    BY <1>5, <2>3, <2>4 DEF ScanOK, t
<1>6. ASSUME collection[file] # Gone,
             scan' = [scan EXCEPT !.inspected = file, !.size = size, !.report = Count(@, kinds)]
      PROVE  ScanOK(scan')
  <2> DEFINE t == [scan EXCEPT !.inspected = file, !.size = size, !.report = Count(@, kinds)]
  <2>1. size \in Nat
    BY <1>2, <1>6, ScannerAssumption DEF size
  <2>2. Count(scan.report, kinds) \in [Counters -> Nat]
    BY <1>1, CountIs
  <2>3. t \in Scans
    BY <1>1, <1>2, <2>1, <2>2 DEF Scans
  <2>4. /\ Elsewhere(scan, t) /\ t.left = scan.left /\ t.inspected = file
        /\ t.leaves = scan.leaves /\ t.releases = scan.releases
        /\ t.report = Count(scan.report, kinds)
    BY <1>1 DEF Scans, Elsewhere
  <2> HIDE DEF t
  <2>5. /\ \A c \in {"hashed", "hash_rejected", "verified", "verified_leaves", "duplicates",
                     "duplicate_leaves", "direct_sets", "duplicate_direct_sets",
                     "container_sets"} : t.report[c] = scan.report[c]
        /\ Counted(t.report) = Counted(scan.report)
    <3>1. \A c \in {"hashed", "hash_rejected", "verified", "verified_leaves", "duplicates",
                    "duplicate_leaves", "direct_sets", "duplicate_direct_sets",
                    "container_sets", "size_rejected", "unreadable"} : c \notin kinds
      BY <1>4
    <3>2. QED
      BY <1>1, <2>4, <3>1, CountsAre
  <2>6. ScanShape(t)
    BY <1>1, <1>2, <2>3, <2>4 DEF ScanShape, Elsewhere, ScanOK
  <2>7. CountsAgree(t)
    BY <1>1, <2>4, <2>5 DEF CountsAgree, Elsewhere, ScanOK
  <2>8. InOrder(t)
    BY <1>1, <1>2, <2>4 DEF InOrder, Elsewhere, ScanOK, Done
  <2>9. LayoutsAddUp(t) /\ Distinct(t.releases)
    <3>1. LayoutsAddUp(scan)
      BY DEF ScanOK
    <3>2. QED
      BY <1>1, <2>4, <2>5, <3>1, LayoutsKept
  <2>10. QED
    BY <1>6, <2>6, <2>7, <2>8, <2>9 DEF ScanOK, t
<1>7. QED
  BY <1>3, <1>5, <1>6

(* What is read of a candidate before its verdict.                         *)
HashedCounters == {"hashed"} \cup (IF scan.size \in LeafSizes THEN {"leaf_hashed"} ELSE {})
ReadCandidate == [scan EXCEPT !.report = Count(@, HashedCounters), !.size = 0]

LEMMA ReadIs ==
  ASSUME scan \in Scans
  PROVE  LET u == ReadCandidate IN
         /\ u \in Scans /\ Elsewhere(scan, u) /\ u.left = scan.left
         /\ u.leaves = scan.leaves /\ u.releases = scan.releases
         /\ \A c \in {"hash_rejected", "verified", "verified_leaves", "duplicates",
                      "duplicate_leaves", "direct_sets", "duplicate_direct_sets",
                      "container_sets"} : u.report[c] = scan.report[c]
         /\ u.report["hashed"] = scan.report["hashed"] + 1
         /\ Counted(u.report) = Counted(scan.report)
<1> DEFINE u == ReadCandidate
           r == Count(scan.report, HashedCounters)
<1>1. HashedCounters \subseteq {"hashed", "leaf_hashed"} /\ "hashed" \in HashedCounters
  BY DEF HashedCounters
<1>2. scan.report \in [Counters -> Nat]
  BY DEF Scans
<1>3. \A c \in {"hash_rejected", "verified", "verified_leaves", "duplicates",
                "duplicate_leaves", "direct_sets", "duplicate_direct_sets",
                "container_sets", "size_rejected", "unreadable"} : c \notin HashedCounters
  BY <1>1
<1>4. /\ r \in [Counters -> Nat]
      /\ \A c \in {"hash_rejected", "verified", "verified_leaves", "duplicates",
                   "duplicate_leaves", "direct_sets", "duplicate_direct_sets",
                   "container_sets"} : r[c] = scan.report[c]
      /\ r["hashed"] = scan.report["hashed"] + 1
      /\ Counted(r) = Counted(scan.report)
  BY <1>1, <1>2, <1>3, CountsAre
<1> HIDE DEF r
<1>5. /\ u \in Scans /\ Elsewhere(scan, u) /\ u.left = scan.left
      /\ u.leaves = scan.leaves /\ u.releases = scan.releases /\ u.report = r
  BY <1>4 DEF ReadCandidate, Scans, Elsewhere, r
<1>6. QED
  BY <1>4, <1>5

(* The verdicts behind a hash.                                             *)
LEMMA FinishedOK ==
  ASSUME ScanOK(scan), scan.inspected # NoFile,
         NEW u \in Scans, Elsewhere(scan, u), u.left = scan.left, Distinct(u.releases),
         NEW cs, NEW t, t = Finished(u, scan.inspected, cs), LayoutsAddUp(t),
         t.report["hashed"] =
           t.report["hash_rejected"] + t.report["verified"] + t.report["verified_leaves"],
         Counted(t.report) = Counted(scan.report) + 1
  PROVE  ScanOK(t)
<1> DEFINE file == scan.inspected
<1>1. /\ scan \in Scans /\ ScanShape(scan) /\ CountsAgree(scan) /\ InOrder(scan)
      /\ scan.inspected \in scan.left \cup {NoFile}
      /\ scan.phase # "candidates" => scan.left = {}
  BY DEF ScanOK, ScanShape
<1>2. scan.phase = "candidates" /\ Least(file, scan.left) /\ file \in u.left
  BY <1>1 DEF InOrder, Least
<1>3. /\ t \in Scans /\ Elsewhere(u, t) /\ t.left = u.left \ {file} /\ t.inspected = NoFile
      /\ SameReleases(u.releases, t.releases)
      /\ Done(t) => Increasing(t.releases)
  BY <1>2, FinishedIs
<1>4. Elsewhere(scan, t) /\ t.left = scan.left \ {file}
  BY <1>3 DEF Elsewhere
<1>5. ScanShape(t) /\ CountsAgree(t) /\ InOrder(t)
  BY <1>1, <1>2, <1>3, <1>4, TakenKeeps
<1>6. QED
  BY <1>3, <1>5 DEF ScanOK, SameReleases

LEMMA AdmitArchiveOK ==
  ASSUME ScanOK(scan), scan.inspected # NoFile, NEW release \in Nat
  PROVE  ScanOK(AdmitArchive(ReadCandidate, scan.inspected, release))
<1> DEFINE u == ReadCandidate
           file == scan.inspected
           admitted == [release |-> release, layout |-> "zip_archive", path |-> file]
           v == [u EXCEPT !.releases = Append(@, admitted)]
<1>1. /\ scan \in Scans /\ CountsAgree(scan) /\ LayoutsAddUp(scan) /\ Distinct(scan.releases)
      /\ scan.inspected \in scan.left \cup {NoFile} /\ scan.left \in SUBSET File
      /\ scan.report \in [Counters -> Nat] /\ scan.releases \in Seq(FoundReleases)
  BY DEF ScanOK, ScanShape, Scans
<1>2. /\ u \in Scans /\ Elsewhere(scan, u) /\ u.left = scan.left
      /\ u.leaves = scan.leaves /\ u.releases = scan.releases
      /\ \A c \in {"hash_rejected", "verified", "verified_leaves", "duplicates",
                   "duplicate_leaves", "direct_sets", "duplicate_direct_sets",
                   "container_sets"} : u.report[c] = scan.report[c]
      /\ u.report["hashed"] = scan.report["hashed"] + 1
      /\ Counted(u.report) = Counted(scan.report)
      /\ u.report \in [Counters -> Nat]
  BY <1>1, ReadIs DEF Scans
<1>3. file \in u.left /\ file \in File
  BY <1>1, <1>2
<1>4. /\ scan.report["hashed"] = scan.report["hash_rejected"] + scan.report["verified"]
                                   + scan.report["verified_leaves"]
      /\ scan.report["hash_rejected"] \in Nat /\ scan.report["verified"] \in Nat
      /\ scan.report["verified_leaves"] \in Nat /\ scan.report["duplicates"] \in Nat
      /\ Counted(scan.report) \in Nat
  BY <1>1, CountersAreNumbers DEF CountsAgree
<1>5. /\ Cardinality(InLayout(scan.releases, "zip_archive")) + scan.report["duplicates"]
           = scan.report["verified"]
      /\ Cardinality(InLayout(scan.releases, "verified_directory"))
           + scan.report["duplicate_direct_sets"] = scan.report["direct_sets"]
      /\ Cardinality(InLayout(scan.releases, "verified_container_set"))
           <= scan.report["container_sets"]
      /\ IsFiniteSet(scan.leaves)
      /\ Cardinality(scan.leaves) + scan.report["duplicate_leaves"]
           = scan.report["verified_leaves"]
  BY <1>1 DEF LayoutsAddUp
<1>6. \A tag : Cardinality(InLayout(scan.releases, tag)) \in Nat
  <2> TAKE tag
  <2>1. InLayout(scan.releases, tag) \subseteq DOMAIN scan.releases
    BY DEF InLayout
  <2>2. QED
    BY <1>1, <2>1, FoundTyped, FS_Subset, FS_CardinalityType
<1> HIDE DEF u
<1>7. CASE release \in Found(u.releases)
  <2> DEFINE cs == {"verified", "duplicates"}
             t == Finished(u, file, cs)
  <2>1. AdmitArchive(u, file, release) = t
    BY <1>7 DEF AdmitArchive
  <2>2. /\ t.report = Count(u.report, cs) /\ t.leaves = u.leaves
        /\ SameReleases(u.releases, t.releases)
    BY <1>1, <1>2, <1>3, FinishedIs
  <2> HIDE DEF t
  <2>3. /\ t.report["hashed"] = u.report["hashed"]
        /\ t.report["hash_rejected"] = u.report["hash_rejected"]
        /\ t.report["verified"] = u.report["verified"] + 1
        /\ t.report["duplicates"] = u.report["duplicates"] + 1
        /\ t.report["verified_leaves"] = u.report["verified_leaves"]
        /\ t.report["duplicate_leaves"] = u.report["duplicate_leaves"]
        /\ t.report["direct_sets"] = u.report["direct_sets"]
        /\ t.report["duplicate_direct_sets"] = u.report["duplicate_direct_sets"]
        /\ t.report["container_sets"] = u.report["container_sets"]
        /\ Counted(t.report) = Counted(u.report) + 1
    BY <1>2, <2>2, CountsAre
  <2>4. \A tag : Cardinality(InLayout(t.releases, tag)) = Cardinality(InLayout(scan.releases, tag))
    BY <1>2, <2>2 DEF SameReleases
  <2>5. /\ Cardinality(InLayout(t.releases, "zip_archive")) + t.report["duplicates"]
             = t.report["verified"]
        /\ Cardinality(InLayout(t.releases, "verified_directory"))
             + t.report["duplicate_direct_sets"] = t.report["direct_sets"]
        /\ Cardinality(InLayout(t.releases, "verified_container_set"))
             <= t.report["container_sets"]
        /\ IsFiniteSet(t.leaves)
        /\ Cardinality(t.leaves) + t.report["duplicate_leaves"] = t.report["verified_leaves"]
    BY <1>2, <1>4, <1>5, <1>6, <2>2, <2>3, <2>4
  <2>6. LayoutsAddUp(t)
    BY <2>5 DEF LayoutsAddUp
  <2>7. t.report["hashed"] =
          t.report["hash_rejected"] + t.report["verified"] + t.report["verified_leaves"]
    BY <1>2, <1>4, <2>3
  <2>8. QED
    BY <1>1, <1>2, <2>1, <2>3, <2>6, <2>7, FinishedOK DEF t, u
<1>8. CASE release \notin Found(u.releases)
  <2> DEFINE cs == {"verified"}
             t == Finished(v, file, cs)
  <2>1. AdmitArchive(u, file, release) = t
    BY <1>8 DEF AdmitArchive
  <2>2. admitted \in FoundReleases /\ admitted.layout = "zip_archive" /\ admitted.release = release
    BY <1>3 DEF FoundReleases, FoundLayouts
  <2> HIDE DEF admitted
  <2>3. /\ Append(u.releases, admitted) \in Seq(FoundReleases)
        /\ Distinct(Append(u.releases, admitted))
        /\ \A tag : Cardinality(InLayout(Append(u.releases, admitted), tag)) =
                      Cardinality(InLayout(u.releases, tag))
                        + (IF "zip_archive" = tag THEN 1 ELSE 0)
    BY <1>1, <1>2, <1>8, <2>2, AppendAdds
  <2>4. /\ v \in Scans /\ Elsewhere(u, v) /\ v.left = u.left /\ v.report = u.report
        /\ v.leaves = u.leaves /\ v.releases = Append(u.releases, admitted)
    BY <1>2, <2>3 DEF Scans, Elsewhere
  <2> HIDE DEF v
  <2>5. v \in Scans /\ Distinct(v.releases) /\ file \in v.left
    BY <1>3, <2>3, <2>4
  <2>6. /\ t.report = Count(v.report, cs) /\ t.leaves = v.leaves
        /\ SameReleases(v.releases, t.releases)
    BY <2>5, FinishedIs
  <2>7. /\ t.report = Count(u.report, cs) /\ t.leaves = u.leaves
        /\ SameReleases(v.releases, t.releases)
    BY <2>4, <2>6
  <2> HIDE DEF t
  <2>8. /\ t.report["hashed"] = u.report["hashed"]
        /\ t.report["hash_rejected"] = u.report["hash_rejected"]
        /\ t.report["verified"] = u.report["verified"] + 1
        /\ t.report["duplicates"] = u.report["duplicates"]
        /\ t.report["verified_leaves"] = u.report["verified_leaves"]
        /\ t.report["duplicate_leaves"] = u.report["duplicate_leaves"]
        /\ t.report["direct_sets"] = u.report["direct_sets"]
        /\ t.report["duplicate_direct_sets"] = u.report["duplicate_direct_sets"]
        /\ t.report["container_sets"] = u.report["container_sets"]
        /\ Counted(t.report) = Counted(u.report) + 1
    BY <1>2, <2>7, CountsAre
  <2>9. /\ Cardinality(InLayout(t.releases, "zip_archive")) =
             Cardinality(InLayout(scan.releases, "zip_archive")) + 1
        /\ Cardinality(InLayout(t.releases, "verified_directory")) =
             Cardinality(InLayout(scan.releases, "verified_directory"))
        /\ Cardinality(InLayout(t.releases, "verified_container_set")) =
             Cardinality(InLayout(scan.releases, "verified_container_set"))
    <3>1. \A tag : Cardinality(InLayout(t.releases, tag)) =
                       Cardinality(InLayout(scan.releases, tag))
                         + (IF "zip_archive" = tag THEN 1 ELSE 0)
      BY <1>2, <2>3, <2>4, <2>7 DEF SameReleases
    <3>2. QED
      BY <1>6, <3>1
  <2>10. LayoutsAddUp(t)
    BY <1>2, <1>4, <1>5, <1>6, <2>7, <2>8, <2>9 DEF LayoutsAddUp
  <2>11. t.report["hashed"] =
          t.report["hash_rejected"] + t.report["verified"] + t.report["verified_leaves"]
    BY <1>2, <1>4, <2>8
  <2>12. Elsewhere(scan, v) /\ v.left = scan.left
    BY <1>2, <2>4 DEF Elsewhere
  <2>13. QED
    BY <1>1, <1>2, <2>1, <2>3, <2>4, <2>8, <2>10, <2>11, <2>12, FinishedOK DEF t, u
<1>9. QED
  BY <1>7, <1>8

LEMMA AdmitLeafOK ==
  ASSUME ScanOK(scan), scan.inspected # NoFile, NEW content \in ParserLeaf
  PROVE  ScanOK(AdmitLeaf(ReadCandidate, scan.inspected, content))
<1> DEFINE u == ReadCandidate
           file == scan.inspected
           known == content \in u.leaves
           cs == {"verified_leaves"} \cup (IF known THEN {"duplicate_leaves"} ELSE {})
           v == [u EXCEPT !.leaves = @ \cup {content}]
           t == Finished(v, file, cs)
<1>1. /\ scan \in Scans /\ CountsAgree(scan) /\ LayoutsAddUp(scan) /\ Distinct(scan.releases)
      /\ scan.inspected \in scan.left \cup {NoFile} /\ scan.left \in SUBSET File
      /\ scan.report \in [Counters -> Nat] /\ scan.releases \in Seq(FoundReleases)
      /\ scan.leaves \in SUBSET ParserLeaf
  BY DEF ScanOK, ScanShape, Scans
<1>2. /\ u \in Scans /\ Elsewhere(scan, u) /\ u.left = scan.left
      /\ u.leaves = scan.leaves /\ u.releases = scan.releases
      /\ \A c \in {"hash_rejected", "verified", "verified_leaves", "duplicates",
                   "duplicate_leaves", "direct_sets", "duplicate_direct_sets",
                   "container_sets"} : u.report[c] = scan.report[c]
      /\ u.report["hashed"] = scan.report["hashed"] + 1
      /\ Counted(u.report) = Counted(scan.report)
      /\ u.report \in [Counters -> Nat]
  BY <1>1, ReadIs DEF Scans
<1>3. file \in u.left /\ file \in File
  BY <1>1, <1>2
<1>4. AdmitLeaf(u, file, content) = t
  BY DEF AdmitLeaf
<1> HIDE DEF u
<1>5. /\ v \in Scans /\ Elsewhere(u, v) /\ v.left = u.left /\ v.report = u.report
      /\ v.leaves = u.leaves \cup {content} /\ v.releases = u.releases
  BY <1>2 DEF Scans, Elsewhere
<1> HIDE DEF v
<1>6. /\ v \in Scans /\ Distinct(v.releases) /\ file \in v.left
  BY <1>1, <1>2, <1>3, <1>5
<1>7. /\ t.report = Count(v.report, cs) /\ t.leaves = v.leaves
      /\ SameReleases(v.releases, t.releases)
  BY <1>6, FinishedIs
<1> HIDE DEF t
<1>8. cs = IF known THEN {"verified_leaves", "duplicate_leaves"} ELSE {"verified_leaves"}
  OBVIOUS
<1> HIDE DEF cs, known
<1>9. /\ t.report["hashed"] = u.report["hashed"]
      /\ t.report["hash_rejected"] = u.report["hash_rejected"]
      /\ t.report["verified"] = u.report["verified"]
      /\ t.report["duplicates"] = u.report["duplicates"]
      /\ t.report["verified_leaves"] = u.report["verified_leaves"] + 1
      /\ t.report["duplicate_leaves"] = u.report["duplicate_leaves"] + (IF known THEN 1 ELSE 0)
      /\ t.report["direct_sets"] = u.report["direct_sets"]
      /\ t.report["duplicate_direct_sets"] = u.report["duplicate_direct_sets"]
      /\ t.report["container_sets"] = u.report["container_sets"]
      /\ Counted(t.report) = Counted(u.report) + 1
  <2>1. t.report = Count(u.report, cs)
    BY <1>5, <1>7
  <2>2. CASE known
    BY <1>2, <1>8, <2>1, <2>2, CountsAre
  <2>3. CASE ~known
    BY <1>2, <1>8, <2>1, <2>3, CountsAre
  <2>4. QED
    BY <2>2, <2>3
<1>10. /\ scan.report["hashed"] = scan.report["hash_rejected"] + scan.report["verified"]
                                    + scan.report["verified_leaves"]
       /\ scan.report["hash_rejected"] \in Nat /\ scan.report["verified"] \in Nat
       /\ scan.report["verified_leaves"] \in Nat /\ scan.report["duplicate_leaves"] \in Nat
       /\ Counted(scan.report) \in Nat
  BY <1>1, CountersAreNumbers DEF CountsAgree
<1>11. /\ Cardinality(InLayout(scan.releases, "zip_archive")) + scan.report["duplicates"]
            = scan.report["verified"]
       /\ Cardinality(InLayout(scan.releases, "verified_directory"))
            + scan.report["duplicate_direct_sets"] = scan.report["direct_sets"]
       /\ Cardinality(InLayout(scan.releases, "verified_container_set"))
            <= scan.report["container_sets"]
       /\ IsFiniteSet(scan.leaves)
       /\ Cardinality(scan.leaves) + scan.report["duplicate_leaves"]
            = scan.report["verified_leaves"]
  BY <1>1 DEF LayoutsAddUp
<1>12. /\ IsFiniteSet(t.leaves)
       /\ Cardinality(t.leaves) = Cardinality(scan.leaves) + (IF known THEN 0 ELSE 1)
       /\ Cardinality(scan.leaves) \in Nat
  <2>1. t.leaves = scan.leaves \cup {content}
    BY <1>2, <1>5, <1>7
  <2>2. known <=> content \in scan.leaves
    BY <1>2 DEF known
  <2>3. QED
    BY <1>11, <2>1, <2>2, FS_AddElement, FS_CardinalityType
<1>13. LayoutsAddUp(t)
  <2>1. \A tag : Cardinality(InLayout(t.releases, tag)) = Cardinality(InLayout(scan.releases, tag))
    BY <1>2, <1>5, <1>7 DEF SameReleases
  <2>2. /\ Cardinality(InLayout(t.releases, "zip_archive")) + t.report["duplicates"]
             = t.report["verified"]
        /\ Cardinality(InLayout(t.releases, "verified_directory"))
             + t.report["duplicate_direct_sets"] = t.report["direct_sets"]
        /\ Cardinality(InLayout(t.releases, "verified_container_set"))
             <= t.report["container_sets"]
    BY <1>2, <1>9, <1>11, <2>1
  <2>3. Cardinality(t.leaves) + t.report["duplicate_leaves"] = t.report["verified_leaves"]
    BY <1>2, <1>9, <1>10, <1>11, <1>12
  <2>4. QED
    BY <1>12, <2>2, <2>3 DEF LayoutsAddUp
<1>14. t.report["hashed"] =
         t.report["hash_rejected"] + t.report["verified"] + t.report["verified_leaves"]
  BY <1>2, <1>9, <1>10
<1>15. Elsewhere(scan, v) /\ v.left = scan.left
  BY <1>2, <1>5 DEF Elsewhere
<1>16. QED
  BY <1>2, <1>4, <1>6, <1>9, <1>13, <1>14, <1>15, FinishedOK DEF t, u

LEMMA RejectOK ==
  ASSUME ScanOK(scan), scan.inspected # NoFile
  PROVE  /\ ScanOK(Finished(ReadCandidate, scan.inspected, {"hash_rejected"}))
         /\ ScanOK(Finished([scan EXCEPT !.size = 0], scan.inspected, {"unreadable"}))
<1> DEFINE file == scan.inspected
<1>1. /\ scan \in Scans /\ CountsAgree(scan) /\ LayoutsAddUp(scan) /\ Distinct(scan.releases)
      /\ scan.inspected \in scan.left \cup {NoFile} /\ scan.left \in SUBSET File
      /\ scan.report \in [Counters -> Nat]
  BY DEF ScanOK, ScanShape, Scans
<1>2. /\ scan.report["hashed"] = scan.report["hash_rejected"] + scan.report["verified"]
                                   + scan.report["verified_leaves"]
      /\ scan.report["hash_rejected"] \in Nat /\ scan.report["verified"] \in Nat
      /\ scan.report["verified_leaves"] \in Nat
  BY <1>1, CountersAreNumbers DEF CountsAgree
<1>3. ASSUME NEW u \in Scans, Elsewhere(scan, u), u.left = scan.left, u.leaves = scan.leaves,
             u.releases = scan.releases, Counted(u.report) = Counted(scan.report),
             \A c \in {"hash_rejected", "verified", "verified_leaves", "duplicates",
                       "duplicate_leaves", "direct_sets", "duplicate_direct_sets",
                       "container_sets"} : u.report[c] = scan.report[c],
             NEW cs \in {{"hash_rejected"}, {"unreadable"}},
             u.report["hashed"] =
               scan.report["hashed"] + (IF cs = {"hash_rejected"} THEN 1 ELSE 0)
      PROVE  ScanOK(Finished(u, file, cs))
  <2> DEFINE t == Finished(u, file, cs)
  <2>1. file \in u.left /\ Distinct(u.releases) /\ u.report \in [Counters -> Nat]
    BY <1>1, <1>3 DEF Scans
  <2>2. /\ t.report = Count(u.report, cs) /\ t.leaves = u.leaves
        /\ SameReleases(u.releases, t.releases)
    BY <1>3, <2>1, FinishedIs
  <2> HIDE DEF t
  <2>3. /\ \A c \in {"verified", "verified_leaves", "duplicates", "duplicate_leaves",
                     "direct_sets", "duplicate_direct_sets", "container_sets"} :
             t.report[c] = scan.report[c]
        /\ t.report["hashed"] = u.report["hashed"]
        /\ t.report["hash_rejected"] =
             u.report["hash_rejected"] + (IF cs = {"hash_rejected"} THEN 1 ELSE 0)
        /\ Counted(t.report) = Counted(u.report) + 1
    <3>1. CASE cs = {"hash_rejected"}
      BY <1>3, <2>1, <2>2, <3>1, CountsAre
    <3>2. CASE cs = {"unreadable"}
      <4>1. cs # {"hash_rejected"}
        BY <3>2
      <4>2. QED
        BY <1>3, <2>1, <2>2, <3>2, <4>1, CountsAre
    <3>3. QED
      BY <1>3, <3>1, <3>2
  <2>4. LayoutsAddUp(t)
    BY <1>1, <1>3, <2>2, <2>3, LayoutsKept DEF SameReleases
  <2>5. t.report["hashed"] =
          t.report["hash_rejected"] + t.report["verified"] + t.report["verified_leaves"]
    BY <1>2, <1>3, <2>3
  <2>6. QED
    BY <1>3, <2>1, <2>3, <2>4, <2>5, FinishedOK DEF t
<1>4. ScanOK(Finished(ReadCandidate, file, {"hash_rejected"}))
  <2> DEFINE u == ReadCandidate
  <2>1. /\ u \in Scans /\ Elsewhere(scan, u) /\ u.left = scan.left
        /\ u.leaves = scan.leaves /\ u.releases = scan.releases
        /\ \A c \in {"hash_rejected", "verified", "verified_leaves", "duplicates",
                     "duplicate_leaves", "direct_sets", "duplicate_direct_sets",
                     "container_sets"} : u.report[c] = scan.report[c]
        /\ u.report["hashed"] = scan.report["hashed"] + 1
        /\ Counted(u.report) = Counted(scan.report)
    BY <1>1, ReadIs
  <2> HIDE DEF u
  <2>2. QED
    BY <1>3, <2>1 DEF u
<1>5. ScanOK(Finished([scan EXCEPT !.size = 0], file, {"unreadable"}))
  <2> DEFINE u == [scan EXCEPT !.size = 0]
  <2>1. /\ u \in Scans /\ Elsewhere(scan, u) /\ u.left = scan.left
        /\ u.leaves = scan.leaves /\ u.releases = scan.releases /\ u.report = scan.report
    BY <1>1 DEF Scans, Elsewhere
  <2>2. scan.report["hashed"] \in Nat
    BY <1>1, CountersAreNumbers
  <2>3. {"unreadable"} # {"hash_rejected"}
    OBVIOUS
  <2> HIDE DEF u
  <2>4. u.report["hashed"] =
          scan.report["hashed"] + (IF {"unreadable"} = {"hash_rejected"} THEN 1 ELSE 0)
    BY <2>1, <2>2, <2>3
  <2>5. QED
    BY <1>3, <2>1, <2>4 DEF u
<1>6. QED
  BY <1>4, <1>5

LEMMA HashKeeps ==
  ASSUME ScanOK(scan), collection \in [File -> Content \cup {Gone}], HashCandidate
  PROVE  ScanOK(scan')
<1> DEFINE file == scan.inspected
           content == collection[file]
<1>1. file # NoFile /\ file \in File
  BY DEF HashCandidate, ScanOK, ScanShape, Scans
<1>2. scan' = IF content = Gone THEN Finished([scan EXCEPT !.size = 0], file, {"unreadable"})
              ELSE IF ArchiveOf[content] # 0
              THEN AdmitArchive(ReadCandidate, file, ArchiveOf[content])
              ELSE IF content \in ParserLeaf /\ SizeOf[content] = scan.size
                      /\ file \notin ReadCandidate.bound
              THEN AdmitLeaf(ReadCandidate, file, content)
              ELSE Finished(ReadCandidate, file, {"hash_rejected"})
  <2>1. ReadCandidate.bound = scan.bound
    BY DEF ReadCandidate, ScanOK, ScanShape, Scans
  <2>2. QED
    BY <2>1 DEF HashCandidate, ReadCandidate, HashedCounters
<1>3. content # Gone => ArchiveOf[content] \in Nat
  BY <1>1, ScannerAssumption
<1>4. QED
  BY <1>1, <1>2, <1>3, RejectOK, AdmitArchiveOK, AdmitLeafOK

-----------------------------------------------------------------------------
(* Media sets                                                              *)

LEMMA Division ==
  ASSUME NEW n \in Nat \ {0}, NEW p \in Nat
  PROVE  /\ p \div n \in Nat /\ p % n \in 0..(n - 1)
         /\ \A k \in Nat : p < k * n => p \div n < k
  OBVIOUS

(* Every place of a table of k rows is one number of it.                   *)
LEMMA Numbering ==
  ASSUME NEW n \in Nat \ {0}, NEW k \in Nat, NEW q \in Nat, q < k, NEW r \in 0..(n - 1)
  PROVE  /\ n * q + r \in Nat /\ n * q + r < k * n
         /\ (n * q + r) \div n = q /\ (n * q + r) % n = r
  OBVIOUS

(* What is there before a candidate is looked at stays in order.           *)
LEMMA SetKeeps ==
  ASSUME NEW s, ScanOK(s), s.phase \in {"direct_sets", "container_sets"},
         NEW t \in Scans, t.phase = s.phase, t.queue = s.queue, t.opened = s.opened,
         t.candidates = s.candidates, t.left = s.left, t.inspected = s.inspected,
         t.containers \subseteq s.candidates, Distinct(t.releases), LayoutsAddUp(t),
         t.phase = "direct_sets" => t.cursor <= Pairs(s),
         t.phase = "container_sets" => t.cursor <= Len(ContainerSets),
         \A c \in {"hashed", "hash_rejected", "verified", "verified_leaves"} :
           t.report[c] = s.report[c],
         Counted(t.report) = Counted(s.report)
  PROVE  ScanOK(t)
<1>1. /\ s \in Scans /\ ScanShape(s) /\ CountsAgree(s)
      /\ s.left = {} /\ s.inspected = NoFile /\ s.phase # "candidates"
      /\ s.opened <= Len(s.queue)
  BY FilesAreNumbers DEF ScanOK, ScanShape
<1>2. ScanShape(t)
  BY <1>1 DEF ScanShape, Pairs
<1>3. CountsAgree(t)
  BY <1>1 DEF CountsAgree
<1>4. InOrder(t)
  BY <1>1 DEF InOrder, Done
<1>5. QED
  BY <1>2, <1>3, <1>4 DEF ScanOK

LEMMA SetCounts ==
  ASSUME NEW r \in [Counters -> Nat],
         NEW cs \in SUBSET {"direct_sets", "duplicate_direct_sets", "container_sets"}
  PROVE  LET q == Count(r, cs) IN
         /\ q \in [Counters -> Nat]
         /\ \A c \in {"hashed", "hash_rejected", "verified", "verified_leaves", "duplicates",
                      "duplicate_leaves"} : q[c] = r[c]
         /\ \A c \in {"direct_sets", "duplicate_direct_sets", "container_sets"} :
              q[c] = r[c] + (IF c \in cs THEN 1 ELSE 0) /\ r[c] \in Nat
         /\ Counted(q) = Counted(r)
<1> DEFINE q == Count(r, cs)
<1>1. \A c \in {"hashed", "hash_rejected", "verified", "verified_leaves", "duplicates",
                "duplicate_leaves", "size_rejected", "unreadable"} : c \notin cs
  OBVIOUS
<1> HIDE DEF q
<1>2. /\ \A c \in {"hashed", "hash_rejected", "verified", "verified_leaves", "duplicates",
                   "duplicate_leaves"} : q[c] = r[c]
      /\ Counted(q) = Counted(r)
  BY <1>1, CountsAre DEF q
<1>3. QED
  BY <1>2, CountsAre DEF q

(* What a directory adds for a set it holds, and nothing else.             *)
AddsDirect(s, t, d, dir, set) ==
  /\ t \in Scans /\ Elsewhere(s, t) /\ t.left = s.left /\ t.inspected = s.inspected
  /\ Distinct(t.releases) /\ LayoutsAddUp(t)
  /\ \A c \in {"hashed", "hash_rejected", "verified", "verified_leaves"} :
       t.report[c] = s.report[c]
  /\ Counted(t.report) = Counted(s.report)
  /\ Found(t.releases) =
       Found(s.releases) \cup (IF VerifiedDirect(d, dir, set) THEN {set.release} ELSE {})
  /\ \A i \in DOMAIN t.releases :
       \/ \E j \in DOMAIN s.releases : t.releases[i] = s.releases[j]
       \/ /\ t.releases[i].layout = "verified_directory"
          /\ t.releases[i].release = set.release
          /\ VerifiedDirect(d, dir, set)

LEMMA AdmitDirectIs ==
  ASSUME NEW s, ScanOK(s), NEW d, NEW dir \in Dir, NEW set, set.release \in Nat
  PROVE  AddsDirect(s, AdmitDirect(d, s, dir, set), d, dir, set)
<1> DEFINE t == AdmitDirect(d, s, dir, set)
<1>1. /\ s \in Scans /\ Distinct(s.releases) /\ LayoutsAddUp(s)
      /\ s.report \in [Counters -> Nat] /\ s.releases \in Seq(FoundReleases)
  BY DEF ScanOK, ScanShape, Scans
<1>2. /\ Cardinality(InLayout(s.releases, "zip_archive")) + s.report["duplicates"]
           = s.report["verified"]
      /\ Cardinality(InLayout(s.releases, "verified_directory"))
           + s.report["duplicate_direct_sets"] = s.report["direct_sets"]
      /\ Cardinality(InLayout(s.releases, "verified_container_set"))
           <= s.report["container_sets"]
      /\ IsFiniteSet(s.leaves)
      /\ Cardinality(s.leaves) + s.report["duplicate_leaves"] = s.report["verified_leaves"]
  BY <1>1 DEF LayoutsAddUp
<1>3. /\ s.report["direct_sets"] \in Nat /\ s.report["duplicate_direct_sets"] \in Nat
      /\ \A tag : Cardinality(InLayout(s.releases, tag)) \in Nat
  <2>1. ASSUME NEW tag PROVE Cardinality(InLayout(s.releases, tag)) \in Nat
    <3>1. InLayout(s.releases, tag) \subseteq DOMAIN s.releases
      BY DEF InLayout
    <3>2. QED
      BY <1>1, <3>1, FoundTyped, FS_Subset, FS_CardinalityType
  <2>2. QED
    BY <1>1, <2>1, CountersAreNumbers
<1>4. CASE ~VerifiedDirect(d, dir, set)
  <2>1. t = s
    BY <1>4 DEF AdmitDirect
  <2> HIDE DEF t
  <2>2. QED
    BY <1>1, <1>4, <2>1 DEF Elsewhere, t, AddsDirect
<1>5. CASE VerifiedDirect(d, dir, set) /\ set.release \in Found(s.releases)
  <2> DEFINE cs == {"direct_sets", "duplicate_direct_sets"}
             r == Count(s.report, cs)
             v == [s EXCEPT !.report = r]
  <2>1. t = v
    BY <1>5 DEF AdmitDirect
  <2>2. /\ r \in [Counters -> Nat]
        /\ \A c \in {"hashed", "hash_rejected", "verified", "verified_leaves", "duplicates",
                     "duplicate_leaves", "container_sets"} : r[c] = s.report[c]
        /\ r["direct_sets"] = s.report["direct_sets"] + 1
        /\ r["duplicate_direct_sets"] = s.report["duplicate_direct_sets"] + 1
        /\ Counted(r) = Counted(s.report)
    <3>1. /\ cs \in SUBSET {"direct_sets", "duplicate_direct_sets", "container_sets"}
          /\ "direct_sets" \in cs /\ "duplicate_direct_sets" \in cs /\ "container_sets" \notin cs
      OBVIOUS
    <3> HIDE DEF cs
    <3>2. QED
      BY <1>1, <1>3, <3>1, SetCounts
  <2> HIDE DEF r, t
  <2>3. /\ v \in Scans /\ Elsewhere(s, v) /\ v.left = s.left /\ v.inspected = s.inspected
        /\ v.releases = s.releases /\ v.leaves = s.leaves /\ v.report = r
    BY <1>1, <2>2 DEF Scans, Elsewhere
  <2> HIDE DEF v
  <2>4. LayoutsAddUp(v)
    BY <1>2, <1>3, <2>2, <2>3 DEF LayoutsAddUp
  <2>5. QED
    BY <1>1, <1>5, <2>1, <2>2, <2>3, <2>4 DEF t, AddsDirect
<1>6. CASE VerifiedDirect(d, dir, set) /\ set.release \notin Found(s.releases)
  <2> DEFINE cs == {"direct_sets"}
             r == Count(s.report, cs)
             admitted == [release |-> set.release, layout |-> "verified_directory", path |-> dir]
             members == MembersIn(d, dir, set)
             rs == Append(s.releases, admitted)
             v == [s EXCEPT !.report = r, !.releases = rs, !.bound = @ \cup members]
  <2>1. t = v
    BY <1>6 DEF AdmitDirect
  <2>2. /\ r \in [Counters -> Nat]
        /\ \A c \in {"hashed", "hash_rejected", "verified", "verified_leaves", "duplicates",
                     "duplicate_leaves", "duplicate_direct_sets", "container_sets"} :
             r[c] = s.report[c]
        /\ r["direct_sets"] = s.report["direct_sets"] + 1
        /\ Counted(r) = Counted(s.report)
    <3>1. /\ cs \in SUBSET {"direct_sets", "duplicate_direct_sets", "container_sets"}
          /\ "direct_sets" \in cs /\ "duplicate_direct_sets" \notin cs
          /\ "container_sets" \notin cs
      OBVIOUS
    <3> HIDE DEF cs
    <3>2. QED
      BY <1>1, <1>3, <3>1, SetCounts
  <2>3. /\ admitted \in FoundReleases /\ admitted.layout = "verified_directory"
        /\ admitted.release = set.release
    BY DEF FoundReleases, FoundLayouts
  <2>4. members \subseteq File
    BY DEF MembersIn
  <2> HIDE DEF r, t, admitted, members
  <2>5. /\ rs \in Seq(FoundReleases) /\ Distinct(rs)
        /\ Found(rs) = Found(s.releases) \cup {set.release}
        /\ \A i \in DOMAIN rs :
             rs[i] = admitted \/ \E j \in DOMAIN s.releases : rs[i] = s.releases[j]
        /\ \A tag : Cardinality(InLayout(rs, tag)) =
                      Cardinality(InLayout(s.releases, tag))
                        + (IF "verified_directory" = tag THEN 1 ELSE 0)
    BY <1>1, <1>6, <2>3, AppendAdds
  <2> HIDE DEF rs
  <2>6. /\ v \in Scans /\ Elsewhere(s, v) /\ v.left = s.left /\ v.inspected = s.inspected
        /\ v.releases = rs /\ v.leaves = s.leaves /\ v.report = r
    BY <1>1, <2>2, <2>4, <2>5 DEF Scans, Elsewhere
  <2> HIDE DEF v
  <2>7. /\ Cardinality(InLayout(v.releases, "zip_archive")) =
             Cardinality(InLayout(s.releases, "zip_archive"))
        /\ Cardinality(InLayout(v.releases, "verified_directory")) =
             Cardinality(InLayout(s.releases, "verified_directory")) + 1
        /\ Cardinality(InLayout(v.releases, "verified_container_set")) =
             Cardinality(InLayout(s.releases, "verified_container_set"))
    BY <1>3, <2>5, <2>6
  <2>8. LayoutsAddUp(v)
    BY <1>2, <1>3, <2>2, <2>6, <2>7 DEF LayoutsAddUp
  <2>9. \A i \in DOMAIN v.releases :
          \/ \E j \in DOMAIN s.releases : v.releases[i] = s.releases[j]
          \/ /\ v.releases[i].layout = "verified_directory"
             /\ v.releases[i].release = set.release
    BY <2>3, <2>5, <2>6
  <2>10. QED
    BY <1>6, <2>1, <2>2, <2>5, <2>6, <2>8, <2>9 DEF t, AddsDirect
<1>7. QED
  BY <1>4, <1>5, <1>6

LEMMA AdmitContainersIs ==
  ASSUME NEW s, ScanOK(s), NEW d, NEW set, set.release \in Nat
  PROVE  LET t == AdmitContainers(d, s, set) IN
         /\ t \in Scans /\ t.phase = s.phase /\ t.queue = s.queue /\ t.opened = s.opened
         /\ t.candidates = s.candidates /\ t.cursor = s.cursor
         /\ t.left = s.left /\ t.inspected = s.inspected
         /\ t.containers \subseteq s.candidates
         /\ \A f \in t.containers \ s.containers : \E i \in DOMAIN set.disks : d[f] = set.disks[i]
         /\ Distinct(t.releases) /\ LayoutsAddUp(t)
         /\ \A c \in {"hashed", "hash_rejected", "verified", "verified_leaves"} :
              t.report[c] = s.report[c]
         /\ Counted(t.report) = Counted(s.report)
         /\ Found(t.releases) = Found(s.releases) \cup
              (IF VerifiedContainers(d, s.candidates, set) THEN {set.release} ELSE {})
         /\ \A i \in DOMAIN t.releases :
              \/ \E j \in DOMAIN s.releases : t.releases[i] = s.releases[j]
              \/ /\ t.releases[i].layout = "verified_container_set"
                 /\ t.releases[i].release = set.release
                 /\ VerifiedContainers(d, s.candidates, set)
                 /\ set.release \notin Found(s.releases)
<1> DEFINE t == AdmitContainers(d, s, set)
           copies == UNION {Copies(d, s.candidates, set.disks[i]) : i \in DOMAIN set.disks}
           cs == {"container_sets"}
           r == Count(s.report, cs)
           admitted == [release |-> set.release, layout |-> "verified_container_set",
                        path |-> NoFile]
           rs == IF set.release \in Found(s.releases) THEN s.releases
                 ELSE Append(s.releases, admitted)
           v == [s EXCEPT !.report = r, !.containers = @ \cup copies, !.releases = rs]
<1>1. /\ s \in Scans /\ Distinct(s.releases) /\ LayoutsAddUp(s)
      /\ s.report \in [Counters -> Nat] /\ s.releases \in Seq(FoundReleases)
      /\ s.containers \subseteq s.candidates /\ s.candidates \subseteq File
  BY DEF ScanOK, ScanShape, Scans
<1>2. /\ Cardinality(InLayout(s.releases, "zip_archive")) + s.report["duplicates"]
           = s.report["verified"]
      /\ Cardinality(InLayout(s.releases, "verified_directory"))
           + s.report["duplicate_direct_sets"] = s.report["direct_sets"]
      /\ Cardinality(InLayout(s.releases, "verified_container_set"))
           <= s.report["container_sets"]
      /\ IsFiniteSet(s.leaves)
      /\ Cardinality(s.leaves) + s.report["duplicate_leaves"] = s.report["verified_leaves"]
  BY <1>1 DEF LayoutsAddUp
<1>3. /\ s.report["container_sets"] \in Nat
      /\ \A tag : Cardinality(InLayout(s.releases, tag)) \in Nat
  <2>1. ASSUME NEW tag PROVE Cardinality(InLayout(s.releases, tag)) \in Nat
    <3>1. InLayout(s.releases, tag) \subseteq DOMAIN s.releases
      BY DEF InLayout
    <3>2. QED
      BY <1>1, <3>1, FoundTyped, FS_Subset, FS_CardinalityType
  <2>2. QED
    BY <1>1, <2>1, CountersAreNumbers
<1>4. CASE ~VerifiedContainers(d, s.candidates, set)
  <2>1. t = s
    BY <1>4 DEF AdmitContainers
  <2> HIDE DEF t
  <2>2. QED
    BY <1>1, <1>4, <2>1 DEF t
<1>5. CASE VerifiedContainers(d, s.candidates, set)
  <2>1. t = v
    BY <1>5 DEF AdmitContainers
  <2>2. /\ r \in [Counters -> Nat]
        /\ \A c \in {"hashed", "hash_rejected", "verified", "verified_leaves", "duplicates",
                     "duplicate_leaves", "direct_sets", "duplicate_direct_sets"} :
             r[c] = s.report[c]
        /\ r["container_sets"] = s.report["container_sets"] + 1
        /\ Counted(r) = Counted(s.report)
    <3>1. /\ cs \in SUBSET {"direct_sets", "duplicate_direct_sets", "container_sets"}
          /\ "direct_sets" \notin cs /\ "duplicate_direct_sets" \notin cs
          /\ "container_sets" \in cs
      OBVIOUS
    <3>2. s.report["direct_sets"] \in Nat /\ s.report["duplicate_direct_sets"] \in Nat
      BY <1>1, CountersAreNumbers
    <3> HIDE DEF cs
    <3>3. QED
      BY <1>1, <1>3, <3>1, <3>2, SetCounts
  <2>3. /\ admitted \in FoundReleases /\ admitted.layout = "verified_container_set"
        /\ admitted.release = set.release
    BY DEF FoundReleases, FoundLayouts
  <2>4. /\ copies \subseteq s.candidates
        /\ \A f \in copies : \E i \in DOMAIN set.disks : d[f] = set.disks[i]
    BY DEF Copies
  <2> HIDE DEF r, t, admitted, copies
  <2>5. /\ rs \in Seq(FoundReleases) /\ Distinct(rs)
        /\ Found(rs) = Found(s.releases) \cup {set.release}
        /\ \A i \in DOMAIN rs :
             \/ rs[i] = admitted /\ set.release \notin Found(s.releases)
             \/ \E j \in DOMAIN s.releases : rs[i] = s.releases[j]
        /\ Cardinality(InLayout(rs, "zip_archive")) =
             Cardinality(InLayout(s.releases, "zip_archive"))
        /\ Cardinality(InLayout(rs, "verified_directory")) =
             Cardinality(InLayout(s.releases, "verified_directory"))
        /\ Cardinality(InLayout(rs, "verified_container_set"))
             <= Cardinality(InLayout(s.releases, "verified_container_set")) + 1
        /\ Cardinality(InLayout(rs, "verified_container_set")) \in Nat
    <3>1. CASE set.release \in Found(s.releases)
      BY <1>1, <1>3, <3>1
    <3>2. CASE set.release \notin Found(s.releases)
      <4> DEFINE more == Append(s.releases, admitted)
      <4>1. rs = more
        BY <3>2
      <4>2. /\ more \in Seq(FoundReleases) /\ Distinct(more)
            /\ Found(more) = Found(s.releases) \cup {set.release}
            /\ \A i \in DOMAIN more :
                 more[i] = admitted \/ \E j \in DOMAIN s.releases : more[i] = s.releases[j]
            /\ \A tag : Cardinality(InLayout(more, tag)) =
                          Cardinality(InLayout(s.releases, tag))
                            + (IF "verified_container_set" = tag THEN 1 ELSE 0)
        BY <1>1, <2>3, <3>2, AppendAdds
      <4> HIDE DEF more, rs
      <4>3. QED
        BY <1>3, <3>2, <4>1, <4>2
    <3>3. QED
      BY <3>1, <3>2
  <2> HIDE DEF rs
  <2>6. v \in Scans
    BY <1>1, <2>2, <2>4, <2>5 DEF Scans
  <2>7. /\ v.phase = s.phase /\ v.queue = s.queue /\ v.opened = s.opened
        /\ v.candidates = s.candidates /\ v.cursor = s.cursor
        /\ v.left = s.left /\ v.inspected = s.inspected
        /\ v.releases = rs /\ v.leaves = s.leaves /\ v.report = r
        /\ v.containers = s.containers \cup copies
    BY <1>1 DEF Scans
  <2> HIDE DEF v
  <2>8. LayoutsAddUp(v)
    <3>1. Cardinality(InLayout(v.releases, "verified_container_set")) <= v.report["container_sets"]
      BY <1>2, <1>3, <2>2, <2>5, <2>7
    <3>2. QED
      BY <1>2, <2>2, <2>5, <2>7, <3>1 DEF LayoutsAddUp
  <2>9. \A i \in DOMAIN v.releases :
          \/ \E j \in DOMAIN s.releases : v.releases[i] = s.releases[j]
          \/ /\ v.releases[i].layout = "verified_container_set"
             /\ v.releases[i].release = set.release
             /\ set.release \notin Found(s.releases)
    BY <2>3, <2>5, <2>7
  <2>10. QED
    BY <1>1, <1>5, <2>1, <2>2, <2>4, <2>5, <2>6, <2>7, <2>8, <2>9 DEF t
<1>6. QED
  BY <1>4, <1>5

-----------------------------------------------------------------------------
(* What the steps keep, whatever becomes of the disk                       *)

(* A place that is left is one directory and one set.                      *)
LEMMA PairIs ==
  ASSUME NEW s, ScanShape(s), s.phase = "direct_sets", s.cursor # Pairs(s)
  PROVE  /\ Len(DirectSets) \in Nat \ {0} /\ s.cursor \in Nat /\ s.cursor < Pairs(s)
         /\ Len(s.queue) \in Nat
         /\ s.cursor \div Len(DirectSets) \in Nat
         /\ s.cursor \div Len(DirectSets) < Len(s.queue)
         /\ s.queue[(s.cursor \div Len(DirectSets)) + 1] \in Dir
         /\ (s.cursor % Len(DirectSets)) + 1 \in DOMAIN DirectSets
         /\ DirectSets[(s.cursor % Len(DirectSets)) + 1].release \in Nat
<1> DEFINE n == Len(DirectSets)
           k == Len(s.queue)
<1>1. s.queue \in Seq(Dir) /\ s.cursor \in Nat /\ n \in Nat /\ k \in Nat /\ s.cursor <= k * n
  BY SetsAssumption DEF ScanShape, Scans, Pairs
<1>2. s.cursor # k * n
  BY DEF Pairs
<1> HIDE DEF n, k
<1>3. k * n \in Nat
  BY <1>1
<1>4. s.cursor < k * n
  BY <1>1, <1>2, <1>3
<1>5. n # 0
  <2>1. CASE n = 0
    <3>1. k * n = 0
      BY <1>1, <2>1
    <3>2. QED
      BY <1>1, <1>4, <3>1
  <2>2. QED
    BY <2>1
<1>6. /\ s.cursor \div n \in Nat /\ s.cursor % n \in 0..(n - 1) /\ s.cursor \div n < k
  BY <1>1, <1>4, <1>5, Division
<1>7. (s.cursor % n) + 1 \in 1..n /\ (s.cursor \div n) + 1 \in 1..k
  BY <1>1, <1>5, <1>6
<1>8. s.queue[(s.cursor \div n) + 1] \in Dir
  BY <1>1, <1>7 DEF k
<1>9. (s.cursor % n) + 1 \in DOMAIN DirectSets
  BY <1>7, SetsAssumption DEF n
<1>10. QED
  BY <1>1, <1>4, <1>5, <1>6, <1>8, <1>9, SetsAssumption DEF n, k, Pairs

(* Moving on to the next place.                                            *)
LEMMA MovedIs ==
  ASSUME NEW u \in Scans, NEW c \in Nat
  PROVE  LET t == [u EXCEPT !.cursor = c] IN
         /\ t \in Scans /\ t.phase = u.phase /\ t.queue = u.queue /\ t.opened = u.opened
         /\ t.listing = u.listing /\ t.candidates = u.candidates /\ t.left = u.left
         /\ t.cursor = c /\ t.inspected = u.inspected /\ t.size = u.size
         /\ t.releases = u.releases /\ t.leaves = u.leaves /\ t.bound = u.bound
         /\ t.containers = u.containers /\ t.report = u.report
  BY DEF Scans

LEMMA DirectStepIs ==
  ASSUME ScanOK(scan), VerifyDirectory, scan.cursor # Pairs(scan)
  PROVE  LET dir == scan.queue[(scan.cursor \div Len(DirectSets)) + 1]
             set == DirectSets[(scan.cursor % Len(DirectSets)) + 1]
             u   == AdmitDirect(collection, scan, dir, set)
         IN  /\ u \in Scans /\ u.cursor = scan.cursor
             /\ scan' = [u EXCEPT !.cursor = scan.cursor + 1]
<1> DEFINE dir == scan.queue[(scan.cursor \div Len(DirectSets)) + 1]
           set == DirectSets[(scan.cursor % Len(DirectSets)) + 1]
           u   == AdmitDirect(collection, scan, dir, set)
<1>1. ScanShape(scan) /\ scan.phase = "direct_sets"
  BY DEF ScanOK, VerifyDirectory
<1>2. dir \in Dir /\ set.release \in Nat
  BY <1>1, PairIs
<1>3. scan' = [u EXCEPT !.cursor = @ + 1]
  BY DEF VerifyDirectory, Pairs
<1> HIDE DEF dir, set
<1>4. AddsDirect(scan, u, collection, dir, set)
  BY <1>2, AdmitDirectIs
<1>5. u \in Scans /\ u.cursor = scan.cursor
  BY <1>4 DEF AddsDirect, Elsewhere
<1>6. QED
  BY <1>3, <1>5 DEF dir, set

LEMMA VerifyDirectoryKeeps ==
  ASSUME ScanOK(scan), VerifyDirectory
  PROVE  ScanOK(scan')
<1>1. /\ scan \in Scans /\ ScanShape(scan) /\ scan.phase = "direct_sets"
      /\ scan.left = {} /\ scan.inspected = NoFile
      /\ CountsAgree(scan) /\ Distinct(scan.releases) /\ LayoutsAddUp(scan)
  BY FilesAreNumbers DEF ScanOK, ScanShape, VerifyDirectory
<1>2. CASE scan.cursor = Pairs(scan)
  <2> DEFINE t == [scan EXCEPT !.phase = "container_sets", !.cursor = 0]
  <2>1. scan' = t
    BY <1>2 DEF VerifyDirectory, Pairs
  <2>2. t \in Scans
    BY <1>1 DEF Scans
  <2>3. /\ t.phase = "container_sets" /\ t.queue = scan.queue /\ t.opened = scan.opened
        /\ t.candidates = scan.candidates /\ t.left = {} /\ t.cursor = 0
        /\ t.inspected = NoFile /\ t.releases = scan.releases /\ t.leaves = scan.leaves
        /\ t.containers = scan.containers /\ t.report = scan.report
    BY <1>1 DEF Scans
  <2> HIDE DEF t
  <2>4. ScanShape(t)
    BY <1>1, <2>2, <2>3, SetsAssumption DEF ScanShape
  <2>5. CountsAgree(t) /\ LayoutsAddUp(t) /\ Distinct(t.releases)
    BY <1>1, <2>3 DEF CountsAgree, LayoutsAddUp
  <2>6. InOrder(t)
    BY <1>1, <2>3 DEF InOrder, Done
  <2>7. QED
    BY <2>1, <2>4, <2>5, <2>6 DEF ScanOK
<1>3. CASE scan.cursor # Pairs(scan)
  <2> DEFINE dir == scan.queue[(scan.cursor \div Len(DirectSets)) + 1]
             set == DirectSets[(scan.cursor % Len(DirectSets)) + 1]
             u   == AdmitDirect(collection, scan, dir, set)
             t   == [u EXCEPT !.cursor = scan.cursor + 1]
  <2>1. /\ dir \in Dir /\ set.release \in Nat /\ scan.cursor \in Nat
        /\ scan.cursor < Pairs(scan) /\ Pairs(scan) \in Nat
    BY <1>1, <1>3, PairIs DEF Pairs
  <2>2. scan' = t /\ u \in Scans
    BY <1>3, DirectStepIs
  <2> HIDE DEF dir, set
  <2>3. /\ Elsewhere(scan, u) /\ u.left = scan.left /\ u.inspected = scan.inspected
        /\ Distinct(u.releases) /\ LayoutsAddUp(u)
        /\ \A c \in {"hashed", "hash_rejected", "verified", "verified_leaves"} :
             u.report[c] = scan.report[c]
        /\ Counted(u.report) = Counted(scan.report)
    <3>1. AddsDirect(scan, u, collection, dir, set)
      BY <2>1, AdmitDirectIs
    <3> HIDE DEF u
    <3>2. QED
      BY <3>1 DEF AddsDirect
  <2> HIDE DEF u
  <2>4. /\ t \in Scans /\ t.phase = u.phase /\ t.queue = u.queue /\ t.opened = u.opened
        /\ t.candidates = u.candidates /\ t.left = u.left
        /\ t.cursor = scan.cursor + 1 /\ t.inspected = u.inspected
        /\ t.releases = u.releases /\ t.leaves = u.leaves
        /\ t.containers = u.containers /\ t.report = u.report
    BY <2>1, <2>2, MovedIs
  <2> HIDE DEF t
  <2>5. LayoutsAddUp(t)
    BY <2>3, <2>4 DEF LayoutsAddUp
  <2>6. scan.containers \subseteq scan.candidates
    BY <1>1 DEF ScanShape
  <2>7. t.cursor <= Pairs(scan)
    BY <2>1, <2>4
  <2>8. ScanOK(t)
    BY <1>1, <2>3, <2>4, <2>5, <2>6, <2>7, SetKeeps DEF Elsewhere
  <2>9. QED
    BY <2>2, <2>8
<1>4. QED
  BY <1>2, <1>3

LEMMA ContainerStepIs ==
  ASSUME ScanOK(scan), VerifyContainerSet, scan.cursor # Len(ContainerSets)
  PROVE  LET set == ContainerSets[scan.cursor + 1]
             u   == AdmitContainers(collection, scan, set)
         IN  /\ scan.cursor \in Nat /\ scan.cursor < Len(ContainerSets)
             /\ scan.cursor + 1 \in DOMAIN ContainerSets /\ set.release \in Nat
             /\ u \in Scans /\ u.cursor = scan.cursor
             /\ scan' = [u EXCEPT !.cursor = scan.cursor + 1]
<1> DEFINE set == ContainerSets[scan.cursor + 1]
           u   == AdmitContainers(collection, scan, set)
<1>1. scan.cursor \in Nat /\ scan.cursor <= Len(ContainerSets)
  BY DEF ScanOK, ScanShape, Scans, VerifyContainerSet
<1>2. /\ scan.cursor < Len(ContainerSets) /\ scan.cursor + 1 \in DOMAIN ContainerSets
      /\ set.release \in Nat
  BY <1>1, SetsAssumption
<1>3. scan' = [u EXCEPT !.cursor = @ + 1]
  BY DEF VerifyContainerSet
<1> HIDE DEF set
<1>4. u \in Scans /\ u.cursor = scan.cursor
  BY <1>2, AdmitContainersIs
<1>5. QED
  BY <1>1, <1>2, <1>3, <1>4 DEF set

(* The candidates are taken once every set has been looked at.             *)
LEMMA CandidatesStart ==
  ASSUME ScanOK(scan), VerifyContainerSet, scan.cursor = Len(ContainerSets)
  PROVE  /\ scan' \in Scans /\ scan'.phase = "candidates" /\ scan'.queue = scan.queue
         /\ scan'.opened = scan.opened /\ scan'.candidates = scan.candidates
         /\ scan'.left = scan.candidates /\ scan'.inspected = NoFile /\ scan'.leaves = scan.leaves
         /\ scan'.containers = scan.containers /\ scan'.report = scan.report
         /\ SameReleases(scan.releases, scan'.releases)
         /\ Done(scan') => Increasing(scan'.releases)
<1> DEFINE u == [scan EXCEPT !.phase = "candidates", !.cursor = 0, !.left = scan.candidates]
<1>1. scan \in Scans /\ Distinct(scan.releases) /\ scan.inspected = NoFile
  BY FilesAreNumbers DEF ScanOK, ScanShape, VerifyContainerSet
<1>2. scan' = Settled(u)
  BY DEF VerifyContainerSet
<1>3. u \in Scans
  BY <1>1 DEF Scans
<1>4. /\ u.phase = "candidates" /\ u.queue = scan.queue
      /\ u.opened = scan.opened /\ u.candidates = scan.candidates
      /\ u.left = scan.candidates /\ u.inspected = NoFile /\ u.leaves = scan.leaves
      /\ u.containers = scan.containers /\ u.report = scan.report /\ u.releases = scan.releases
  BY <1>1 DEF Scans
<1> HIDE DEF u
<1>5. QED
  BY <1>1, <1>2, <1>3, <1>4, SettledIs DEF Elsewhere

LEMMA VerifyContainerSetKeeps ==
  ASSUME ScanOK(scan), VerifyContainerSet
  PROVE  ScanOK(scan')
<1>1. /\ scan \in Scans /\ ScanShape(scan) /\ scan.phase = "container_sets"
      /\ scan.left = {} /\ scan.inspected = NoFile
      /\ CountsAgree(scan) /\ Distinct(scan.releases) /\ LayoutsAddUp(scan)
  BY FilesAreNumbers DEF ScanOK, ScanShape, VerifyContainerSet
<1>2. CASE scan.cursor = Len(ContainerSets)
  <2> DEFINE t == scan'
  <2>1. /\ t \in Scans /\ t.phase = "candidates" /\ t.queue = scan.queue
        /\ t.opened = scan.opened /\ t.candidates = scan.candidates
        /\ t.left = scan.candidates /\ t.inspected = NoFile /\ t.leaves = scan.leaves
        /\ t.containers = scan.containers /\ t.report = scan.report
        /\ SameReleases(scan.releases, t.releases)
        /\ Done(t) => Increasing(t.releases)
    BY <1>2, CandidatesStart
  <2> HIDE DEF t
  <2>2. ScanShape(t)
    BY <1>1, <2>1 DEF ScanShape
  <2>3. CountsAgree(t)
    <3>1. t.candidates \ t.left = {} /\ t.containers \ t.left = {}
      BY <1>1, <2>1 DEF ScanShape
    <3>2. Counted(t.report) = 0
      BY <1>1, <2>1 DEF CountsAgree
    <3>3. QED
      BY <1>1, <2>1, <3>1, <3>2, FS_EmptySet DEF CountsAgree
  <2>4. LayoutsAddUp(t) /\ Distinct(t.releases)
    BY <1>1, <2>1, LayoutsKept DEF SameReleases
  <2>5. InOrder(t)
    BY <2>1 DEF InOrder, Increasing
  <2>6. QED
    BY <2>2, <2>3, <2>4, <2>5 DEF ScanOK, t
<1>3. CASE scan.cursor # Len(ContainerSets)
  <2> DEFINE set == ContainerSets[scan.cursor + 1]
             u   == AdmitContainers(collection, scan, set)
             t   == [u EXCEPT !.cursor = scan.cursor + 1]
  <2>1. /\ set.release \in Nat /\ scan.cursor \in Nat /\ scan.cursor < Len(ContainerSets)
        /\ scan' = t /\ u \in Scans
    BY <1>3, ContainerStepIs
  <2> HIDE DEF set
  <2>2. /\ u.phase = scan.phase /\ u.queue = scan.queue /\ u.opened = scan.opened
        /\ u.candidates = scan.candidates
        /\ u.left = scan.left /\ u.inspected = scan.inspected
        /\ u.containers \subseteq scan.candidates
        /\ Distinct(u.releases) /\ LayoutsAddUp(u)
        /\ \A c \in {"hashed", "hash_rejected", "verified", "verified_leaves"} :
             u.report[c] = scan.report[c]
        /\ Counted(u.report) = Counted(scan.report)
    BY <2>1, AdmitContainersIs
  <2> HIDE DEF u
  <2>3. /\ t \in Scans /\ t.phase = u.phase /\ t.queue = u.queue /\ t.opened = u.opened
        /\ t.candidates = u.candidates /\ t.left = u.left
        /\ t.cursor = scan.cursor + 1 /\ t.inspected = u.inspected
        /\ t.releases = u.releases /\ t.leaves = u.leaves
        /\ t.containers = u.containers /\ t.report = u.report
    BY <2>1, MovedIs
  <2> HIDE DEF t
  <2>4. LayoutsAddUp(t)
    BY <2>2, <2>3 DEF LayoutsAddUp
  <2>5. t.cursor <= Len(ContainerSets)
    BY <2>1, <2>3, SetsAssumption
  <2>6. ScanOK(t)
    BY <1>1, <2>2, <2>3, <2>4, <2>5, SetKeeps
  <2>7. QED
    BY <2>1, <2>6
<1>4. QED
  BY <1>2, <1>3

LEMMA EnlistIs ==
  ASSUME NEW s, NEW e \in DOMAIN ParentOf
  PROVE  LET t == Enlist(s, e) IN
         /\ \/ e \in Link /\ t = [s EXCEPT !.report = Count(@, {"symlinks"})]
            \/ e \in Dir /\ t = [s EXCEPT !.queue = Append(@, e)]
            \/ /\ e \in File /\ collection[e] # Gone
               /\ t = [s EXCEPT !.candidates = @ \cup {e}]
            \/ e \in File /\ collection[e] = Gone /\ t = s
         /\ e \in Link => e \notin Dir /\ e \notin File
         /\ e \in Dir => e \notin File
<1>1. /\ e \in Link \/ e \in Dir \/ e \in File
      /\ e \in Link => e \notin Dir /\ e \notin File
      /\ e \in Dir => e \notin File
  BY ScannerAssumption
<1>2. CASE e \in Link
  <2>1. Enlist(s, e) = [s EXCEPT !.report = Count(@, {"symlinks"})]
    BY <1>1, <1>2, Zenon DEF Enlist
  <2>2. QED
    BY <1>1, <1>2, <2>1
<1>3. CASE e \in Dir
  <2>1. e \notin Link
    BY <1>1, <1>3
  <2>2. Enlist(s, e) = [s EXCEPT !.queue = Append(@, e)]
    BY <1>1, <1>3, <2>1, Zenon DEF Enlist
  <2>3. QED
    BY <1>1, <1>3, <2>2
<1>4. CASE e \in File /\ collection[e] # Gone
  <2>1. e \notin Link /\ e \notin Dir
    BY <1>1, <1>4
  <2>2. Enlist(s, e) = [s EXCEPT !.candidates = @ \cup {e}]
    BY <1>4, <2>1, Zenon DEF Enlist
  <2>3. QED
    BY <1>1, <1>4, <2>2
<1>5. CASE e \in File /\ collection[e] = Gone
  <2>1. e \notin Link /\ e \notin Dir
    BY <1>1, <1>5
  <2>2. Enlist(s, e) = s
    BY <1>5, <2>1, Zenon DEF Enlist
  <2>3. QED
    BY <1>1, <1>5, <2>2
<1>6. QED
  BY <1>1, <1>2, <1>3, <1>4, <1>5

(* Discovery only adds to what is there.                                   *)
LEMMA DiscoveryKeeps ==
  ASSUME NEW s, ScanOK(s), s.phase = "discovering",
         NEW t \in Scans, t.phase \in {"discovering", "direct_sets"},
         t.opened <= Len(t.queue), s.candidates \subseteq t.candidates,
         t.left = s.left, t.cursor = s.cursor, t.inspected = s.inspected,
         t.releases = s.releases, t.leaves = s.leaves, t.containers = s.containers,
         \A c \in {"hashed", "hash_rejected", "verified", "verified_leaves", "duplicates",
                   "duplicate_leaves", "direct_sets", "duplicate_direct_sets",
                   "container_sets"} : t.report[c] = s.report[c],
         Counted(t.report) = Counted(s.report)
  PROVE  ScanOK(t)
<1>1. /\ s \in Scans /\ s.left = {} /\ s.inspected = NoFile /\ s.cursor = 0
      /\ s.containers \subseteq s.candidates
      /\ CountsAgree(s) /\ Distinct(s.releases) /\ LayoutsAddUp(s)
  BY FilesAreNumbers DEF ScanOK, ScanShape
<1>2. 0 <= Pairs(t)
  <2>1. Len(t.queue) \in Nat /\ Len(DirectSets) \in Nat
    BY SetsAssumption DEF Scans
  <2>2. QED
    BY <2>1 DEF Pairs
<1>3. ScanShape(t)
  BY <1>1, <1>2 DEF ScanShape
<1>4. CountsAgree(t)
  BY <1>1 DEF CountsAgree
<1>5. LayoutsAddUp(t)
  BY <1>1 DEF LayoutsAddUp
<1>6. InOrder(t)
  BY <1>1 DEF InOrder, Done
<1>7. QED
  BY <1>1, <1>3, <1>4, <1>5, <1>6 DEF ScanOK

LEMMA OpenDirectoryIs ==
  ASSUME ScanOK(scan), OpenDirectory
  PROVE  /\ scan' \in Scans /\ scan.phase = "discovering" /\ scan.listing = {}
         /\ scan.opened \in Nat /\ scan.opened < Len(scan.queue) /\ Len(scan.queue) \in Nat
         /\ scan'.phase = scan.phase /\ scan'.queue = scan.queue
         /\ scan'.opened = scan.opened + 1 /\ scan'.candidates = scan.candidates
         /\ scan'.left = scan.left /\ scan'.cursor = scan.cursor
         /\ scan'.inspected = scan.inspected /\ scan'.releases = scan.releases
         /\ scan'.leaves = scan.leaves /\ scan'.containers = scan.containers
         /\ scan'.report = scan.report
         /\ ~disturbed' => /\ ~disturbed
                           /\ scan'.listing = EntriesOf(scan.queue[scan.opened + 1])
<1>1. scan \in Scans /\ scan.phase = "discovering" /\ scan.listing = {}
      /\ scan.opened \in Nat /\ scan.opened < Len(scan.queue) /\ Len(scan.queue) \in Nat
  BY DEF ScanOK, ScanShape, Scans, OpenDirectory
<1> DEFINE entries == EntriesOf(scan.queue[scan.opened + 1])
<1>2. entries \subseteq DOMAIN ParentOf
  BY DEF EntriesOf
<1>3. PICK readable \in BOOLEAN :
        /\ scan' = [scan EXCEPT !.opened = @ + 1, !.listing = IF readable THEN entries ELSE {}]
        /\ disturbed' = (disturbed \/ (~readable /\ entries # {}))
  BY DEF OpenDirectory
<1> HIDE DEF entries
<1> DEFINE listed == IF readable THEN entries ELSE {}
<1>4. listed \in SUBSET DOMAIN ParentOf
  BY <1>2
<1>5. scan' = [scan EXCEPT !.opened = scan.opened + 1, !.listing = listed]
      /\ scan.opened + 1 \in Nat
  BY <1>1, <1>3
<1>6. ~disturbed' => ~disturbed /\ listed = entries
  BY <1>3
<1> HIDE DEF listed
<1>7. scan' \in Scans
  BY <1>1, <1>4, <1>5 DEF Scans
<1>8. /\ scan'.phase = scan.phase /\ scan'.queue = scan.queue
      /\ scan'.opened = scan.opened + 1 /\ scan'.candidates = scan.candidates
      /\ scan'.left = scan.left /\ scan'.cursor = scan.cursor
      /\ scan'.inspected = scan.inspected /\ scan'.releases = scan.releases
      /\ scan'.leaves = scan.leaves /\ scan'.containers = scan.containers
      /\ scan'.report = scan.report /\ scan'.listing = listed
  BY <1>1, <1>5 DEF Scans
<1>9. QED
  BY <1>1, <1>6, <1>7, <1>8 DEF entries

LEMMA OpenDirectoryKeeps ==
  ASSUME ScanOK(scan), OpenDirectory
  PROVE  ScanOK(scan')
<1> DEFINE t == scan'
<1>1. /\ t \in Scans /\ scan.phase = "discovering" /\ t.phase = scan.phase
      /\ t.queue = scan.queue /\ t.opened <= Len(t.queue) /\ t.candidates = scan.candidates
      /\ t.left = scan.left /\ t.cursor = scan.cursor
      /\ t.inspected = scan.inspected /\ t.releases = scan.releases
      /\ t.leaves = scan.leaves /\ t.containers = scan.containers
      /\ t.report = scan.report
  BY OpenDirectoryIs
<1> HIDE DEF t
<1>2. ScanOK(t)
  BY <1>1, DiscoveryKeeps
<1>3. QED
  BY <1>2 DEF t

(* An entry is taken off the list and put where its kind belongs.          *)
LEMMA VisitEntryIs ==
  ASSUME ScanOK(scan), VisitEntry
  PROVE  \E e \in scan.listing :
         /\ scan' \in Scans /\ scan.phase = "discovering" /\ e \in DOMAIN ParentOf
         /\ scan'.phase = scan.phase /\ scan'.opened = scan.opened
         /\ \/ e \in Link /\ scan'.queue = scan.queue /\ scan'.candidates = scan.candidates
            \/ /\ e \in Dir /\ scan'.queue = Append(scan.queue, e)
               /\ scan'.candidates = scan.candidates
            \/ /\ e \in File /\ collection[e] # Gone /\ scan'.queue = scan.queue
               /\ scan'.candidates = scan.candidates \cup {e}
            \/ /\ e \in File /\ collection[e] = Gone /\ scan'.queue = scan.queue
               /\ scan'.candidates = scan.candidates
         /\ scan'.left = scan.left /\ scan'.cursor = scan.cursor
         /\ scan'.inspected = scan.inspected /\ scan'.releases = scan.releases
         /\ scan'.leaves = scan.leaves /\ scan'.containers = scan.containers
         /\ \A c \in {"hashed", "hash_rejected", "verified", "verified_leaves", "duplicates",
                      "duplicate_leaves", "direct_sets", "duplicate_direct_sets",
                      "container_sets"} : scan'.report[c] = scan.report[c]
         /\ Counted(scan'.report) = Counted(scan.report)
         /\ ~disturbed' => ~disturbed /\ scan'.listing = scan.listing \ {e}
<1>1. /\ scan \in Scans /\ scan.phase = "discovering" /\ scan.report \in [Counters -> Nat]
      /\ scan.listing \subseteq DOMAIN ParentOf
  BY DEF ScanOK, ScanShape, Scans, VisitEntry
<1>2. PICK e \in scan.listing, readable \in BOOLEAN :
        LET others == scan.listing \ {e} IN
        /\ scan' = Enlist([scan EXCEPT !.listing = IF readable THEN others ELSE {}], e)
        /\ disturbed' = (disturbed \/ (~readable /\ others # {}))
  BY DEF VisitEntry
<1> DEFINE listed == IF readable THEN scan.listing \ {e} ELSE {}
           u == [scan EXCEPT !.listing = listed]
           r == Count(scan.report, {"symlinks"})
<1>3. scan' = Enlist(u, e) /\ e \in DOMAIN ParentOf
  BY <1>1, <1>2
<1>4. ~disturbed' => ~disturbed /\ listed = scan.listing \ {e}
  BY <1>2
<1>5. listed \in SUBSET DOMAIN ParentOf
  BY <1>1
<1> HIDE DEF listed
<1>6. u \in Scans
  BY <1>1, <1>5 DEF Scans
<1>7. /\ u.phase = scan.phase /\ u.opened = scan.opened /\ u.queue = scan.queue
      /\ u.candidates = scan.candidates /\ u.left = scan.left /\ u.cursor = scan.cursor
      /\ u.inspected = scan.inspected /\ u.releases = scan.releases
      /\ u.leaves = scan.leaves /\ u.containers = scan.containers
      /\ u.report = scan.report /\ u.listing = listed
  BY <1>1 DEF Scans
<1> HIDE DEF u
<1>8. /\ r \in [Counters -> Nat]
      /\ \A c \in {"hashed", "hash_rejected", "verified", "verified_leaves", "duplicates",
                   "duplicate_leaves", "direct_sets", "duplicate_direct_sets",
                   "container_sets"} : r[c] = scan.report[c]
      /\ Counted(r) = Counted(scan.report)
  <2> DEFINE cs == {"symlinks"}
  <2>1. \A c \in {"hashed", "hash_rejected", "verified", "verified_leaves", "duplicates",
                  "duplicate_leaves", "direct_sets", "duplicate_direct_sets",
                  "container_sets", "size_rejected", "unreadable"} : c \notin cs
    OBVIOUS
  <2>2. r = Count(scan.report, cs)
    OBVIOUS
  <2> HIDE DEF cs, r
  <2>3. QED
    BY <1>1, <2>1, <2>2, CountsAre
<1> HIDE DEF r
<1>9. CASE e \in Link /\ scan' = [u EXCEPT !.report = r]
  <2>1. scan' \in Scans
    BY <1>6, <1>8, <1>9 DEF Scans
  <2>2. /\ scan'.phase = u.phase /\ scan'.opened = u.opened /\ scan'.queue = u.queue
        /\ scan'.candidates = u.candidates /\ scan'.left = u.left /\ scan'.cursor = u.cursor
        /\ scan'.inspected = u.inspected /\ scan'.releases = u.releases
        /\ scan'.leaves = u.leaves /\ scan'.containers = u.containers
        /\ scan'.report = r /\ scan'.listing = u.listing
    BY <1>6, <1>9 DEF Scans
  <2>3. QED
    BY <1>1, <1>3, <1>4, <1>7, <1>8, <1>9, <2>1, <2>2
<1>10. CASE e \in Dir /\ scan' = [u EXCEPT !.queue = Append(u.queue, e)]
  <2>1. Append(u.queue, e) \in Seq(Dir)
    BY <1>6, <1>10 DEF Scans
  <2>2. scan' \in Scans
    BY <1>6, <1>10, <2>1 DEF Scans
  <2>3. /\ scan'.phase = u.phase /\ scan'.opened = u.opened
        /\ scan'.queue = Append(u.queue, e)
        /\ scan'.candidates = u.candidates /\ scan'.left = u.left /\ scan'.cursor = u.cursor
        /\ scan'.inspected = u.inspected /\ scan'.releases = u.releases
        /\ scan'.leaves = u.leaves /\ scan'.containers = u.containers
        /\ scan'.report = u.report /\ scan'.listing = u.listing
    BY <1>6, <1>10 DEF Scans
  <2>4. QED
    BY <1>1, <1>3, <1>4, <1>7, <1>10, <2>2, <2>3
<1>11. CASE /\ e \in File /\ collection[e] # Gone
            /\ scan' = [u EXCEPT !.candidates = u.candidates \cup {e}]
  <2>1. scan' \in Scans
    BY <1>6, <1>11 DEF Scans
  <2>2. /\ scan'.phase = u.phase /\ scan'.opened = u.opened /\ scan'.queue = u.queue
        /\ scan'.candidates = u.candidates \cup {e}
        /\ scan'.left = u.left /\ scan'.cursor = u.cursor
        /\ scan'.inspected = u.inspected /\ scan'.releases = u.releases
        /\ scan'.leaves = u.leaves /\ scan'.containers = u.containers
        /\ scan'.report = u.report /\ scan'.listing = u.listing
    BY <1>6, <1>11 DEF Scans
  <2>3. QED
    BY <1>1, <1>3, <1>4, <1>7, <1>11, <2>1, <2>2
<1>12. CASE e \in File /\ collection[e] = Gone /\ scan' = u
  BY <1>1, <1>3, <1>4, <1>6, <1>7, <1>12
<1>13. QED
  <2>1. \/ e \in Link /\ scan' = [u EXCEPT !.report = Count(@, {"symlinks"})]
        \/ e \in Dir /\ scan' = [u EXCEPT !.queue = Append(@, e)]
        \/ /\ e \in File /\ collection[e] # Gone
           /\ scan' = [u EXCEPT !.candidates = @ \cup {e}]
        \/ e \in File /\ collection[e] = Gone /\ scan' = u
    BY <1>3, EnlistIs, Zenon
  <2>2. \/ e \in Link /\ scan' = [u EXCEPT !.report = r]
        \/ e \in Dir /\ scan' = [u EXCEPT !.queue = Append(u.queue, e)]
        \/ /\ e \in File /\ collection[e] # Gone
           /\ scan' = [u EXCEPT !.candidates = u.candidates \cup {e}]
        \/ e \in File /\ collection[e] = Gone /\ scan' = u
    BY <1>7, <2>1 DEF r
  <2>3. QED
    BY <1>9, <1>10, <1>11, <1>12, <2>2

LEMMA VisitEntryKeeps ==
  ASSUME ScanOK(scan), VisitEntry
  PROVE  ScanOK(scan')
<1> DEFINE t == scan'
<1>1. /\ t \in Scans /\ scan.phase = "discovering" /\ t.phase = scan.phase
      /\ t.opened = scan.opened
      /\ t.queue = scan.queue \/ \E e \in Dir : t.queue = Append(scan.queue, e)
      /\ t.candidates = scan.candidates \/ \E e : t.candidates = scan.candidates \cup {e}
      /\ t.left = scan.left /\ t.cursor = scan.cursor
      /\ t.inspected = scan.inspected /\ t.releases = scan.releases
      /\ t.leaves = scan.leaves /\ t.containers = scan.containers
      /\ \A c \in {"hashed", "hash_rejected", "verified", "verified_leaves", "duplicates",
                   "duplicate_leaves", "direct_sets", "duplicate_direct_sets",
                   "container_sets"} : t.report[c] = scan.report[c]
      /\ Counted(t.report) = Counted(scan.report)
  <2>1. PICK e \in scan.listing :
          /\ t \in Scans /\ scan.phase = "discovering" /\ t.phase = scan.phase
          /\ t.opened = scan.opened
          /\ \/ e \in Link /\ t.queue = scan.queue /\ t.candidates = scan.candidates
             \/ /\ e \in Dir /\ t.queue = Append(scan.queue, e)
                /\ t.candidates = scan.candidates
             \/ /\ e \in File /\ collection[e] # Gone /\ t.queue = scan.queue
                /\ t.candidates = scan.candidates \cup {e}
             \/ /\ e \in File /\ collection[e] = Gone /\ t.queue = scan.queue
                /\ t.candidates = scan.candidates
          /\ t.left = scan.left /\ t.cursor = scan.cursor
          /\ t.inspected = scan.inspected /\ t.releases = scan.releases
          /\ t.leaves = scan.leaves /\ t.containers = scan.containers
          /\ \A c \in {"hashed", "hash_rejected", "verified", "verified_leaves", "duplicates",
                       "duplicate_leaves", "direct_sets", "duplicate_direct_sets",
                       "container_sets"} : t.report[c] = scan.report[c]
          /\ Counted(t.report) = Counted(scan.report)
    BY VisitEntryIs, Zenon
  <2> HIDE DEF t
  <2>2. QED
    BY <2>1
<1> HIDE DEF t
<1>2. scan.queue \in Seq(Dir) /\ scan.opened \in Nat /\ scan.opened <= Len(scan.queue)
  BY DEF ScanOK, ScanShape, Scans
<1>3. t.opened <= Len(t.queue)
  BY <1>1, <1>2
<1>4. scan.candidates \subseteq t.candidates
  BY <1>1
<1>5. ScanOK(t)
  BY <1>1, <1>3, <1>4, DiscoveryKeeps
<1>6. QED
  BY <1>5 DEF t

LEMMA FinishDiscoveryIs ==
  ASSUME ScanOK(scan), FinishDiscovery
  PROVE  /\ scan' \in Scans /\ scan.phase = "discovering" /\ scan'.phase = "direct_sets"
         /\ scan.listing = {} /\ scan.opened = Len(scan.queue)
         /\ scan'.queue = scan.queue /\ scan'.opened = scan.opened
         /\ scan'.candidates = scan.candidates
         /\ scan'.left = scan.left /\ scan'.cursor = scan.cursor
         /\ scan'.inspected = scan.inspected /\ scan'.releases = scan.releases
         /\ scan'.leaves = scan.leaves /\ scan'.containers = scan.containers
         /\ scan'.report = scan.report
<1>1. /\ scan \in Scans /\ scan.phase = "discovering" /\ scan.listing = {}
      /\ scan.opened = Len(scan.queue) /\ scan' = [scan EXCEPT !.phase = "direct_sets"]
  BY DEF ScanOK, ScanShape, FinishDiscovery
<1>2. scan' \in Scans
  BY <1>1 DEF Scans
<1>3. QED
  BY <1>1, <1>2 DEF Scans

LEMMA FinishDiscoveryKeeps ==
  ASSUME ScanOK(scan), FinishDiscovery
  PROVE  ScanOK(scan')
<1> DEFINE t == scan'
<1>1. /\ t \in Scans /\ scan.phase = "discovering" /\ t.phase = "direct_sets"
      /\ t.queue = scan.queue /\ t.opened = scan.opened /\ t.candidates = scan.candidates
      /\ t.left = scan.left /\ t.cursor = scan.cursor
      /\ t.inspected = scan.inspected /\ t.releases = scan.releases
      /\ t.leaves = scan.leaves /\ t.containers = scan.containers
      /\ t.report = scan.report
  BY FinishDiscoveryIs
<1> HIDE DEF t
<1>2. t.opened <= Len(t.queue)
  BY <1>1 DEF ScanOK, ScanShape
<1>3. ScanOK(t)
  BY <1>1, <1>2, DiscoveryKeeps
<1>4. QED
  BY <1>3 DEF t

(* Whatever the disk does, the scan keeps what it says of itself.          *)
LEMMA ScanKeeps ==
  ASSUME ScanOK(scan), collection \in [File -> Content \cup {Gone}], Scan
  PROVE  ScanOK(scan')
  BY OpenDirectoryKeeps, VisitEntryKeeps, FinishDiscoveryKeeps, VerifyDirectoryKeeps,
     VerifyContainerSetKeeps, InspectKeeps, HashKeeps DEF Scan

-----------------------------------------------------------------------------
(* A quiet disk                                                            *)

LEMMA FoundSoFarIs ==
  ASSUME NEW s, NEW d, NEW start
  PROVE  LET direct == DirectOn(d, DirsFrom(start))
             those  == On(d, start)
         IN  /\ s.phase = "discovering" => FoundSoFar(s, d, start) = {}
             /\ s.phase = "direct_sets" => FoundSoFar(s, d, start) = DirectSoFar(s, d)
             /\ s.phase = "container_sets" =>
                  FoundSoFar(s, d, start) = direct \cup ContainersOn(d, those, s.cursor)
             /\ s.phase = "candidates" =>
                  FoundSoFar(s, d, start) =
                    direct \cup ContainersOn(d, those, Len(ContainerSets))
                      \cup ArchivesOn(d, s.candidates \ s.left)
<1>1. /\ "direct_sets" # "discovering" /\ "container_sets" # "discovering"
      /\ "candidates" # "discovering" /\ "container_sets" # "direct_sets"
      /\ "candidates" # "direct_sets" /\ "candidates" # "container_sets"
  OBVIOUS
<1>2. CASE s.phase = "discovering"
  <2>1. s.phase # "direct_sets" /\ s.phase # "container_sets" /\ s.phase # "candidates"
    BY <1>1, <1>2
  <2>2. FoundSoFar(s, d, start) = {}
    BY <1>2, <2>1, Zenon DEF FoundSoFar
  <2>3. QED
    BY <2>1, <2>2
<1>3. CASE s.phase = "direct_sets"
  <2>1. s.phase # "discovering" /\ s.phase # "container_sets" /\ s.phase # "candidates"
    BY <1>1, <1>3
  <2>2. FoundSoFar(s, d, start) = DirectSoFar(s, d)
    BY <1>3, <2>1, Zenon DEF FoundSoFar
  <2>3. QED
    BY <2>1, <2>2
<1>4. CASE s.phase = "container_sets"
  <2>1. s.phase # "discovering" /\ s.phase # "direct_sets" /\ s.phase # "candidates"
    BY <1>1, <1>4
  <2>2. FoundSoFar(s, d, start) =
          DirectOn(d, DirsFrom(start)) \cup ContainersOn(d, On(d, start), s.cursor)
    BY <1>4, <2>1, Zenon DEF FoundSoFar
  <2>3. QED
    BY <2>1, <2>2
<1>5. CASE s.phase = "candidates"
  <2>1. s.phase # "discovering" /\ s.phase # "direct_sets" /\ s.phase # "container_sets"
    BY <1>1, <1>5
  <2>2. FoundSoFar(s, d, start) =
          DirectOn(d, DirsFrom(start)) \cup ContainersOn(d, On(d, start), Len(ContainerSets))
            \cup ArchivesOn(d, s.candidates \ s.left)
    BY <1>5, <2>1, Zenon DEF FoundSoFar
  <2>3. QED
    BY <2>1, <2>2
<1>6. QED
  BY <1>2, <1>3, <1>4, <1>5

(* Whoever is in a queue stays in it.                                      *)
LEMMA QueueGrows ==
  ASSUME NEW q \in Seq(Dir), NEW e \in Dir
  PROVE  LET r == Append(q, e) IN
         /\ Len(q) \in Nat /\ Len(r) = Len(q) + 1 /\ r \in Seq(Dir)
         /\ \A i \in 1..Len(q) : r[i] = q[i]
         /\ {r[i] : i \in 1..Len(r)} = {q[i] : i \in 1..Len(q)} \cup {e}
<1> DEFINE r == Append(q, e)
<1>1. /\ Len(q) \in Nat /\ Len(r) = Len(q) + 1 /\ r \in Seq(Dir)
      /\ \A i \in 1..Len(q) : r[i] = q[i]
      /\ r[Len(q) + 1] = e
  OBVIOUS
<1> HIDE DEF r
<1>2. 1..Len(r) = 1..Len(q) \cup {Len(q) + 1}
  BY <1>1
<1>3. {r[i] : i \in 1..Len(r)} = {q[i] : i \in 1..Len(q)} \cup {e}
  BY <1>1, <1>2
<1>4. QED
  BY <1>1, <1>3 DEF r

(* While nothing is verified there is nothing to say but of discovery.     *)
LEMMA QuietDiscovery ==
  ASSUME NEW s, NEW t, NEW d, NEW start, FoundOnQuiet(s, d, start),
         s.phase = "discovering", t.phase = "discovering", t.releases = s.releases,
         t.containers = s.containers, Discovered(t, d, start)
  PROVE  FoundOnQuiet(t, d, start)
<1>1. FoundSoFar(s, d, start) = {} /\ FoundSoFar(t, d, start) = {}
  BY FoundSoFarIs
<1>2. QED
  BY <1>1 DEF FoundOnQuiet

LEMMA OpenDirectoryOnQuiet ==
  ASSUME ScanOK(scan), OpenDirectory, ~disturbed',
         FoundOnQuiet(scan, collection, chosen)
  PROVE  FoundOnQuiet(scan', collection, chosen)
<1> DEFINE t == scan'
           dir == scan.queue[scan.opened + 1]
<1>1. /\ scan.phase = "discovering" /\ scan.listing = {}
      /\ scan.opened \in Nat /\ scan.opened < Len(scan.queue) /\ Len(scan.queue) \in Nat
      /\ t.phase = "discovering" /\ t.queue = scan.queue
      /\ t.opened = scan.opened + 1 /\ t.candidates = scan.candidates
      /\ t.releases = scan.releases /\ t.containers = scan.containers
      /\ t.listing = EntriesOf(dir)
  BY OpenDirectoryIs
<1> HIDE DEF t
<1>2. /\ chosen = Root /\ Len(scan.queue) > 0 /\ scan.queue[1] = Root
      /\ scan.candidates \subseteq On(collection, Root)
      /\ \A e \in DOMAIN ParentOf :
           ParentOf[e] \in Opened(scan) => e \in scan.listing \/ Taken(scan, collection, e)
  BY <1>1 DEF FoundOnQuiet, Discovered
<1>3. Opened(t) = Opened(scan) \cup {dir}
  <2>1. 1..t.opened = 1..scan.opened \cup {scan.opened + 1}
    BY <1>1
  <2>2. QED
    BY <1>1, <2>1 DEF Opened
<1>4. ASSUME NEW e \in DOMAIN ParentOf, ParentOf[e] \in Opened(t)
      PROVE  e \in t.listing \/ Taken(t, collection, e)
  <2>1. CASE ParentOf[e] = dir
    BY <1>1, <2>1 DEF EntriesOf
  <2>2. CASE ParentOf[e] \in Opened(scan)
    <3>1. Taken(scan, collection, e)
      BY <1>1, <1>2, <2>2
    <3>2. QED
      BY <1>1, <3>1 DEF Taken
  <2>3. QED
    BY <1>3, <1>4, <2>1, <2>2
<1>5. Discovered(t, collection, chosen)
  BY <1>1, <1>2, <1>4 DEF Discovered
<1>6. QED
  BY <1>1, <1>5, QuietDiscovery DEF t

LEMMA VisitEntryOnQuiet ==
  ASSUME ScanOK(scan), VisitEntry, ~disturbed',
         FoundOnQuiet(scan, collection, chosen)
  PROVE  FoundOnQuiet(scan', collection, chosen)
<1> DEFINE t == scan'
<1>1. PICK e \in scan.listing :
        /\ scan.phase = "discovering" /\ e \in DOMAIN ParentOf
        /\ t.phase = scan.phase /\ t.opened = scan.opened
        /\ \/ e \in Link /\ t.queue = scan.queue /\ t.candidates = scan.candidates
           \/ /\ e \in Dir /\ t.queue = Append(scan.queue, e)
              /\ t.candidates = scan.candidates
           \/ /\ e \in File /\ collection[e] # Gone /\ t.queue = scan.queue
              /\ t.candidates = scan.candidates \cup {e}
           \/ /\ e \in File /\ collection[e] = Gone /\ t.queue = scan.queue
              /\ t.candidates = scan.candidates
        /\ t.releases = scan.releases /\ t.containers = scan.containers
        /\ t.listing = scan.listing \ {e}
  BY VisitEntryIs, Zenon
<1> HIDE DEF t
<1>2. /\ chosen = Root /\ Len(scan.queue) > 0 /\ scan.queue[1] = Root
      /\ scan.candidates \subseteq On(collection, Root)
      /\ \A x \in DOMAIN ParentOf :
           ParentOf[x] \in Opened(scan) => x \in scan.listing \/ Taken(scan, collection, x)
  BY <1>1 DEF FoundOnQuiet, Discovered
<1>3. /\ scan.queue \in Seq(Dir) /\ scan.opened \in Nat /\ Len(scan.queue) \in Nat
      /\ scan.opened <= Len(scan.queue)
  BY DEF ScanOK, ScanShape, Scans
<1>4. /\ Len(t.queue) >= Len(scan.queue) /\ Len(t.queue) \in Nat
      /\ \A i \in 1..Len(scan.queue) : t.queue[i] = scan.queue[i]
      /\ {scan.queue[i] : i \in 1..Len(scan.queue)} \subseteq {t.queue[i] : i \in 1..Len(t.queue)}
      /\ e \in Dir => e \notin Link /\ e \notin File /\ e \in {t.queue[i] : i \in 1..Len(t.queue)}
  <2>1. e \in Dir => e \notin Link /\ e \notin File
    BY ScannerAssumption
  <2>2. CASE t.queue = scan.queue /\ e \notin Dir
    BY <1>3, <2>2
  <2>3. CASE e \in Dir /\ t.queue = Append(scan.queue, e)
    BY <1>3, <2>1, <2>3, QueueGrows
  <2>4. QED
    BY <1>1, <2>1, <2>2, <2>3, ScannerAssumption
<1>5. Opened(t) = Opened(scan)
  <2>1. \A i \in 1..scan.opened : t.queue[i] = scan.queue[i]
    BY <1>3, <1>4
  <2>2. t.opened = scan.opened
    BY <1>1
  <2>3. QED
    BY <2>1, <2>2 DEF Opened
<1>6. t.candidates \subseteq On(collection, Root)
  BY <1>1, <1>2 DEF On
<1>7. ASSUME NEW x \in DOMAIN ParentOf, ParentOf[x] \in Opened(t)
      PROVE  x \in t.listing \/ Taken(t, collection, x)
  <2>1. CASE x = e
    BY <1>1, <1>4, <2>1 DEF Taken
  <2>2. CASE x \in scan.listing /\ x # e
    BY <1>1, <2>2
  <2>3. CASE Taken(scan, collection, x)
    <3>1. scan.candidates \subseteq t.candidates
      BY <1>1
    <3>2. QED
      BY <1>4, <2>3, <3>1 DEF Taken
  <2>4. QED
    BY <1>2, <1>5, <1>7, <2>1, <2>2, <2>3
<1>8. Len(t.queue) > 0 /\ t.queue[1] = Root
  BY <1>2, <1>3, <1>4
<1>9. Discovered(t, collection, chosen)
  BY <1>1, <1>2, <1>6, <1>7, <1>8 DEF Discovered
<1>10. QED
  BY <1>1, <1>9, QuietDiscovery DEF t

(* Everything below the root was opened, so every file was seen.           *)
LEMMA FinishDiscoveryOnQuiet ==
  ASSUME ScanOK(scan), FinishDiscovery, FoundOnQuiet(scan, collection, chosen)
  PROVE  FoundOnQuiet(scan', collection, chosen)
<1> DEFINE t == scan'
           dirs == {scan.queue[i] : i \in 1..Len(scan.queue)}
<1>1. /\ scan.phase = "discovering" /\ t.phase = "direct_sets"
      /\ scan.listing = {} /\ scan.opened = Len(scan.queue)
      /\ t.queue = scan.queue /\ t.candidates = scan.candidates
      /\ t.cursor = scan.cursor
      /\ t.releases = scan.releases /\ t.containers = scan.containers
  BY FinishDiscoveryIs
<1> HIDE DEF t
<1>2. /\ chosen = Root /\ Len(scan.queue) > 0 /\ scan.queue[1] = Root
      /\ scan.candidates \subseteq On(collection, Root)
      /\ \A e \in DOMAIN ParentOf :
           ParentOf[e] \in Opened(scan) => e \in scan.listing \/ Taken(scan, collection, e)
  BY <1>1 DEF FoundOnQuiet, Discovered
<1>3. scan.queue \in Seq(Dir) /\ Len(scan.queue) \in Nat /\ scan.cursor = 0
  BY <1>1 DEF ScanOK, ScanShape, Scans
<1>4. dirs = Opened(scan)
  BY <1>1 DEF Opened
<1>5. \A e \in DOMAIN ParentOf : ParentOf[e] \in dirs => Taken(scan, collection, e)
  BY <1>1, <1>2, <1>4
<1>6. dirs \in SUBSET Dir /\ Root \in dirs
  BY <1>2, <1>3
<1>7. ASSUME NEW dir \in Dir \ {Root}, ParentOf[dir] \in dirs PROVE dir \in dirs
  <2>1. dir \in DOMAIN ParentOf /\ dir \notin Link /\ dir \notin File
    BY ScannerAssumption
  <2>2. QED
    BY <1>5, <1>7, <2>1 DEF Taken
<1>8. dirs = Dir
  BY <1>6, <1>7, TreeAssumption
<1>9. t.candidates = On(collection, chosen)
  <2>1. ASSUME NEW f \in File, collection[f] # Gone PROVE f \in scan.candidates
    <3>1. f \in DOMAIN ParentOf /\ ParentOf[f] \in dirs /\ f \notin Link /\ f \notin Dir
      BY <1>8, ScannerAssumption
    <3>2. QED
      BY <1>5, <2>1, <3>1 DEF Taken
  <2>2. QED
    BY <1>1, <1>2, <2>1 DEF On
<1>10. Discovered(t, collection, chosen)
  BY <1>1, <1>2, <1>8, <1>9 DEF Discovered, DirsFrom
<1>11. FoundSoFar(t, collection, chosen) = {}
  <2>1. DirectSoFar(t, collection) = {}
    BY <1>1, <1>3 DEF DirectSoFar
  <2>2. QED
    BY <1>1, <2>1, FoundSoFarIs
<1>12. FoundSoFar(scan, collection, chosen) = {}
  BY <1>1, FoundSoFarIs
<1>13. QED
  BY <1>1, <1>10, <1>11, <1>12 DEF FoundOnQuiet, t

(* What one more place adds to what was found in the places before it.     *)
LEMMA DirectSoFarGrows ==
  ASSUME NEW s, NEW t, NEW d, s.cursor \in Nat, t.cursor = s.cursor + 1, t.queue = s.queue
  PROVE  LET dir == s.queue[(s.cursor \div Len(DirectSets)) + 1]
             set == DirectSets[(s.cursor % Len(DirectSets)) + 1]
         IN  DirectSoFar(t, d) =
               DirectSoFar(s, d) \cup (IF VerifiedDirect(d, dir, set) THEN {set.release} ELSE {})
<1> DEFINE n == Len(DirectSets)
           AtPlace(p) == s.queue[(p \div n) + 1]
           SetAt(p) == DirectSets[(p % n) + 1]
           Ok(p) == VerifiedDirect(d, AtPlace(p), SetAt(p))
           Rel(p) == SetAt(p).release
           c == s.cursor
<1>1. DirectSoFar(s, d) = {Rel(p) : p \in {p \in 0..(c - 1) : Ok(p)}}
  BY DEF DirectSoFar
<1>2. DirectSoFar(t, d) = {Rel(p) : p \in {p \in 0..(t.cursor - 1) : Ok(p)}}
  BY DEF DirectSoFar
<1>3. c \in Nat /\ t.cursor = c + 1
  OBVIOUS
<1> HIDE DEF Ok, Rel, c
<1>4. 0..(t.cursor - 1) = 0..(c - 1) \cup {c}
  BY <1>3
<1>5. CASE Ok(c)
  <2>1. {p \in 0..(t.cursor - 1) : Ok(p)} = {p \in 0..(c - 1) : Ok(p)} \cup {c}
    BY <1>4, <1>5
  <2>2. DirectSoFar(t, d) = DirectSoFar(s, d) \cup {Rel(c)}
    BY <1>1, <1>2, <2>1
  <2>3. QED
    BY <1>5, <2>2 DEF Ok, Rel, c
<1>6. CASE ~Ok(c)
  <2>1. {p \in 0..(t.cursor - 1) : Ok(p)} = {p \in 0..(c - 1) : Ok(p)}
    BY <1>4, <1>6
  <2>2. DirectSoFar(t, d) = DirectSoFar(s, d)
    BY <1>1, <1>2, <2>1
  <2>3. QED
    BY <1>6, <2>2 DEF Ok, c
<1>7. QED
  BY <1>5, <1>6

(* After the last place every directory was held against every set.        *)
LEMMA DirectSoFarIsAll ==
  ASSUME NEW s, NEW d, s.queue \in Seq(Dir), s.cursor = Pairs(s)
  PROVE  DirectSoFar(s, d) = DirectOn(d, {s.queue[i] : i \in 1..Len(s.queue)})
<1> DEFINE n == Len(DirectSets)
           k == Len(s.queue)
           dirs == {s.queue[i] : i \in 1..k}
           At(p) == s.queue[(p \div n) + 1]
           Of(p) == DirectSets[(p % n) + 1]
<1>1. /\ n \in Nat /\ k \in Nat /\ DOMAIN DirectSets = 1..n /\ s.cursor = k * n
      /\ k * n \in Nat
  BY SetsAssumption DEF Pairs
<1>2. DirectSoFar(s, d) =
        {Of(p).release : p \in {p \in 0..(k * n - 1) : VerifiedDirect(d, At(p), Of(p))}}
  BY <1>1 DEF DirectSoFar
<1>3. DirectOn(d, dirs) =
        {DirectSets[j].release : j \in {j \in DOMAIN DirectSets :
           \E dir \in dirs : VerifiedDirect(d, dir, DirectSets[j])}}
  BY DEF DirectOn
<1>4. ASSUME NEW p \in 0..(k * n - 1), VerifiedDirect(d, At(p), Of(p))
      PROVE  Of(p).release \in DirectOn(d, dirs)
  <2> HIDE DEF n, k
  <2>1. n # 0
    <3>1. CASE n = 0
      <4>1. k * n = 0
        BY <1>1, <3>1
      <4>2. QED
        BY <4>1
    <3>2. QED
      BY <3>1
  <2>2. p \in Nat /\ p < k * n
    BY <1>1
  <2>3. p \div n \in Nat /\ p % n \in 0..(n - 1) /\ p \div n < k
    BY <1>1, <2>1, <2>2, Division
  <2>4. (p % n) + 1 \in DOMAIN DirectSets /\ (p \div n) + 1 \in 1..k
    BY <1>1, <2>1, <2>3
  <2>5. At(p) \in dirs
    BY <2>4
  <2> HIDE DEF At, dirs
  <2> DEFINE j == (p % n) + 1
  <2>6. j \in DOMAIN DirectSets /\ VerifiedDirect(d, At(p), DirectSets[j])
        /\ Of(p).release = DirectSets[j].release
    BY <1>4, <2>4
  <2> HIDE DEF j, Of
  <2>7. QED
    BY <1>3, <2>5, <2>6
<1>5. ASSUME NEW j \in DOMAIN DirectSets, NEW dir \in dirs,
             VerifiedDirect(d, dir, DirectSets[j])
      PROVE  DirectSets[j].release \in DirectSoFar(s, d)
  <2>1. PICK i \in 1..k : dir = s.queue[i]
    OBVIOUS
  <2> DEFINE q == i - 1
             r == j - 1
             p == n * q + r
  <2>2. n # 0 /\ q \in Nat /\ q < k /\ r \in 0..(n - 1) /\ q + 1 = i /\ r + 1 = j
    BY <1>1
  <2> HIDE DEF n, k, q, r
  <2>3. p \in Nat /\ p < k * n /\ p \div n = q /\ p % n = r
    BY <1>1, <2>2, Numbering
  <2> HIDE DEF p
  <2>4. p \in 0..(k * n - 1)
    BY <1>1, <2>3
  <2>5. At(p) = dir /\ Of(p) = DirectSets[j]
    BY <2>1, <2>2, <2>3
  <2> HIDE DEF At, Of
  <2>6. QED
    BY <1>2, <1>5, <2>4, <2>5
<1>6. DirectOn(d, dirs) \subseteq DirectSoFar(s, d)
  BY <1>3, <1>5
<1>7. DirectSoFar(s, d) \subseteq DirectOn(d, dirs)
  BY <1>2, <1>4
<1>8. QED
  BY <1>6, <1>7

LEMMA VerifyDirectoryOnQuiet ==
  ASSUME ScanOK(scan), VerifyDirectory, FoundOnQuiet(scan, collection, chosen)
  PROVE  FoundOnQuiet(scan', collection, chosen)
<1> DEFINE direct == DirectOn(collection, DirsFrom(chosen))
           those  == On(collection, chosen)
<1>1. /\ scan \in Scans /\ ScanShape(scan) /\ scan.phase = "direct_sets"
      /\ scan.queue \in Seq(Dir) /\ Len(scan.queue) \in Nat
  BY DEF ScanOK, ScanShape, Scans, VerifyDirectory
<1>2. /\ scan.candidates = those
      /\ {scan.queue[i] : i \in 1..Len(scan.queue)} = DirsFrom(chosen)
      /\ scan.containers = {}
      /\ Found(scan.releases) = DirectSoFar(scan, collection)
      /\ \A i \in DOMAIN scan.releases : AsFound(scan.releases[i], collection, chosen)
  <2>1. /\ scan.phase # "discovering"
        /\ FoundSoFar(scan, collection, chosen) = DirectSoFar(scan, collection)
    BY <1>1, FoundSoFarIs
  <2>2. QED
    BY <1>1, <2>1 DEF FoundOnQuiet, Discovered
<1>3. CASE scan.cursor = Pairs(scan)
  <2> DEFINE t == [scan EXCEPT !.phase = "container_sets", !.cursor = 0]
  <2>1. scan' = t
    BY <1>3 DEF VerifyDirectory, Pairs
  <2>2. /\ t.phase = "container_sets" /\ t.queue = scan.queue
        /\ t.candidates = scan.candidates /\ t.cursor = 0
        /\ t.releases = scan.releases /\ t.containers = scan.containers
    BY <1>1 DEF Scans
  <2> HIDE DEF t
  <2>3. Found(scan.releases) = direct
    BY <1>1, <1>2, <1>3, DirectSoFarIsAll
  <2>4. ContainersOn(collection, those, 0) = {}
    BY DEF ContainersOn
  <2>5. FoundSoFar(t, collection, chosen) = direct
    BY <2>2, <2>4, FoundSoFarIs
  <2>6. Discovered(t, collection, chosen)
    BY <1>2, <2>2 DEF Discovered
  <2>7. QED
    BY <1>2, <2>1, <2>2, <2>3, <2>5, <2>6 DEF FoundOnQuiet
<1>4. CASE scan.cursor # Pairs(scan)
  <2> DEFINE dir == scan.queue[(scan.cursor \div Len(DirectSets)) + 1]
             set == DirectSets[(scan.cursor % Len(DirectSets)) + 1]
             u   == AdmitDirect(collection, scan, dir, set)
             t   == [u EXCEPT !.cursor = scan.cursor + 1]
  <2>1. /\ dir \in Dir /\ set.release \in Nat /\ scan.cursor \in Nat
        /\ (scan.cursor % Len(DirectSets)) + 1 \in DOMAIN DirectSets
        /\ scan.cursor \div Len(DirectSets) \in Nat
        /\ scan.cursor \div Len(DirectSets) < Len(scan.queue)
    BY <1>1, <1>4, PairIs
  <2>2. dir \in DirsFrom(chosen)
    <3>1. (scan.cursor \div Len(DirectSets)) + 1 \in 1..Len(scan.queue)
      BY <1>1, <2>1
    <3>2. QED
      BY <1>2, <3>1
  <2>3. VerifiedDirect(collection, dir, set) => set.release \in direct
    BY <2>1, <2>2 DEF DirectOn
  <2>4. scan' = t /\ u \in Scans
    BY <1>4, DirectStepIs
  <2>5. t.cursor = scan.cursor + 1 /\ t.queue = scan.queue =>
          DirectSoFar(t, collection) = DirectSoFar(scan, collection)
            \cup (IF VerifiedDirect(collection, dir, set) THEN {set.release} ELSE {})
    BY <2>1, DirectSoFarGrows
  <2> HIDE DEF dir, set
  <2>6. AddsDirect(scan, u, collection, dir, set)
    BY <2>1, AdmitDirectIs
  <2> HIDE DEF u
  <2>7. /\ t.phase = u.phase /\ t.queue = u.queue /\ t.candidates = u.candidates
        /\ t.cursor = scan.cursor + 1 /\ t.releases = u.releases /\ t.containers = u.containers
    BY <2>1, <2>4, MovedIs
  <2> HIDE DEF t
  <2>8. /\ t.phase = "direct_sets" /\ t.queue = scan.queue /\ t.candidates = scan.candidates
        /\ t.containers = scan.containers
        /\ Found(t.releases) = Found(scan.releases)
             \cup (IF VerifiedDirect(collection, dir, set) THEN {set.release} ELSE {})
        /\ \A i \in DOMAIN t.releases :
             \/ \E j \in DOMAIN scan.releases : t.releases[i] = scan.releases[j]
             \/ /\ t.releases[i].layout = "verified_directory"
                /\ t.releases[i].release = set.release
                /\ VerifiedDirect(collection, dir, set)
    BY <1>1, <2>6, <2>7 DEF AddsDirect, Elsewhere
  <2>9. Found(t.releases) = FoundSoFar(t, collection, chosen)
    <3>1. FoundSoFar(t, collection, chosen) = DirectSoFar(t, collection)
      BY <2>8, FoundSoFarIs
    <3>2. QED
      BY <1>2, <2>5, <2>7, <2>8, <3>1
  <2>10. ASSUME NEW i \in DOMAIN t.releases
         PROVE  AsFound(t.releases[i], collection, chosen)
    <3>1. CASE \E j \in DOMAIN scan.releases : t.releases[i] = scan.releases[j]
      BY <1>2, <3>1
    <3>2. CASE /\ t.releases[i].layout = "verified_directory"
               /\ t.releases[i].release \in direct
      BY <3>2 DEF AsFound
    <3>3. QED
      BY <2>3, <2>8, <3>1, <3>2
  <2>11. Discovered(t, collection, chosen)
    BY <1>2, <2>8 DEF Discovered
  <2>12. QED
    BY <1>2, <2>4, <2>8, <2>9, <2>10, <2>11 DEF FoundOnQuiet
<1>5. QED
  BY <1>3, <1>4

(* One more container set.                                                 *)
LEMMA ContainersGrow ==
  ASSUME NEW d, NEW those, NEW n \in Nat
  PROVE  ContainersOn(d, those, n + 1) =
           ContainersOn(d, those, n)
             \cup (IF VerifiedContainers(d, those, ContainerSets[n + 1])
                   THEN {ContainerSets[n + 1].release} ELSE {})
<1> DEFINE Ok(k) == VerifiedContainers(d, those, ContainerSets[k])
           Rel(k) == ContainerSets[k].release
           some == {k \in 1..n : Ok(k)}
           more == {k \in 1..(n + 1) : Ok(k)}
<1>1. 1..(n + 1) = 1..n \cup {n + 1}
  OBVIOUS
<1>2. ContainersOn(d, those, n) = {Rel(k) : k \in some}
      /\ ContainersOn(d, those, n + 1) = {Rel(k) : k \in more}
  BY DEF ContainersOn
<1> HIDE DEF Ok, Rel
<1>3. more = some \cup (IF Ok(n + 1) THEN {n + 1} ELSE {})
  BY <1>1
<1> HIDE DEF some, more
<1>4. CASE Ok(n + 1)
  <2>1. {Rel(k) : k \in more} = {Rel(k) : k \in some} \cup {Rel(n + 1)}
    BY <1>3, <1>4
  <2>2. QED
    BY <1>2, <1>4, <2>1 DEF Ok, Rel
<1>5. CASE ~Ok(n + 1)
  <2>1. more = some
    BY <1>3, <1>5
  <2>2. QED
    BY <1>2, <1>5, <2>1 DEF Ok
<1>6. QED
  BY <1>4, <1>5

LEMMA VerifyContainerSetOnQuiet ==
  ASSUME ScanOK(scan), VerifyContainerSet, FoundOnQuiet(scan, collection, chosen)
  PROVE  FoundOnQuiet(scan', collection, chosen)
<1> DEFINE direct == DirectOn(collection, DirsFrom(chosen))
           those  == On(collection, chosen)
           all    == ContainersOn(collection, those, Len(ContainerSets))
<1>1. scan \in Scans /\ ScanShape(scan) /\ scan.phase = "container_sets"
  BY DEF ScanOK, ScanShape, VerifyContainerSet
<1>2. /\ scan.candidates = those
      /\ {scan.queue[i] : i \in 1..Len(scan.queue)} = DirsFrom(chosen)
      /\ Found(scan.releases) = direct \cup ContainersOn(collection, those, scan.cursor)
      /\ \A i \in DOMAIN scan.releases : AsFound(scan.releases[i], collection, chosen)
      /\ \A f \in scan.containers : ArchiveOf[collection[f]] = 0
  <2>1. /\ scan.phase # "discovering"
        /\ FoundSoFar(scan, collection, chosen) =
             direct \cup ContainersOn(collection, those, scan.cursor)
    BY <1>1, FoundSoFarIs
  <2>2. QED
    BY <1>1, <2>1 DEF FoundOnQuiet, Discovered
<1>3. CASE scan.cursor = Len(ContainerSets)
  <2> DEFINE t == scan'
  <2>1. /\ t.phase = "candidates" /\ t.queue = scan.queue
        /\ t.candidates = scan.candidates /\ t.left = scan.candidates
        /\ t.containers = scan.containers
        /\ SameReleases(scan.releases, t.releases)
    BY <1>3, CandidatesStart
  <2> HIDE DEF t
  <2>2. ArchivesOn(collection, t.candidates \ t.left) = {}
    BY <2>1 DEF ArchivesOn
  <2>3. FoundSoFar(t, collection, chosen) = direct \cup all
    BY <2>1, <2>2, FoundSoFarIs
  <2>4. /\ Found(t.releases) = Found(scan.releases)
        /\ \A n \in DOMAIN t.releases :
             \E i \in DOMAIN scan.releases : t.releases[n] = scan.releases[i]
    BY <2>1 DEF SameReleases
  <2>5. Discovered(t, collection, chosen)
    BY <1>2, <2>1 DEF Discovered
  <2>6. \A n \in DOMAIN t.releases : AsFound(t.releases[n], collection, chosen)
    BY <1>2, <2>4
  <2>7. Found(t.releases) = FoundSoFar(t, collection, chosen)
    BY <1>2, <1>3, <2>3, <2>4
  <2>8. QED
    BY <1>2, <2>1, <2>5, <2>6, <2>7 DEF FoundOnQuiet, t
<1>4. CASE scan.cursor # Len(ContainerSets)
  <2> DEFINE set == ContainerSets[scan.cursor + 1]
             u   == AdmitContainers(collection, scan, set)
             t   == [u EXCEPT !.cursor = scan.cursor + 1]
  <2>1. /\ set.release \in Nat /\ scan.cursor \in Nat /\ scan.cursor < Len(ContainerSets)
        /\ scan.cursor + 1 \in DOMAIN ContainerSets
        /\ scan' = t /\ u \in Scans
    BY <1>4, ContainerStepIs
  <2>2. \A i \in DOMAIN set.disks : ArchiveOf[set.disks[i]] = 0
    BY <2>1, SetsAssumption
  <2>3. VerifiedContainers(collection, those, set) => set.release \in all
    <3>1. scan.cursor + 1 \in 1..Len(ContainerSets)
      BY <2>1, SetsAssumption
    <3>2. QED
      BY <3>1 DEF ContainersOn
  <2>4. ContainersOn(collection, those, scan.cursor + 1) =
          ContainersOn(collection, those, scan.cursor)
            \cup (IF VerifiedContainers(collection, those, set) THEN {set.release} ELSE {})
    BY <2>1, ContainersGrow
  <2> HIDE DEF set
  <2>5. /\ u.phase = scan.phase /\ u.queue = scan.queue /\ u.candidates = scan.candidates
        /\ \A f \in u.containers \ scan.containers :
             \E i \in DOMAIN set.disks : collection[f] = set.disks[i]
        /\ Found(u.releases) = Found(scan.releases) \cup
             (IF VerifiedContainers(collection, scan.candidates, set) THEN {set.release} ELSE {})
        /\ \A i \in DOMAIN u.releases :
             \/ \E j \in DOMAIN scan.releases : u.releases[i] = scan.releases[j]
             \/ /\ u.releases[i].layout = "verified_container_set"
                /\ u.releases[i].release = set.release
                /\ VerifiedContainers(collection, scan.candidates, set)
                /\ set.release \notin Found(scan.releases)
    BY <2>1, AdmitContainersIs
  <2> HIDE DEF u
  <2>6. /\ t.phase = u.phase /\ t.queue = u.queue /\ t.candidates = u.candidates
        /\ t.cursor = scan.cursor + 1 /\ t.releases = u.releases /\ t.containers = u.containers
    BY <2>1, MovedIs
  <2> HIDE DEF t
  <2>7. Found(t.releases) = FoundSoFar(t, collection, chosen)
    <3>1. FoundSoFar(t, collection, chosen) =
            direct \cup ContainersOn(collection, those, scan.cursor + 1)
      BY <1>1, <2>5, <2>6, FoundSoFarIs
    <3>2. QED
      BY <1>2, <2>4, <2>5, <2>6, <3>1
  <2>8. ASSUME NEW i \in DOMAIN t.releases
        PROVE  AsFound(t.releases[i], collection, chosen)
    <3>1. CASE \E j \in DOMAIN scan.releases : t.releases[i] = scan.releases[j]
      BY <1>2, <3>1
    <3>2. CASE /\ t.releases[i].layout = "verified_container_set"
               /\ t.releases[i].release \in all
               /\ t.releases[i].release \notin direct
      BY <3>2 DEF AsFound
    <3>3. QED
      BY <1>2, <2>3, <2>5, <2>6, <3>1, <3>2
  <2>9. \A f \in t.containers : ArchiveOf[collection[f]] = 0
    BY <1>2, <2>2, <2>5, <2>6
  <2>10. Discovered(t, collection, chosen)
    BY <1>1, <1>2, <2>5, <2>6 DEF Discovered
  <2>11. QED
    BY <1>1, <2>1, <2>5, <2>6, <2>7, <2>8, <2>9, <2>10 DEF FoundOnQuiet
<1>5. QED
  BY <1>3, <1>4

(* A candidate more: an archive it holds is found, in its first copy.      *)
LEMMA TakenOnQuiet ==
  ASSUME NEW s, NEW t, NEW d, NEW start, FoundOnQuiet(s, d, start), s.phase = "candidates",
         t.phase = s.phase, t.queue = s.queue, t.candidates = s.candidates,
         t.containers = s.containers,
         NEW file \in s.left, s.left \subseteq s.candidates, t.left = s.left \ {file},
         Found(t.releases) = Found(s.releases) \cup ({ArchiveOf[d[file]]} \ {0}),
         \A i \in DOMAIN t.releases :
           \/ \E j \in DOMAIN s.releases : t.releases[i] = s.releases[j]
           \/ AsFound(t.releases[i], d, start)
  PROVE  FoundOnQuiet(t, d, start)
<1> DEFINE direct == DirectOn(d, DirsFrom(start))
           all    == ContainersOn(d, On(d, start), Len(ContainerSets))
<1>1. Discovered(t, d, start)
  BY DEF FoundOnQuiet, Discovered
<1>2. t.candidates \ t.left = (s.candidates \ s.left) \cup {file}
  OBVIOUS
<1>3. ArchivesOn(d, t.candidates \ t.left) =
        ArchivesOn(d, s.candidates \ s.left) \cup ({ArchiveOf[d[file]]} \ {0})
  BY <1>2 DEF ArchivesOn
<1>4. FoundSoFar(t, d, start) = FoundSoFar(s, d, start) \cup ({ArchiveOf[d[file]]} \ {0})
  <2>1. FoundSoFar(s, d, start) = direct \cup all \cup ArchivesOn(d, s.candidates \ s.left)
    BY FoundSoFarIs
  <2>2. FoundSoFar(t, d, start) = direct \cup all \cup ArchivesOn(d, t.candidates \ t.left)
    BY FoundSoFarIs
  <2>3. QED
    BY <1>3, <2>1, <2>2
<1>5. Found(t.releases) = FoundSoFar(t, d, start)
  BY <1>4 DEF FoundOnQuiet
<1>6. QED
  BY <1>1, <1>5 DEF FoundOnQuiet

LEMMA QuietCandidates ==
  ASSUME NEW s, ScanOK(s), NEW d, NEW start, FoundOnQuiet(s, d, start), s.phase = "candidates"
  PROVE  /\ s \in Scans /\ Distinct(s.releases) /\ s.candidates = On(d, start)
         /\ s.left \subseteq s.candidates /\ s.left \in SUBSET File
         /\ \A f \in s.containers : ArchiveOf[d[f]] = 0
         /\ \A f \in s.left : f \in File /\ d[f] # Gone
  BY DEF ScanOK, ScanShape, Scans, FoundOnQuiet, Discovered, On

LEMMA InspectOnQuiet ==
  ASSUME ScanOK(scan), collection \in [File -> Content \cup {Gone}], InspectCandidate,
         FoundOnQuiet(scan, collection, chosen)
  PROVE  FoundOnQuiet(scan', collection, chosen)
<1> DEFINE file == FirstLeft(scan)
           size == SizeOf[collection[file]]
           outer == IF size \in OuterSizes THEN {"size_candidates"} ELSE {}
           kinds == outer \cup (IF size \in LeafSizes THEN {"leaf_size"} ELSE {})
<1>1. scan.phase = "candidates" /\ scan.left # {} /\ scan.inspected = NoFile
  BY DEF InspectCandidate
<1>2. /\ scan \in Scans /\ Distinct(scan.releases)
      /\ scan.left \subseteq scan.candidates /\ scan.left \in SUBSET File
      /\ \A f \in scan.containers : ArchiveOf[collection[f]] = 0
      /\ \A f \in scan.left : f \in File /\ collection[f] # Gone
  BY <1>1, QuietCandidates
<1>3. file \in scan.left /\ file \in File /\ collection[file] # Gone
  BY <1>1, <1>2, FirstLeftIsLeast DEF Least
<1>4. collection[file] \in Content
  BY <1>3
<1>5. kinds = {} => ArchiveOf[collection[file]] = 0
  BY <1>4 DEF OuterSizes
<1>6. scan' = IF collection[file] = Gone THEN Finished(scan, file, {"unreadable"})
              ELSE IF file \in scan.containers THEN Finished(scan, file, {})
              ELSE IF kinds = {} THEN Finished(scan, file, {"size_rejected"})
              ELSE [scan EXCEPT !.inspected = file, !.size = size, !.report = Count(@, kinds)]
  BY DEF InspectCandidate
<1> HIDE DEF file, size, outer, kinds
<1>7. CASE kinds # {} /\ file \notin scan.containers
  <2> DEFINE t == [scan EXCEPT !.inspected = file, !.size = size, !.report = Count(@, kinds)]
  <2>1. scan' = t
    BY <1>3, <1>6, <1>7
  <2>2. /\ t.phase = scan.phase /\ t.queue = scan.queue /\ t.candidates = scan.candidates
        /\ t.left = scan.left /\ t.releases = scan.releases /\ t.containers = scan.containers
    BY <1>2 DEF Scans
  <2> HIDE DEF t
  <2>3. FoundSoFar(t, collection, chosen) = FoundSoFar(scan, collection, chosen)
    BY <1>1, <2>2, FoundSoFarIs
  <2>4. Discovered(t, collection, chosen)
    BY <1>1, <2>2 DEF FoundOnQuiet, Discovered
  <2>5. QED
    BY <1>1, <2>1, <2>2, <2>3, <2>4 DEF FoundOnQuiet
<1>8. ASSUME NEW cs, scan' = Finished(scan, file, cs), ArchiveOf[collection[file]] = 0
      PROVE  FoundOnQuiet(scan', collection, chosen)
  <2> DEFINE t == Finished(scan, file, cs)
  <2>1. /\ Elsewhere(scan, t) /\ t.left = scan.left \ {file}
        /\ SameReleases(scan.releases, t.releases)
    BY <1>2, <1>3, FinishedIs
  <2> HIDE DEF t
  <2>2. /\ t.phase = scan.phase /\ t.queue = scan.queue /\ t.candidates = scan.candidates
        /\ t.containers = scan.containers /\ Found(t.releases) = Found(scan.releases)
        /\ \A i \in DOMAIN t.releases :
             \E j \in DOMAIN scan.releases : t.releases[i] = scan.releases[j]
    BY <2>1 DEF Elsewhere, SameReleases
  <2>3. Found(t.releases) = Found(scan.releases) \cup ({ArchiveOf[collection[file]]} \ {0})
    BY <1>8, <2>2
  <2>4. FoundOnQuiet(t, collection, chosen)
    BY <1>1, <1>2, <1>3, <2>1, <2>2, <2>3, TakenOnQuiet
  <2>5. QED
    BY <1>8, <2>4 DEF t
<1>9. CASE file \in scan.containers
  <2>1. scan' = Finished(scan, file, {}) /\ ArchiveOf[collection[file]] = 0
    BY <1>2, <1>3, <1>6, <1>9
  <2>2. QED
    BY <1>8, <2>1
<1>10. CASE kinds = {} /\ file \notin scan.containers
  <2>1. scan' = Finished(scan, file, {"size_rejected"}) /\ ArchiveOf[collection[file]] = 0
    BY <1>3, <1>5, <1>6, <1>10
  <2>2. QED
    BY <1>8, <2>1
<1>11. QED
  BY <1>7, <1>9, <1>10

(* A first copy is a release more, and another copy is none.               *)
LEMMA AdmitArchiveIs ==
  ASSUME NEW u \in Scans, Distinct(u.releases), NEW file \in u.left, NEW release \in Nat
  PROVE  LET t        == AdmitArchive(u, file, release)
             admitted == [release |-> release, layout |-> "zip_archive", path |-> file]
         IN  /\ Elsewhere(u, t) /\ t.left = u.left \ {file}
             /\ Found(t.releases) = Found(u.releases) \cup {release}
             /\ \A i \in DOMAIN t.releases :
                  \/ \E j \in DOMAIN u.releases : t.releases[i] = u.releases[j]
                  \/ release \notin Found(u.releases) /\ t.releases[i] = admitted
<1> DEFINE admitted == [release |-> release, layout |-> "zip_archive", path |-> file]
           v == [u EXCEPT !.releases = Append(@, admitted)]
<1>1. u.left \in SUBSET File /\ u.left \subseteq File /\ u.releases \in Seq(FoundReleases)
  BY DEF Scans
<1>2. CASE release \in Found(u.releases)
  <2> DEFINE t == Finished(u, file, {"verified", "duplicates"})
  <2>1. AdmitArchive(u, file, release) = t
    BY <1>2 DEF AdmitArchive
  <2>2. Elsewhere(u, t) /\ t.left = u.left \ {file} /\ SameReleases(u.releases, t.releases)
    BY FinishedIs
  <2> HIDE DEF t
  <2>3. QED
    BY <1>2, <2>1, <2>2 DEF SameReleases
<1>3. CASE release \notin Found(u.releases)
  <2> DEFINE t == Finished(v, file, {"verified"})
             rs == Append(u.releases, admitted)
  <2>1. AdmitArchive(u, file, release) = t
    BY <1>3 DEF AdmitArchive
  <2>2. admitted \in FoundReleases /\ admitted.release = release
    BY <1>1 DEF FoundReleases, FoundLayouts
  <2> HIDE DEF admitted
  <2>3. /\ rs \in Seq(FoundReleases) /\ Distinct(rs)
        /\ Found(rs) = Found(u.releases) \cup {release}
        /\ \A i \in DOMAIN rs :
             rs[i] = admitted \/ \E j \in DOMAIN u.releases : rs[i] = u.releases[j]
    BY <1>1, <1>3, <2>2, AppendAdds
  <2>4. v = [u EXCEPT !.releases = rs]
    OBVIOUS
  <2> HIDE DEF rs, v
  <2>5. v \in Scans /\ Elsewhere(u, v) /\ v.left = u.left /\ v.releases = rs
    BY <2>3, <2>4 DEF Scans, Elsewhere
  <2>6. Elsewhere(v, t) /\ t.left = v.left \ {file} /\ SameReleases(v.releases, t.releases)
    BY <2>3, <2>5, FinishedIs
  <2> HIDE DEF t
  <2>7. Elsewhere(u, t) /\ t.left = u.left \ {file}
    BY <2>5, <2>6 DEF Elsewhere
  <2>8. /\ Found(t.releases) = Found(rs)
        /\ \A n \in DOMAIN t.releases : \E i \in DOMAIN rs : t.releases[n] = rs[i]
    BY <2>5, <2>6 DEF SameReleases
  <2>9. QED
    BY <1>3, <2>1, <2>3, <2>7, <2>8 DEF admitted
<1>4. QED
  BY <1>2, <1>3

(* Every copy of the archive that was taken before would have been found.  *)
LEMMA FirstCopyIsLeast ==
  ASSUME ScanOK(scan), FoundOnQuiet(scan, collection, chosen), scan.phase = "candidates",
         scan.inspected # NoFile, NEW release, release # 0,
         ArchiveOf[collection[scan.inspected]] = release,
         release \notin Found(scan.releases)
  PROVE  AsFound([release |-> release, layout |-> "zip_archive", path |-> scan.inspected],
                 collection, chosen)
<1> DEFINE file == scan.inspected
           direct == DirectOn(collection, DirsFrom(chosen))
           all    == ContainersOn(collection, On(collection, chosen), Len(ContainerSets))
           copies == {f \in On(collection, chosen) : ArchiveOf[collection[f]] = release}
<1>1. /\ scan.candidates = On(collection, chosen) /\ scan.left \subseteq scan.candidates
  BY QuietCandidates
<1>2. /\ file \in scan.left /\ \A other \in scan.left : file <= other
  BY DEF ScanOK, InOrder, Least
<1>3. Found(scan.releases) =
        direct \cup all \cup ArchivesOn(collection, scan.candidates \ scan.left)
  BY FoundSoFarIs DEF FoundOnQuiet
<1>4. release \notin direct \cup all
  BY <1>3
<1>5. ASSUME NEW f \in copies PROVE f \in scan.left
  <2>1. CASE f \in scan.candidates \ scan.left
    <3>1. release \in ArchivesOn(collection, scan.candidates \ scan.left)
      BY <1>5, <2>1 DEF ArchivesOn
    <3>2. QED
      BY <1>3, <3>1
  <2>2. QED
    BY <1>1, <1>5, <2>1
<1>6. file \in copies
  BY <1>1, <1>2
<1>7. Least(file, copies)
  BY <1>2, <1>5, <1>6 DEF Least
<1> DEFINE admitted == [release |-> release, layout |-> "zip_archive", path |-> file]
<1>8. /\ admitted.release = release /\ admitted.layout = "zip_archive" /\ admitted.path = file
  OBVIOUS
<1> HIDE DEF admitted, file
<1>9. AsFound(admitted, collection, chosen)
  BY <1>4, <1>7, <1>8 DEF AsFound
<1>10. QED
  BY <1>9 DEF admitted, file

LEMMA HashOnQuiet ==
  ASSUME ScanOK(scan), collection \in [File -> Content \cup {Gone}], HashCandidate,
         FoundOnQuiet(scan, collection, chosen)
  PROVE  FoundOnQuiet(scan', collection, chosen)
<1> DEFINE file == scan.inspected
           content == collection[file]
           u == ReadCandidate
<1>1. file # NoFile /\ scan.phase = "candidates" /\ file \in scan.left
  <2>1. scan.inspected # NoFile
    BY DEF HashCandidate
  <2>2. scan.inspected \in scan.left \cup {NoFile} /\ scan.phase # "candidates" => scan.left = {}
    BY DEF ScanOK, ScanShape
  <2>3. QED
    BY <2>1, <2>2 DEF ScanOK, ScanShape
<1>2. /\ scan \in Scans /\ Distinct(scan.releases)
      /\ scan.left \subseteq scan.candidates /\ scan.left \in SUBSET File
      /\ \A f \in scan.left : f \in File /\ collection[f] # Gone
  BY <1>1, QuietCandidates
<1>3. content # Gone /\ content \in Content /\ ArchiveOf[content] \in Nat
  BY <1>1, <1>2, ScannerAssumption
<1>4. /\ u \in Scans /\ Elsewhere(scan, u) /\ u.left = scan.left /\ u.releases = scan.releases
  BY <1>2, ReadIs
<1>5. \/ ArchiveOf[content] # 0 /\ scan' = AdmitArchive(u, file, ArchiveOf[content])
      \/ ArchiveOf[content] = 0 /\ scan' = AdmitLeaf(u, file, content)
           /\ content \in ParserLeaf
      \/ ArchiveOf[content] = 0 /\ scan' = Finished(u, file, {"hash_rejected"})
  BY <1>3 DEF HashCandidate, ReadCandidate, HashedCounters
<1>6. ASSUME NEW t, scan' = t, Elsewhere(scan, t), t.left = scan.left \ {file},
             Found(t.releases) = Found(scan.releases) \cup ({ArchiveOf[content]} \ {0}),
             \A i \in DOMAIN t.releases :
               \/ \E j \in DOMAIN scan.releases : t.releases[i] = scan.releases[j]
               \/ AsFound(t.releases[i], collection, chosen)
      PROVE  FoundOnQuiet(scan', collection, chosen)
  <2>1. FoundOnQuiet(t, collection, chosen)
    BY <1>1, <1>2, <1>6, TakenOnQuiet DEF Elsewhere
  <2>2. QED
    BY <1>6, <2>1
<1> HIDE DEF u
<1>7. CASE ArchiveOf[content] # 0 /\ scan' = AdmitArchive(u, file, ArchiveOf[content])
  <2> DEFINE release == ArchiveOf[content]
             t == AdmitArchive(u, file, release)
             admitted == [release |-> release, layout |-> "zip_archive", path |-> file]
  <2>1. /\ Elsewhere(u, t) /\ t.left = u.left \ {file}
        /\ Found(t.releases) = Found(u.releases) \cup {release}
        /\ \A i \in DOMAIN t.releases :
             \/ \E j \in DOMAIN u.releases : t.releases[i] = u.releases[j]
             \/ release \notin Found(u.releases) /\ t.releases[i] = admitted
    BY <1>1, <1>2, <1>3, <1>4, AdmitArchiveIs
  <2>2. release \notin Found(scan.releases) => AsFound(admitted, collection, chosen)
    BY <1>1, <1>7, FirstCopyIsLeast
  <2>3. scan' = t /\ release # 0
    BY <1>7
  <2> HIDE DEF t, admitted
  <2>4. QED
    BY <1>4, <1>6, <2>1, <2>2, <2>3 DEF Elsewhere
<1>8. ASSUME ArchiveOf[content] = 0, NEW v \in Scans, Elsewhere(scan, v), v.left = scan.left,
             v.releases = scan.releases, NEW cs, scan' = Finished(v, file, cs)
      PROVE  FoundOnQuiet(scan', collection, chosen)
  <2> DEFINE t == Finished(v, file, cs)
  <2>1. Elsewhere(v, t) /\ t.left = v.left \ {file} /\ SameReleases(v.releases, t.releases)
    BY <1>1, <1>2, <1>8, FinishedIs
  <2>2. scan' = t
    BY <1>8
  <2> HIDE DEF t
  <2>3. Elsewhere(scan, t) /\ t.left = scan.left \ {file}
    BY <1>8, <2>1 DEF Elsewhere
  <2>4. /\ Found(t.releases) = Found(scan.releases)
        /\ \A i \in DOMAIN t.releases :
             \E j \in DOMAIN scan.releases : t.releases[i] = scan.releases[j]
    BY <1>8, <2>1 DEF SameReleases
  <2>5. QED
    BY <1>6, <1>8, <2>2, <2>3, <2>4
<1>9. CASE ArchiveOf[content] = 0 /\ content \in ParserLeaf /\ scan' = AdmitLeaf(u, file, content)
  <2> DEFINE v == [u EXCEPT !.leaves = @ \cup {content}]
  <2>1. v \in Scans /\ Elsewhere(u, v) /\ v.left = u.left /\ v.releases = u.releases
    BY <1>4, <1>9 DEF Scans, Elsewhere
  <2>2. \E cs : scan' = Finished(v, file, cs)
    BY <1>9 DEF AdmitLeaf
  <2> HIDE DEF v
  <2>3. Elsewhere(scan, v) /\ v.left = scan.left /\ v.releases = scan.releases
    BY <1>4, <2>1 DEF Elsewhere
  <2>4. QED
    BY <1>8, <1>9, <2>1, <2>2, <2>3
<1>10. CASE ArchiveOf[content] = 0 /\ scan' = Finished(u, file, {"hash_rejected"})
  BY <1>4, <1>8, <1>10
<1>11. QED
  BY <1>5, <1>7, <1>9, <1>10

-----------------------------------------------------------------------------
(* The invariant                                                           *)

LEMMA ScanInvInit == ScanInit => ScanInv
<1> SUFFICES ASSUME ScanInit PROVE ScanInv
  OBVIOUS
<1> DEFINE r == [c \in Counters |-> 0]
<1>1. /\ chosen \in Sources /\ collection \in [File -> Content \cup {Gone}]
      /\ changes \in 0..MaxChanges /\ disturbed \in BOOLEAN
      /\ scan = StartedAt(chosen, collection)
  <2>1. /\ chosen \in Sources /\ collection \in [File -> Content \cup {Gone}]
        /\ scan = StartedAt(chosen, collection) /\ changes = 0 /\ disturbed = FALSE
    BY DEF ScanInit
  <2>2. changes \in 0..MaxChanges
    BY <2>1, ScannerAssumption
  <2>3. disturbed \in BOOLEAN
    BY <2>1
  <2>4. QED
    BY <2>1, <2>2, <2>3
<1>2. /\ r \in [Counters -> Nat] /\ r["hashed"] = 0 /\ r["hash_rejected"] = 0
      /\ r["verified"] = 0 /\ r["verified_leaves"] = 0 /\ r["duplicates"] = 0
      /\ r["duplicate_leaves"] = 0 /\ r["direct_sets"] = 0 /\ r["duplicate_direct_sets"] = 0
      /\ r["container_sets"] = 0 /\ r["size_rejected"] = 0 /\ r["unreadable"] = 0
  BY DEF Counters
<1>3. /\ scan.phase = IF chosen = Root THEN "discovering" ELSE "direct_sets"
      /\ scan.queue = IF chosen = Root THEN <<Root>> ELSE << >>
      /\ scan.candidates = IF chosen \in File /\ collection[chosen] # Gone THEN {chosen} ELSE {}
      /\ scan.opened = 0 /\ scan.listing = {} /\ scan.left = {} /\ scan.cursor = 0
      /\ scan.inspected = NoFile /\ scan.size = 0 /\ scan.releases = << >> /\ scan.leaves = {}
      /\ scan.bound = {} /\ scan.containers = {} /\ scan.report = r
  BY <1>1 DEF StartedAt
<1> HIDE DEF r
<1>4. Root \in Dir /\ Root \notin File /\ chosen \in {Root, NoFile} \cup File
  BY <1>1, ScannerAssumption
<1>5. /\ scan.queue \in Seq(Dir) /\ Len(scan.queue) \in Nat
      /\ {scan.queue[i] : i \in 1..Len(scan.queue)} = DirsFrom(chosen) \cap {Root}
  <2>1. CASE chosen = Root
    BY <1>3, <1>4, <2>1 DEF DirsFrom
  <2>2. CASE chosen # Root
    BY <1>3, <1>4, <2>2 DEF DirsFrom
  <2>3. QED
    BY <2>1, <2>2
<1>6. scan \in Scans
  <2>1. scan.candidates \in SUBSET File
    BY <1>3
  <2> DEFINE phase == IF chosen = Root THEN "discovering" ELSE "direct_sets"
             queue == IF chosen = Root THEN <<Root>> ELSE << >>
             those == IF chosen \in File /\ collection[chosen] # Gone THEN {chosen} ELSE {}
  <2>2. scan = [phase |-> phase, queue |-> queue, opened |-> 0, listing |-> {},
                candidates |-> those, left |-> {}, cursor |-> 0,
                inspected |-> NoFile, size |-> 0, releases |-> << >>, leaves |-> {},
                bound |-> {}, containers |-> {}, report |-> r]
    BY <1>1 DEF StartedAt, r
  <2>3. /\ phase \in {"discovering", "direct_sets", "container_sets", "candidates"}
        /\ queue \in Seq(Dir) /\ those \in SUBSET File
    BY <1>3, <1>5, <2>1
  <2> HIDE DEF phase, queue, those
  <2>4. << >> \in Seq(FoundReleases)
    OBVIOUS
  <2>5. QED
    BY <1>2, <2>2, <2>3, <2>4 DEF Scans
<1>7. 0 <= Pairs(scan)
  BY <1>5, SetsAssumption DEF Pairs
<1>8. ScanShape(scan)
  BY <1>3, <1>5, <1>6, <1>7, SetsAssumption DEF ScanShape
<1>9. Counted(r) = 0
  BY <1>2 DEF Counted
<1>10. CountsAgree(scan) /\ Distinct(scan.releases) /\ InOrder(scan)
  BY <1>2, <1>3, <1>9 DEF CountsAgree, Distinct, InOrder, Done
<1>11. LayoutsAddUp(scan)
  <2>1. \A tag : InLayout(scan.releases, tag) = {}
    BY <1>3 DEF InLayout
  <2>2. IsFiniteSet({}) /\ Cardinality({}) = 0
    BY FS_EmptySet
  <2>3. /\ Cardinality(InLayout(scan.releases, "zip_archive")) = 0
        /\ Cardinality(InLayout(scan.releases, "verified_directory")) = 0
        /\ Cardinality(InLayout(scan.releases, "verified_container_set")) = 0
        /\ Cardinality(scan.leaves) = 0 /\ IsFiniteSet(scan.leaves)
    BY <1>3, <2>1, <2>2
  <2>4. QED
    BY <1>2, <1>3, <2>2, <2>3 DEF LayoutsAddUp
<1>12. ScanOK(scan)
  BY <1>8, <1>10, <1>11 DEF ScanOK
<1>13. FoundOnQuiet(scan, collection, chosen)
  <2>1. Found(scan.releases) = {}
    BY <1>3 DEF Found
  <2>2. CASE chosen = Root
    <3>1. scan.phase = "discovering" /\ scan.queue = <<Root>> /\ scan.candidates = {}
      BY <1>3, <1>4, <2>2
    <3>2. Opened(scan) = {}
      BY <1>3 DEF Opened
    <3>3. Discovered(scan, collection, chosen)
      BY <2>2, <3>1, <3>2 DEF Discovered
    <3>4. FoundSoFar(scan, collection, chosen) = {}
      BY <3>1, FoundSoFarIs
    <3>5. QED
      BY <1>3, <2>1, <3>1, <3>3, <3>4 DEF FoundOnQuiet
  <2>3. CASE chosen # Root
    <3>1. scan.phase = "direct_sets"
      BY <1>3, <2>3
    <3>2. scan.candidates = On(collection, chosen)
      BY <1>3, <2>3 DEF On
    <3>3. Discovered(scan, collection, chosen)
      BY <1>5, <2>3, <3>1, <3>2 DEF Discovered, DirsFrom
    <3>4. DirectSoFar(scan, collection) = {}
      BY <1>3 DEF DirectSoFar
    <3>5. FoundSoFar(scan, collection, chosen) = {}
      BY <3>1, <3>4, FoundSoFarIs
    <3>6. QED
      BY <1>3, <2>1, <3>1, <3>3, <3>5 DEF FoundOnQuiet
  <2>4. QED
    BY <2>2, <2>3
<1>14. QED
  BY <1>1, <1>12, <1>13 DEF ScanInv

LEMMA ScanOnQuiet ==
  ASSUME ScanOK(scan), collection \in [File -> Content \cup {Gone}], Scan, ~disturbed',
         FoundOnQuiet(scan, collection, chosen)
  PROVE  FoundOnQuiet(scan', collection, chosen)
  BY OpenDirectoryOnQuiet, VisitEntryOnQuiet, FinishDiscoveryOnQuiet, VerifyDirectoryOnQuiet,
     VerifyContainerSetOnQuiet, InspectOnQuiet, HashOnQuiet DEF Scan

(* A scan does not write: what it reads is the same before and after.      *)
LEMMA ScanOnlyReads ==
  ASSUME Scan, disturbed \in BOOLEAN
  PROVE  /\ UNCHANGED <<chosen, collection, changes>>
         /\ disturbed' \in BOOLEAN
         /\ disturbed => disturbed'
<1>1. CASE OpenDirectory
  BY <1>1, Zenon DEF OpenDirectory
<1>2. CASE VisitEntry
  BY <1>2, Zenon DEF VisitEntry
<1>3. CASE FinishDiscovery \/ VerifyDirectory \/ VerifyContainerSet \/ InspectCandidate
             \/ HashCandidate
  BY <1>3, Zenon DEF FinishDiscovery, VerifyDirectory, VerifyContainerSet, InspectCandidate,
                     HashCandidate
<1>4. QED
  BY <1>1, <1>2, <1>3 DEF Scan

LEMMA ScanInvNext == ScanInv /\ [ScanNext]_scanVars => ScanInv'
<1> SUFFICES ASSUME ScanInv, [ScanNext]_scanVars PROVE ScanInv'
  OBVIOUS
<1>1. /\ chosen \in Sources /\ collection \in [File -> Content \cup {Gone}]
      /\ changes \in 0..MaxChanges /\ disturbed \in BOOLEAN /\ ScanOK(scan)
      /\ ~disturbed => FoundOnQuiet(scan, collection, chosen)
  BY DEF ScanInv
<1>2. CASE Scan
  <2>1. ScanOK(scan')
    BY <1>1, <1>2, ScanKeeps
  <2>2. /\ UNCHANGED <<chosen, collection, changes>>
        /\ disturbed' \in BOOLEAN
        /\ disturbed => disturbed'
    BY <1>1, <1>2, ScanOnlyReads
  <2>3. ~disturbed' => FoundOnQuiet(scan', collection, chosen)
    BY <1>1, <1>2, <2>2, ScanOnQuiet
  <2>4. QED
    BY <1>1, <2>1, <2>2, <2>3 DEF ScanInv
<1>3. CASE ReplaceEntry
  <2>1. changes < MaxChanges /\ changes' = changes + 1 /\ disturbed' = TRUE
        /\ chosen' = chosen /\ scan' = scan
    BY <1>3 DEF ReplaceEntry
  <2>2. collection' \in [File -> Content \cup {Gone}]
    <3>1. PICK f \in File : \E content \in MayHold[f] \ {collection[f]} :
                              collection' = [collection EXCEPT ![f] = content]
      BY <1>3 DEF ReplaceEntry
    <3>2. PICK content \in MayHold[f] : collection' = [collection EXCEPT ![f] = content]
      BY <3>1
    <3>3. content \in Content \cup {Gone}
      BY ScannerAssumption
    <3>4. QED
      BY <1>1, <3>2, <3>3
  <2>3. changes' \in 0..MaxChanges
    BY <1>1, <2>1, ScannerAssumption
  <2>4. QED
    BY <1>1, <2>1, <2>2, <2>3 DEF ScanInv
<1>4. CASE Finish \/ UNCHANGED scanVars
  <2>1. UNCHANGED scanVars
    BY <1>4 DEF Finish
  <2>2. QED
    BY <1>1, <2>1 DEF ScanInv, scanVars
<1>5. QED
  BY <1>2, <1>3, <1>4 DEF ScanNext

(* An identity is a place of a list whose identities are distinct.         *)
LEMMA DistinctCounts ==
  ASSUME NEW rs \in Seq(FoundReleases), Distinct(rs)
  PROVE  Cardinality(Found(rs)) = Len(rs)
<1> DEFINE N == Len(rs)
           rel == [i \in 1..N |-> rs[i].release]
<1>1. N \in Nat /\ DOMAIN rs = 1..N /\ Found(rs) = {rs[i].release : i \in 1..N}
  BY DEF Found
<1>2. rel \in Bijection(1..N, Found(rs))
  <2>1. rel \in [1..N -> Found(rs)] /\ \A y \in Found(rs) : \E i \in 1..N : rel[i] = y
    BY <1>1
  <2>2. \A i, j \in 1..N : rel[i] = rel[j] => i = j
    BY <1>1 DEF Distinct
  <2>3. QED
    BY <2>1, <2>2 DEF Bijection, Injection, Surjection, IsInjective
<1>3. IsFiniteSet(1..N) /\ Cardinality(1..N) = N
  BY <1>1, FS_Interval
<1>4. Cardinality(1..N) = Cardinality(Found(rs))
  <2>1. ExistsBijection(1..N, Found(rs))
    BY <1>2 DEF ExistsBijection
  <2>2. QED
    BY <1>3, <2>1, FS_Bijection
<1>5. QED
  BY <1>3, <1>4

LEMMA ScanInvTypes == ScanInv => ScanTypeOK
  BY DEF ScanInv, ScanOK, ScanShape, Scans, ScanTypeOK, FoundReleases

LEMMA ScanInvCounts == ScanInv => EveryCandidateIsCounted
  BY DEF ScanInv, ScanOK, CountsAgree, Counted, EveryCandidateIsCounted

LEMMA ScanInvFirst == ScanInv => ReleasesAreFirstOccurrences
<1> SUFFICES ASSUME ScanInv PROVE ReleasesAreFirstOccurrences
  OBVIOUS
<1> DEFINE r == scan.report
           In(tag) == Cardinality(InLayout(scan.releases, tag))
<1>1. /\ scan.releases \in Seq(FoundReleases) /\ Distinct(scan.releases) /\ LayoutsAddUp(scan)
      /\ r \in [Counters -> Nat]
  BY DEF ScanInv, ScanOK, ScanShape, Scans
<1>2. Cardinality(Found(scan.releases)) = Len(scan.releases)
  BY <1>1, DistinctCounts
<1>3. \A tag : In(tag) \in Nat
  <2> TAKE tag
  <2>1. InLayout(scan.releases, tag) \subseteq DOMAIN scan.releases
    BY DEF InLayout
  <2>2. QED
    BY <1>1, <2>1, FoundTyped, FS_Subset, FS_CardinalityType
<1>4. /\ r["verified"] \in Nat /\ r["duplicates"] \in Nat /\ r["direct_sets"] \in Nat
      /\ r["duplicate_direct_sets"] \in Nat /\ r["verified_leaves"] \in Nat
      /\ r["duplicate_leaves"] \in Nat
  BY <1>1, CountersAreNumbers
<1>5. /\ In("zip_archive") + r["duplicates"] = r["verified"]
      /\ In("verified_directory") + r["duplicate_direct_sets"] = r["direct_sets"]
      /\ In("verified_container_set") <= r["container_sets"]
      /\ Cardinality(scan.leaves) + r["duplicate_leaves"] = r["verified_leaves"]
      /\ Cardinality(scan.leaves) \in Nat
  BY <1>1, FS_CardinalityType DEF LayoutsAddUp
<1> HIDE DEF In, r
<1>6. /\ In("zip_archive") = r["verified"] - r["duplicates"]
      /\ In("verified_directory") = r["direct_sets"] - r["duplicate_direct_sets"]
      /\ In("verified_container_set") <= r["container_sets"]
      /\ Cardinality(scan.leaves) = r["verified_leaves"] - r["duplicate_leaves"]
  BY <1>3, <1>4, <1>5
<1>7. QED
  BY <1>2, <1>6 DEF ReleasesAreFirstOccurrences, InLayout, In, r

(* The definitions by which a finished scan is judged are the same.        *)
LEMMA QuietIsThere ==
  /\ On(collection, chosen) = Scanned /\ DirsFrom(chosen) = ScannedDirs
  /\ DirectOn(collection, DirsFrom(chosen)) = DirectReleases
  /\ ContainersOn(collection, On(collection, chosen), Len(ContainerSets)) = ContainerReleases
<1>1. On(collection, chosen) = Scanned /\ DirsFrom(chosen) = ScannedDirs
  BY DEF On, Scanned, DirsFrom, ScannedDirs
<1>2. ASSUME NEW dir, NEW set
      PROVE  VerifiedDirect(collection, dir, set) <=>
               \A name \in DOMAIN set.members :
                 \E f \in File : /\ ParentOf[f] = dir /\ NameOf[f] = name
                                 /\ collection[f] = set.members[name]
  <2>1. \A name \in DOMAIN set.members :
          (\E f \in MembersIn(collection, dir, set) : NameOf[f] = name) <=>
          (\E f \in File : /\ ParentOf[f] = dir /\ NameOf[f] = name
                           /\ collection[f] = set.members[name])
    BY DEF MembersIn
  <2>2. QED
    BY <2>1 DEF VerifiedDirect
<1>3. DirectOn(collection, DirsFrom(chosen)) = DirectReleases
  <2>1. \A j \in DOMAIN DirectSets :
          (\E dir \in DirsFrom(chosen) : VerifiedDirect(collection, dir, DirectSets[j])) <=>
          (\E dir \in ScannedDirs : \A name \in DOMAIN DirectSets[j].members :
             \E f \in File : /\ ParentOf[f] = dir /\ NameOf[f] = name
                             /\ collection[f] = DirectSets[j].members[name])
    BY <1>1, <1>2
  <2>2. QED
    BY <2>1 DEF DirectOn, DirectReleases
<1>4. ASSUME NEW set
      PROVE  VerifiedContainers(collection, Scanned, set) <=>
               \A i \in DOMAIN set.disks :
                 \E f \in Scanned : {g \in Scanned : collection[g] = set.disks[i]} = {f}
  <2>1. ASSUME NEW i \in DOMAIN set.disks
        PROVE  Cardinality(Copies(collection, Scanned, set.disks[i])) = 1 <=>
               \E f \in Scanned : {g \in Scanned : collection[g] = set.disks[i]} = {f}
    <3> DEFINE copies == {g \in Scanned : collection[g] = set.disks[i]}
    <3>1. Copies(collection, Scanned, set.disks[i]) = copies /\ copies \subseteq Scanned
      BY DEF Copies
    <3>2. IsFiniteSet(copies)
      <4>1. copies \subseteq File
        BY DEF Scanned
      <4>2. QED
        BY <4>1, FilesAreNumbers, FS_Subset
    <3> HIDE DEF copies
    <3>3. Cardinality(copies) = 1 <=> \E f : copies = {f}
      BY <3>2, FS_Singleton
    <3>4. \A f : copies = {f} => f \in Scanned
      BY <3>1
    <3>5. QED
      BY <3>1, <3>3, <3>4 DEF copies
  <2>2. QED
    BY <2>1 DEF VerifiedContainers
<1>5. ContainersOn(collection, On(collection, chosen), Len(ContainerSets)) = ContainerReleases
  <2>1. DOMAIN ContainerSets = 1..Len(ContainerSets)
    BY SetsAssumption
  <2>2. \A k \in DOMAIN ContainerSets :
          VerifiedContainers(collection, Scanned, ContainerSets[k]) <=>
          \A i \in DOMAIN ContainerSets[k].disks :
            \E f \in Scanned : {g \in Scanned : collection[g] = ContainerSets[k].disks[i]} = {f}
    BY <1>4
  <2>3. QED
    BY <1>1, <2>1, <2>2 DEF ContainersOn, ContainerReleases
<1>6. QED
  BY <1>1, <1>3, <1>5

LEMMA LayoutIs ==
  ASSUME NEW release
  PROVE  LET tag == CASE release \in DirectReleases -> "verified_directory"
                      [] release \in ContainerReleases \ DirectReleases -> "verified_container_set"
                      [] OTHER -> "zip_archive"
         IN  /\ release \in DirectReleases => tag = "verified_directory"
             /\ release \in ContainerReleases \ DirectReleases => tag = "verified_container_set"
             /\ release \notin DirectReleases \cup ContainerReleases => tag = "zip_archive"
  BY Zenon

LEMMA ScanInvFound == ScanInv => FoundIsWhatIsThere
<1> SUFFICES ASSUME ScanInv, Done(scan), ~disturbed
             PROVE
      /\ Found(scan.releases) = DirectReleases \cup ContainerReleases
                                  \cup ({ArchiveOf[collection[f]] : f \in Scanned} \ {0})
      /\ \A i \in DOMAIN scan.releases :
           LET found == scan.releases[i] IN
           /\ found.layout =
                CASE found.release \in DirectReleases -> "verified_directory"
                  [] found.release \in ContainerReleases \ DirectReleases -> "verified_container_set"
                  [] OTHER -> "zip_archive"
           /\ found.layout = "zip_archive" =>
                /\ found.path \in ArchivesOf(found.release)
                /\ \A f \in ArchivesOf(found.release) : found.path <= f
      /\ \A i, j \in DOMAIN scan.releases :
           i < j => scan.releases[i].release < scan.releases[j].release
  BY Zenon DEF FoundIsWhatIsThere
<1>1. /\ ScanOK(scan) /\ FoundOnQuiet(scan, collection, chosen)
      /\ scan.phase = "candidates" /\ scan.left = {}
  BY DEF ScanInv, Done
<1>2. /\ On(collection, chosen) = Scanned
      /\ DirectOn(collection, DirsFrom(chosen)) = DirectReleases
      /\ ContainersOn(collection, On(collection, chosen), Len(ContainerSets)) = ContainerReleases
  BY QuietIsThere
<1>3. scan.candidates = Scanned /\ scan.candidates \ scan.left = Scanned
  BY <1>1, <1>2, QuietCandidates
<1>4. FoundSoFar(scan, collection, chosen) =
        DirectReleases \cup ContainerReleases \cup ArchivesOn(collection, Scanned)
  BY <1>1, <1>2, <1>3, FoundSoFarIs
<1>5. Found(scan.releases) = DirectReleases \cup ContainerReleases
                               \cup ({ArchiveOf[collection[f]] : f \in Scanned} \ {0})
  BY <1>1, <1>4 DEF FoundOnQuiet, ArchivesOn
<1>6. \A i, j \in DOMAIN scan.releases :
        i < j => scan.releases[i].release < scan.releases[j].release
  BY <1>1 DEF ScanOK, InOrder
<1>7. ASSUME NEW i \in DOMAIN scan.releases
      PROVE  LET found == scan.releases[i] IN
             /\ found.layout =
                  CASE found.release \in DirectReleases -> "verified_directory"
                    [] found.release \in ContainerReleases \ DirectReleases -> "verified_container_set"
                    [] OTHER -> "zip_archive"
             /\ found.layout = "zip_archive" =>
                  /\ found.path \in ArchivesOf(found.release)
                  /\ \A f \in ArchivesOf(found.release) : found.path <= f
  <2> DEFINE one == scan.releases[i]
             tag == CASE one.release \in DirectReleases -> "verified_directory"
                      [] one.release \in ContainerReleases \ DirectReleases -> "verified_container_set"
                      [] OTHER -> "zip_archive"
  <2>1. AsFound(one, collection, chosen)
    BY <1>1, <1>7 DEF FoundOnQuiet
  <2>2. /\ one.release \in DirectReleases => tag = "verified_directory"
        /\ one.release \in ContainerReleases \ DirectReleases => tag = "verified_container_set"
        /\ one.release \notin DirectReleases \cup ContainerReleases => tag = "zip_archive"
    BY LayoutIs
  <2> HIDE DEF one, tag
  <2>3. /\ one.release \in DirectReleases => one.layout = "verified_directory"
        /\ one.release \in ContainerReleases \ DirectReleases =>
             one.layout = "verified_container_set"
        /\ one.release \notin DirectReleases \cup ContainerReleases =>
             one.layout = "zip_archive" /\ Least(one.path, ArchivesOf(one.release))
    BY <1>2, <2>1 DEF AsFound, ArchivesOf
  <2>4. one.layout = tag
    BY <2>2, <2>3
  <2>5. one.layout = "zip_archive" => Least(one.path, ArchivesOf(one.release))
    BY <2>3
  <2>6. one.layout = "zip_archive" =>
          /\ one.path \in ArchivesOf(one.release)
          /\ \A f \in ArchivesOf(one.release) : one.path <= f
    BY <2>5 DEF Least
  <2>7. QED
    BY <2>4, <2>6, Zenon DEF one, tag
<1>8. QED
  BY <1>5, <1>6, <1>7, Zenon

(* What a scan counts, lists and orders, for any tree and any manifest,    *)
(* while the disk changes; and what it finds when the disk is quiet.       *)
THEOREM ScanInvariant == FileSpec => []ScanInv
<1>1. FileInit => ScanInv
  BY ScanInvInit DEF FileInit
<1>2. [FileNext]_fileVars => [ScanNext]_scanVars
  BY DEF FileNext, fileVars, ScanStep, ScanNext, scanVars
<1>3. ScanInv /\ [FileNext]_fileVars => ScanInv'
  BY <1>2, ScanInvNext
<1>4. QED
  BY <1>1, <1>3, PTL DEF FileSpec

(* No candidate is lost or counted twice, every release stands for its     *)
(* first occurrence, and a finished scan of a quiet disk has found what is *)
(* there and nothing else.                                                 *)
THEOREM InventoryIsSoundHolds == FileSpec => []InventoryIsSound
<1>1. ScanInv => InventoryIsSound
  BY ScanInvTypes, ScanInvCounts, ScanInvFirst, ScanInvFound DEF InventoryIsSound
<1>2. QED
  BY <1>1, ScanInvariant, PTL
=============================================================================

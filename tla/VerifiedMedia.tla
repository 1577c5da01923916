------------------------------ MODULE VerifiedMedia ------------------------------
(***************************************************************************)
(* The media a session was admitted with (VerifiedReleaseMedia), while     *)
(* another program may write to the user's files.                          *)
(*                                                                         *)
(* Archives are read whole and verified at admission, and lend from        *)
(* memory.  An installed directory is verified file by file and stays on   *)
(* the disk, so every leaf is read and hashed again before it is lent.     *)
(* What was lent once is kept: parsers hold spans into it.                 *)
(***************************************************************************)
EXTENDS Naturals

CONSTANTS Leaf,      \* the leaves of one release, by their hashes
          MaxReads   \* bound on the buffers a session reads

Layouts == {"archives", "directory"}
Bytes == {"original", "changed", "gone"}
NoView == [buffer |-> 0, bytes |-> "gone"]
NoAnswer == "no_answer"

ASSUME MediaAssumption == MaxReads \in Nat /\ NoAnswer \notin Leaf

VARIABLES layout,   \* archives of the release, or an installed directory
          disk,     \* what is behind each leaf on the disk
          session,  \* "closed", "verifying" or "open"
          checked,  \* members verified so far
          held,     \* archives_: the bytes in memory
          views,    \* borrowed_assets_
          reads,    \* buffers read in this session
          answer    \* the leaf the last call lent, if it lent one

vars == <<layout, disk, session, checked, held, views, reads, answer>>

NoViews == [leaf \in Leaf |-> NoView]

Init ==
  /\ layout \in Layouts
  /\ disk \in {[leaf \in Leaf |-> bytes] : bytes \in Bytes}
  /\ session = "closed" /\ checked = {}
  /\ held = [leaf \in Leaf |-> "gone"]
  /\ views = NoViews /\ reads = 0
  /\ answer = NoAnswer

(* An archive holds all its leaves, a directory has a file for each.       *)
ChangeFile ==
  /\ \E leaf \in Leaf, bytes \in Bytes :
       disk' = IF layout = "archives" THEN [other \in Leaf |-> bytes]
               ELSE [disk EXCEPT ![leaf] = bytes]
  /\ answer' = NoAnswer
  /\ UNCHANGED <<layout, session, checked, held, views, reads>>

Begin ==
  /\ session = "closed"
  /\ session' = "verifying" /\ answer' = NoAnswer
  /\ UNCHANGED <<layout, disk, checked, held, views, reads>>

(* The bytes an archive's hash was taken of are the bytes that are held.   *)
OpenArchives ==
  /\ session = "verifying" /\ layout = "archives"
  /\ IF \A leaf \in Leaf : disk[leaf] = "original"
     THEN session' = "open" /\ held' = disk
     ELSE session' = "closed" /\ UNCHANGED held
  /\ answer' = NoAnswer
  /\ UNCHANGED <<layout, disk, checked, views, reads>>

(* The members of a directory are read and hashed one after the other.     *)
VerifyMember ==
  /\ session = "verifying" /\ layout = "directory"
  /\ \E leaf \in Leaf \ checked :
       IF disk[leaf] = "original"
       THEN /\ checked' = checked \cup {leaf}
            /\ session' = IF checked' = Leaf THEN "open" ELSE session
       ELSE session' = "closed" /\ checked' = {}
  /\ answer' = NoAnswer
  /\ UNCHANGED <<layout, disk, held, views, reads>>

(* Archives lend from memory, a directory from its files.                  *)
ReadNow(leaf) == IF layout = "archives" THEN held[leaf] ELSE disk[leaf]

(* Mutant: a leaf that was lent before is lent again without a look.       *)
LendCached(leaf, bytes) ==
  IF views[leaf] # NoView \/ bytes = "original"
  THEN /\ answer' = leaf
       /\ IF views[leaf] # NoView THEN UNCHANGED <<views, reads>>
          ELSE /\ reads' = reads + 1
               /\ views' = [views EXCEPT ![leaf] = [buffer |-> reads', bytes |-> bytes]]
  ELSE answer' = NoAnswer /\ UNCHANGED <<views, reads>>

(* Mutant: a leaf read again replaces the buffer it was lent from.         *)
LendRefreshed(leaf, bytes) ==
  IF bytes # "original" THEN answer' = NoAnswer /\ UNCHANGED <<views, reads>>
  ELSE /\ answer' = leaf
       /\ reads' = reads + 1
       /\ views' = [views EXCEPT ![leaf] = [buffer |-> reads', bytes |-> bytes]]

(* A leaf that is not the original any more is not lent, even if it was    *)
(* lent before; one that still is keeps the buffer it was lent from.       *)
Lend(leaf, bytes) ==
  IF bytes # "original" THEN answer' = NoAnswer /\ UNCHANGED <<views, reads>>
  ELSE /\ answer' = leaf
       /\ IF views[leaf] # NoView THEN UNCHANGED <<views, reads>>
          ELSE /\ reads' = reads + 1
               /\ views' = [views EXCEPT ![leaf] = [buffer |-> reads', bytes |-> bytes]]

Borrow ==
  /\ session = "open" /\ reads < MaxReads
  /\ \E leaf \in Leaf : Lend(leaf, ReadNow(leaf))
  /\ UNCHANGED <<layout, disk, session, checked, held>>

Close ==
  /\ session = "open"
  /\ session' = "closed" /\ checked' = {}
  /\ held' = [leaf \in Leaf |-> "gone"] /\ views' = NoViews /\ reads' = 0
  /\ answer' = NoAnswer
  /\ UNCHANGED <<layout, disk>>

Next ==
  \/ ChangeFile
  \/ Begin
  \/ OpenArchives
  \/ VerifyMember
  \/ Borrow
  \/ Close

Spec == Init /\ [][Next]_vars

----------------------------------------------------------------------------
TypeOK ==
  /\ layout \in Layouts /\ disk \in [Leaf -> Bytes]
  /\ session \in {"closed", "verifying", "open"}
  /\ checked \subseteq Leaf /\ held \in [Leaf -> Bytes]
  /\ views \in [Leaf -> [buffer : 0..MaxReads, bytes : Bytes]]
  /\ reads \in 0..MaxReads /\ answer \in Leaf \cup {NoAnswer}

(* Every span a parser holds is of the original leaf it asked for, however *)
(* the files changed during the verification or between two reads.         *)
LentIsOriginal == \A leaf \in Leaf : views[leaf] # NoView => views[leaf].bytes = "original"

(* A replaced file of a directory is noticed by the next borrow, which an  *)
(* earlier loan does not hide; an archive lends whatever became of it.     *)
BorrowAnswersThePresent ==
  [][Borrow => IF layout = "archives" THEN answer' # NoAnswer
               ELSE answer' # NoAnswer => disk[answer'] = "original"]_vars

(* While a session lasts no loan moves or changes under its borrower.      *)
LoansAreStable ==
  [][session = "open" /\ session' = "open" =>
       \A leaf \in Leaf : views[leaf] # NoView => views'[leaf] = views[leaf]]_vars
=============================================================================

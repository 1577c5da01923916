----------------------------- MODULE ReleaseScanner -----------------------------
(***************************************************************************)
(* The incremental scan of a data source (ReleaseScanner), over a disk     *)
(* that may change at any moment between two of its reads.                 *)
(*                                                                         *)
(* A scan discovers entries directory by directory, in whatever order the  *)
(* file system lists them, verifies the complete media sets once discovery *)
(* is over, and then takes the candidates one by one in the order of their *)
(* paths: first the size, then the hash of the whole file.  A file is a    *)
(* number, its content a value that stands for its bytes and their hash.   *)
(***************************************************************************)
EXTENDS Naturals, Sequences, FiniteSets

NoFile == 0

CONSTANTS Dir, File, Link,  \* the entries, as numbers; files in the order of their paths
          Root,             \* the directory that holds everything
          Sources,          \* what the user may choose: Root, a file, or nothing
          ParentOf,         \* the directory of every other entry
          NameOf,           \* the bare name of a file
          Content, Gone,    \* what a file may hold, and its absence
          MayHold,          \* the contents a file may have in this collection
          SizeOf,           \* the size of a content
          ArchiveOf,        \* the release of an archive's hash, or 0
          ParserLeaf,             \* contents that are leaves of the parser manifest
          DirectSets,       \* [release, members : name -> content]
          ContainerSets,    \* [release, disks : sequence of archives]
          MaxChanges        \* bound on the changes of the disk

ASSUME ScannerAssumption ==
  /\ Dir \cup File \cup Link \subseteq Nat \ {NoFile} /\ Root \in Dir /\ Sources \subseteq {Root, NoFile} \cup File
  /\ Dir \cap File = {} /\ Link \cap (Dir \cup File) = {} /\ IsFiniteSet(File)
  /\ ParentOf \in [(Dir \ {Root}) \cup File \cup Link -> Dir]
  /\ Gone \notin Content
  /\ MayHold \in [File -> SUBSET (Content \cup {Gone})]
  /\ SizeOf \in [Content -> Nat] /\ ArchiveOf \in [Content -> Nat] /\ ParserLeaf \subseteq Content
  /\ MaxChanges \in Nat

(* Whatever holds the root and, with a directory, those in it holds all.   *)
ASSUME TreeAssumption ==
  \A dirs \in SUBSET Dir :
    /\ Root \in dirs
    /\ \A dir \in Dir \ {Root} : ParentOf[dir] \in dirs => dir \in dirs
    => dirs = Dir

(* No disk of a container set is an archive of the manifest itself.        *)
ASSUME SetsAssumption ==
  /\ DOMAIN DirectSets = 1..Len(DirectSets) /\ Len(DirectSets) \in Nat
  /\ DOMAIN ContainerSets = 1..Len(ContainerSets) /\ Len(ContainerSets) \in Nat
  /\ \A j \in DOMAIN DirectSets : DirectSets[j].release \in Nat
  /\ \A k \in DOMAIN ContainerSets :
       /\ ContainerSets[k].release \in Nat
       /\ \A i \in DOMAIN ContainerSets[k].disks :
            /\ ContainerSets[k].disks[i] \in Content
            /\ ArchiveOf[ContainerSets[k].disks[i]] = 0

VARIABLES chosen,    \* the chosen data source
          collection,      \* what every file holds now
          scan,      \* the scanner
          changes,   \* history: changes of the disk during the scan
          disturbed  \* history: the disk changed, or a directory could not be read

scanVars == <<chosen, collection, scan, changes, disturbed>>

Counters == { "size_rejected", "size_candidates", "hashed", "hash_rejected",
              "leaf_size", "leaf_hashed", "verified_leaves", "duplicate_leaves",
              "direct_sets", "duplicate_direct_sets", "container_sets",
              "verified", "duplicates", "unreadable", "symlinks" }

FoundLayouts == {"zip_archive", "verified_directory", "verified_container_set"}

(* A directory is discovered entry by entry; one archive is the only       *)
(* candidate; anything else is an empty scan.                              *)
StartedAt(start, d) ==
  [ phase      |-> IF start = Root THEN "discovering" ELSE "direct_sets",
    queue      |-> IF start = Root THEN <<Root>> ELSE << >>,  \* directories_
    opened     |-> 0,         \* next_directory_
    listing    |-> {},        \* what active_directory_ has not returned yet
    candidates |-> IF start \in File /\ d[start] # Gone THEN {start} ELSE {},
    left       |-> {},        \* those from next_candidate_ on
    cursor     |-> 0,         \* sets verified while the inventory is finished
    inspected  |-> NoFile,    \* a candidate between its size and its hash
    size       |-> 0,         \* the size read for it
    releases   |-> << >>,
    leaves     |-> {},        \* unbound_direct_media_
    bound      |-> {},        \* bound_direct_media_paths_
    containers |-> {},        \* bound_container_media_paths_
    report     |-> [c \in Counters |-> 0] ]

ScanInit ==
  /\ collection \in {d \in [File -> Content \cup {Gone}] : \A f \in File : d[f] \in MayHold[f]}
  /\ chosen \in Sources
  /\ scan = StartedAt(chosen, collection)
  /\ changes = 0 /\ disturbed = FALSE

Done(s) == s.phase = "candidates" /\ s.left = {}

Count(report, counters) == [c \in Counters |-> report[c] + (IF c \in counters THEN 1 ELSE 0)]

Found(releases) == {releases[i].release : i \in DOMAIN releases}

----------------------------------------------------------------------------
(* Media sets *)

MembersIn(d, dir, set) ==
  {f \in File : ParentOf[f] = dir /\ NameOf[f] \in DOMAIN set.members
                /\ d[f] = set.members[NameOf[f]]}

(* verify_direct_set: every member is a file of the directory with its     *)
(* declared size and hash.                                                 *)
VerifiedDirect(d, dir, set) ==
  \A name \in DOMAIN set.members : \E f \in MembersIn(d, dir, set) : NameOf[f] = name

Copies(d, candidates, content) == {f \in candidates : d[f] = content}

(* verify_container_set: exactly one candidate for every disk, since a     *)
(* second copy is no tiebreaker.                                           *)
VerifiedContainers(d, candidates, set) ==
  \A i \in DOMAIN set.disks : Cardinality(Copies(d, candidates, set.disks[i])) = 1

(* What one directory adds for one set.                                    *)
AdmitDirect(d, s, dir, set) ==
  IF ~VerifiedDirect(d, dir, set) THEN s
  ELSE IF set.release \in Found(s.releases)
  THEN [s EXCEPT !.report = Count(@, {"direct_sets", "duplicate_direct_sets"})]
  ELSE [s EXCEPT !.report = Count(@, {"direct_sets"}),
                 !.releases = Append(@, [release |-> set.release, layout |-> "verified_directory",
                                         path |-> dir]),
                 !.bound = @ \cup MembersIn(d, dir, set)]

AdmitContainers(d, s, set) ==
  IF ~VerifiedContainers(d, s.candidates, set) THEN s
  ELSE [s EXCEPT !.report = Count(@, {"container_sets"}),
                 !.containers = @ \cup UNION {Copies(d, s.candidates, set.disks[i]) :
                                                i \in DOMAIN set.disks},
                 !.releases = IF set.release \in Found(@) THEN @
                              ELSE Append(@, [release |-> set.release,
                                              layout  |-> "verified_container_set",
                                              path    |-> NoFile])]

----------------------------------------------------------------------------
(* Discovery *)

EntriesOf(dir) == {e \in DOMAIN ParentOf : ParentOf[e] = dir}

(* A directory that cannot be opened contributes nothing.                  *)
OpenDirectory ==
  /\ scan.phase = "discovering" /\ scan.listing = {} /\ scan.opened < Len(scan.queue)
  /\ \E readable \in BOOLEAN :
       LET entries == EntriesOf(scan.queue[scan.opened + 1]) IN
       /\ scan' = [scan EXCEPT !.opened = @ + 1, !.listing = IF readable THEN entries ELSE {}]
       /\ disturbed' = (disturbed \/ (~readable /\ entries # {}))
  /\ UNCHANGED <<chosen, collection, changes>>

(* The entry kind decides: links are only counted, so no scan leaves its   *)
(* data source.                                                            *)
Enlist(s, e) ==
  CASE e \in Link -> [s EXCEPT !.report = Count(@, {"symlinks"})]
    [] e \in Dir  -> [s EXCEPT !.queue = Append(@, e)]
    [] e \in File /\ collection[e] # Gone -> [s EXCEPT !.candidates = @ \cup {e}]
    [] OTHER -> s

(* An error while moving on to the next entry ends the directory, after    *)
(* the entry already read was taken.                                       *)
VisitEntry ==
  /\ scan.phase = "discovering"
  /\ \E e \in scan.listing, readable \in BOOLEAN :
       LET others == scan.listing \ {e} IN
       /\ scan' = Enlist([scan EXCEPT !.listing = IF readable THEN others ELSE {}], e)
       /\ disturbed' = (disturbed \/ (~readable /\ others # {}))
  /\ UNCHANGED <<chosen, collection, changes>>

FinishDiscovery ==
  /\ scan.phase = "discovering" /\ scan.listing = {} /\ scan.opened = Len(scan.queue)
  /\ scan' = [scan EXCEPT !.phase = "direct_sets"]
  /\ UNCHANGED <<chosen, collection, changes, disturbed>>

(* finish_candidate_inventory: every directory, in the order it was        *)
(* discovered, against every direct set.                                   *)
VerifyDirectory ==
  /\ scan.phase = "direct_sets"
  /\ LET pairs == Len(scan.queue) * Len(DirectSets)
         dir   == scan.queue[(scan.cursor \div Len(DirectSets)) + 1]
         set   == DirectSets[(scan.cursor % Len(DirectSets)) + 1]
     IN  scan' = IF scan.cursor = pairs
                 THEN [scan EXCEPT !.phase = "container_sets", !.cursor = 0]
                 ELSE [AdmitDirect(collection, scan, dir, set) EXCEPT !.cursor = @ + 1]
  /\ UNCHANGED <<chosen, collection, changes, disturbed>>

(* Once done, the releases are in the order of their hashes.               *)
Sorted(releases) ==
  LET Before(i) == Cardinality({j \in DOMAIN releases :
                     \/ releases[j].release < releases[i].release
                     \/ releases[j].release = releases[i].release /\ j < i})
  IN  [n \in DOMAIN releases |->
         releases[CHOOSE i \in DOMAIN releases : Before(i) = n - 1]]

Settled(s) == IF Done(s) THEN [s EXCEPT !.releases = Sorted(@)] ELSE s

(* Then every container set; the candidates are complete after the last.   *)
VerifyContainerSet ==
  /\ scan.phase = "container_sets"
  /\ scan' = IF scan.cursor = Len(ContainerSets)
             THEN Settled([scan EXCEPT !.phase = "candidates", !.cursor = 0,
                                       !.left = scan.candidates])
             ELSE [AdmitContainers(collection, scan, ContainerSets[scan.cursor + 1])
                     EXCEPT !.cursor = @ + 1]
  /\ UNCHANGED <<chosen, collection, changes, disturbed>>

----------------------------------------------------------------------------
(* Candidates *)

OuterSizes == {SizeOf[c] : c \in {c \in Content : ArchiveOf[c] # 0}}
LeafSizes == {SizeOf[c] : c \in ParserLeaf}

(* Candidates are taken in the order of their paths.                       *)
FirstLeft(s) == CHOOSE f \in s.left : \A other \in s.left : f <= other

Finished(s, file, counters) ==
  Settled([s EXCEPT !.left = @ \ {file}, !.inspected = NoFile,
                    !.report = Count(@, counters)])

(* Mutant: the disks of a complete set are passed over without being taken. *)
InspectCandidateAgain ==
  /\ scan.phase = "candidates" /\ scan.left # {} /\ scan.inspected = NoFile
  /\ LET file  == FirstLeft(scan)
         size  == SizeOf[collection[file]]
         outer == IF size \in OuterSizes THEN {"size_candidates"} ELSE {}
         leaf  == IF size \in LeafSizes THEN {"leaf_size"} ELSE {}
     IN  scan' = IF collection[file] = Gone THEN Finished(scan, file, {"unreadable"})
                 ELSE IF file \in scan.containers THEN scan
                 ELSE IF outer \cup leaf = {} THEN Finished(scan, file, {"size_rejected"})
                 ELSE [scan EXCEPT !.inspected = file, !.size = size,
                                   !.report = Count(@, outer \cup leaf)]
  /\ UNCHANGED <<chosen, collection, changes, disturbed>>

(* The size decides whether a candidate is read at all.                    *)
InspectCandidate ==
  /\ scan.phase = "candidates" /\ scan.left # {} /\ scan.inspected = NoFile
  /\ LET file  == FirstLeft(scan)
         size  == SizeOf[collection[file]]
         outer == IF size \in OuterSizes THEN {"size_candidates"} ELSE {}
         leaf  == IF size \in LeafSizes THEN {"leaf_size"} ELSE {}
     IN  scan' = IF collection[file] = Gone THEN Finished(scan, file, {"unreadable"})
                 ELSE IF file \in scan.containers THEN Finished(scan, file, {})
                 ELSE IF outer \cup leaf = {} THEN Finished(scan, file, {"size_rejected"})
                 ELSE [scan EXCEPT !.inspected = file, !.size = size,
                                   !.report = Count(@, outer \cup leaf)]
  /\ UNCHANGED <<chosen, collection, changes, disturbed>>

(* Mutant: another copy is counted as a duplicate only.                    *)
AdmitArchiveOnce(s, file, release) ==
  IF release \in Found(s.releases)
  THEN Finished(s, file, {"duplicates"})
  ELSE Finished([s EXCEPT !.releases = Append(@, [release |-> release,
                                                  layout  |-> "zip_archive",
                                                  path    |-> file])],
                file, {"verified"})

(* An archive of the manifest: the first path of an identity is kept.      *)
AdmitArchive(s, file, release) ==
  IF release \in Found(s.releases)
  THEN Finished(s, file, {"verified", "duplicates"})
  ELSE Finished([s EXCEPT !.releases = Append(@, [release |-> release,
                                                  layout  |-> "zip_archive",
                                                  path    |-> file])],
                file, {"verified"})

AdmitLeaf(s, file, content) ==
  Finished([s EXCEPT !.leaves = @ \cup {content}], file,
           {"verified_leaves"} \cup (IF content \in s.leaves THEN {"duplicate_leaves"} ELSE {}))

(* Then the hash of whatever the file holds by now.                        *)
HashCandidate ==
  /\ scan.inspected # NoFile
  /\ LET file    == scan.inspected
         content == collection[file]
         hashed  == {"hashed"} \cup (IF scan.size \in LeafSizes THEN {"leaf_hashed"} ELSE {})
         read    == [scan EXCEPT !.report = Count(@, hashed), !.size = 0]
     IN  scan' = IF content = Gone THEN Finished([scan EXCEPT !.size = 0], file, {"unreadable"})
                 ELSE IF ArchiveOf[content] # 0
                 THEN AdmitArchive(read, file, ArchiveOf[content])
                 ELSE IF content \in ParserLeaf /\ SizeOf[content] = scan.size
                         /\ file \notin scan.bound
                 THEN AdmitLeaf(read, file, content)
                 ELSE Finished(read, file, {"hash_rejected"})
  /\ UNCHANGED <<chosen, collection, changes, disturbed>>

----------------------------------------------------------------------------
(* Another program writes, replaces or removes a file.                     *)
ReplaceEntry ==
  /\ changes < MaxChanges /\ ~Done(scan)
  /\ \E f \in File : \E content \in MayHold[f] \ {collection[f]} : collection' = [collection EXCEPT ![f] = content]
  /\ changes' = changes + 1 /\ disturbed' = TRUE
  /\ UNCHANGED <<chosen, scan>>

Scan ==
  \/ OpenDirectory
  \/ VisitEntry
  \/ FinishDiscovery
  \/ VerifyDirectory
  \/ VerifyContainerSet
  \/ InspectCandidate
  \/ HashCandidate

Finish == Done(scan) /\ UNCHANGED scanVars

ScanNext == Scan \/ ReplaceEntry \/ Finish

----------------------------------------------------------------------------
ScanTypeOK ==
  /\ chosen \in Sources /\ collection \in [File -> Content \cup {Gone}]
  /\ changes \in 0..MaxChanges /\ disturbed \in BOOLEAN
  /\ scan.phase \in {"discovering", "direct_sets", "container_sets", "candidates"}
  /\ scan.queue \in Seq(Dir) /\ scan.opened \in 0..Len(scan.queue)
  /\ scan.listing \subseteq DOMAIN ParentOf
  /\ scan.left \subseteq scan.candidates /\ scan.candidates \subseteq File
  /\ scan.inspected \in scan.left \cup {NoFile}
  /\ scan.releases \in Seq([release : Nat, layout : FoundLayouts, path : Dir \cup File \cup {NoFile}])
  /\ scan.leaves \subseteq ParserLeaf /\ scan.bound \subseteq File
  /\ scan.containers \subseteq scan.candidates
  /\ scan.report \in [Counters -> Nat]

(* Every candidate taken so far is counted under exactly one verdict, but  *)
(* the disks of a complete container set, which are counted under none.    *)
(* No change of the disk between its reads loses one or counts it twice.   *)
EveryCandidateIsCounted ==
  LET r       == scan.report
      taken   == Cardinality(scan.candidates \ scan.left)
      counted == r["size_rejected"] + r["hash_rejected"] + r["verified"]
                   + r["verified_leaves"] + r["unreadable"]
  IN  scan.phase = "candidates" =>
        /\ counted <= taken
        /\ taken - counted <= Cardinality(scan.containers \ scan.left)
        /\ r["hashed"] = r["hash_rejected"] + r["verified"] + r["verified_leaves"]

(* Every release stands for its first occurrence and every other           *)
(* occurrence is a counted duplicate, in each layout.                      *)
ReleasesAreFirstOccurrences ==
  LET r == scan.report
      In(layout) == Cardinality({i \in DOMAIN scan.releases : scan.releases[i].layout = layout})
  IN  /\ Cardinality(Found(scan.releases)) = Len(scan.releases)
      /\ In("zip_archive") = r["verified"] - r["duplicates"]
      /\ In("verified_directory") = r["direct_sets"] - r["duplicate_direct_sets"]
      /\ In("verified_container_set") <= r["container_sets"]
      /\ Cardinality(scan.leaves) = r["verified_leaves"] - r["duplicate_leaves"]

(* What a finished scan of a quiet disk must have found, by definition:    *)
(* complete directories, disks that are there exactly once, and archives   *)
(* at their first path; leaves that no complete directory binds.           *)
Scanned == {f \in File : chosen \in {Root, f} /\ collection[f] # Gone}
ScannedDirs == IF chosen = Root THEN Dir ELSE {}

DirectReleases ==
  {DirectSets[j].release : j \in {j \in DOMAIN DirectSets :
     \E dir \in ScannedDirs : \A name \in DOMAIN DirectSets[j].members :
       \E f \in File : /\ ParentOf[f] = dir /\ NameOf[f] = name
                       /\ collection[f] = DirectSets[j].members[name]}}

ContainerReleases ==
  {ContainerSets[k].release : k \in {k \in DOMAIN ContainerSets :
     \A i \in DOMAIN ContainerSets[k].disks :
       \E f \in Scanned : {g \in Scanned : collection[g] = ContainerSets[k].disks[i]} = {f}}}

ArchivesOf(release) == {f \in Scanned : ArchiveOf[collection[f]] = release}

FoundIsWhatIsThere ==
  Done(scan) /\ ~disturbed =>
    /\ Found(scan.releases) = DirectReleases \cup ContainerReleases
                                \cup ({ArchiveOf[collection[f]] : f \in Scanned} \ {0})
    /\ \A i \in DOMAIN scan.releases :
         LET found == scan.releases[i] IN
         /\ found.layout =
              CASE found.release \in DirectReleases -> "verified_directory"
                [] found.release \in ContainerReleases \ DirectReleases -> "verified_container_set"
                [] OTHER -> "zip_archive"
         /\ found.layout = "zip_archive" =>
              /\ found.path \in ArchivesOf(found.release)
              /\ \A f \in ArchivesOf(found.release) : found.path <= f
    /\ \A i, j \in DOMAIN scan.releases :
         i < j => scan.releases[i].release < scan.releases[j].release

(* What an inventory owes together, while it grows and when it is done.    *)
InventoryIsSound ==
  /\ ScanTypeOK
  /\ EveryCandidateIsCounted
  /\ ReleasesAreFirstOccurrences
  /\ FoundIsWhatIsThere
=============================================================================

---------------------------- MODULE MCReleaseScanner ----------------------------
(* A collection with an installed copy of release 6 in directory a and     *)
(* perhaps another in b, an archive of the same release, and the two disks *)
(* of release 8.  Files in path order: a/EXE, a/LIB, b/EXE, b/LIB, y, z;   *)
(* directories 10 (chosen), 11 (a) and 12 (b), which also holds a link.    *)
EXTENDS ReleaseScanner

MCFile == 1..6
MCContent == {"exe", "fake", "lib", "archive", "repack", "disk1", "disk2"}

MCParentOf ==
  [e \in {11, 12, 20} \cup MCFile |->
     CASE e \in {1, 2} -> 11 [] e \in {3, 4, 20} -> 12 [] OTHER -> 10]

MCNameOf == <<"EXE", "LIB", "EXE", "LIB", "Y", "Z">>

MCMayHold ==
  <<{"exe", "fake"}, {"lib"}, {"exe"}, {"lib", "disk1"},
    {"archive", "disk1", "repack", "gone"}, {"archive", "disk2"}>>

MCSizeOf ==
  [c \in MCContent |->
     CASE c \in {"exe", "fake"} -> 10 [] c = "lib" -> 11
       [] c \in {"archive", "repack"} -> 20
       [] c = "disk1" -> 30 [] c = "disk2" -> 31]

MCArchiveOf == [c \in MCContent |-> IF c = "archive" THEN 6 ELSE 0]

MCDirectSets == <<[release |-> 6, members |-> [EXE |-> "exe", LIB |-> "lib"]]>>

MCContainerSets == <<[release |-> 8, disks |-> <<"disk1", "disk2">>]>>
=============================================================================

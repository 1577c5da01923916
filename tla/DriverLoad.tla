------------------------------ MODULE DriverLoad ------------------------------
(***************************************************************************)
(* What MILL.COM does before TITLES.EXE runs: the chosen sound driver is   *)
(* loaded and its interrupt vector set, the parent's stack is stored, and  *)
(* the title's process is entered.  The files and the memory are served by *)
(* the program itself, out of an arena of paragraphs and under the numbers *)
(* of a runner; the parent's stack word is an observation from outside.    *)
(* EXEC and the entry of the child may be observed from outside as well.   *)
(* The video driver's loader runs beside all this on observations alone:   *)
(* the segment it loads at is whatever was observed.                       *)
(***************************************************************************)
EXTENDS Integers, Sequences

CONSTANTS
  DriverSizes,   \* paragraphs of the sound drivers' leaves
  ChildSize,     \* paragraphs of the title's process
  ArenaBegin,    \* the arena's first segment
  ArenaEnd,      \* the segment past its last
  Observed       \* segments an outside observation may name

ASSUME ArenaAssumption ==
  /\ ArenaBegin \in Nat \ {0} /\ ArenaEnd \in Nat /\ ArenaBegin < ArenaEnd
  /\ DriverSizes \subseteq Nat \ {0} /\ ChildSize \in Nat \ {0}
  /\ Observed \subseteq Nat \ {0}

VARIABLES
  dos,      \* the sound driver's load, the runner, its arena and the child's entry
  video,    \* the video driver's load
  image,    \* the driver or program last written at a segment
  met       \* the way in, and the state its controller goes by

loadVars == <<dos, video, image, met>>

LoadSegments == Observed \cup ArenaBegin..(ArenaEnd - 1)

SoundPlaces == {"open", "parent_stack", "exec", "requested"}
EntryPlaces == {"none", "awaiting", "prefix", "title_entry"}
VideoPlaces == <<"none", "open", "seek_end", "allocation", "seek_start", "read", "close",
                 "vector_request", "vector_result", "vector_seen", "ivt_seen">>
VideoAt(place) == video.at = place

-----------------------------------------------------------------------------
(* The runner counts every operation it makes itself; the arena hands out  *)
(* paragraphs in one direction and takes none back.                        *)
Counted(d, operations) == [d EXCEPT !.last = @ + operations]

HasRoom(d, size) == size <= ArenaEnd - d.next
Allocated(d, size) == [d EXCEPT !.next = @ + size]

(* The choice of a driver begins its load: number one is taken.            *)
NewLoad(size) ==
  [kind |-> "sound_boundary", at |-> "open", size |-> size, seq |-> 1, last |-> 1,
   next |-> ArenaBegin, sound |-> 0, child |-> 0, vector |-> 0,
   entry |-> "none", code |-> 0, started |-> FALSE]

LoadInit ==
  /\ \E size \in DriverSizes : dos = NewLoad(size)
  /\ video = [at |-> "none", card |-> "none", segment |-> 0, carry |-> FALSE, vector |-> 0]
  /\ image = [s \in LoadSegments |-> "none"]
  /\ \E front \in {"host", "launcher"} : met = [front |-> front, shown |-> "sound_boundary"]

(* The driver's file is opened, measured, placed, read and closed, and     *)
(* INT 95h is pointed at it, in one pass of the runner.                    *)
LoadSound(d) ==
  [Counted(Allocated(d, d.size), 7) EXCEPT
     !.at = "parent_stack", !.sound = d.next, !.vector = d.next, !.seq = d.last + 7]

SoundImage(d) == [image EXCEPT ![d.next] = "sound"]

(* EXEC is requested literally once the parent's stack is stored.          *)
Requested(d) == [Counted(d, 1) EXCEPT !.at = "requested", !.entry = "awaiting"]

(* The child is entered at a code segment, and its literal prefix leads to *)
(* the title's entry.                                                      *)
Entered(d, code) == [d EXCEPT !.entry = "prefix", !.code = code]
Prefixed(d) == [d EXCEPT !.entry = "title_entry"]

(* The child's image is placed, its entry and its literal prefix are run,  *)
(* and its initialization is begun: four operations.                       *)
EnterChild(d) ==
  [Counted(Allocated(Prefixed(Entered(d, d.next)), ChildSize), 4) EXCEPT
     !.child = d.next, !.started = TRUE, !.kind = "title", !.seq = d.last + 4]

ChildImage(d) == [image EXCEPT ![d.next] = "child"]

-----------------------------------------------------------------------------
(* A pass of the runner keeps nothing of itself when one of its steps      *)
(* fails: the arena has no room, and the same pass fails again.            *)
LoadPass ==
  /\ dos.at = "open" /\ HasRoom(dos, dos.size)
  /\ dos' = LoadSound(dos) /\ image' = SoundImage(dos)

ExecPass ==
  LET d == IF dos.at = "exec" THEN Requested(dos) ELSE dos IN
  /\ dos.at \in {"exec", "requested"} /\ d.entry = "awaiting" /\ HasRoom(d, ChildSize)
  /\ dos' = EnterChild(d) /\ image' = ChildImage(d)

TickRunner == dos.kind = "sound_boundary" /\ (LoadPass \/ ExecPass)

(* Mutant: the runner is not told of an observation.                       *)
NumberedByLoad(d, number) == [d EXCEPT !.seq = number]

(* An observation must carry the number after the runner's last, and one   *)
(* past the last the load has seen.  The load keeps it; so does the runner.*)
Numbered(d, number) == [d EXCEPT !.seq = number, !.last = number]

Accepts(d, number) == number = d.last + 1 /\ number > d.seq

ObserveParentStack ==
  /\ dos.kind = "sound_boundary" /\ dos.at = "parent_stack" /\ Accepts(dos, dos.last + 1)
  /\ dos' = [Numbered(dos, dos.last + 1) EXCEPT !.at = "exec"] /\ UNCHANGED image

ObserveTitleExec ==
  /\ dos.kind = "sound_boundary" /\ dos.at = "exec" /\ Accepts(dos, dos.last + 1)
  /\ dos' = [Numbered(dos, dos.last + 1) EXCEPT !.at = "requested", !.entry = "awaiting"]
  /\ UNCHANGED image

(* The child's entry observed from outside: a code segment, and no image.  *)
ObserveChildEntry ==
  /\ dos.kind = "sound_boundary" /\ dos.at = "requested" /\ dos.entry = "awaiting"
  /\ \E code \in Observed : dos' = Entered(dos, code)
  /\ UNCHANGED image

(* Its prefix leads into the title, whose initialization is not begun.     *)
AdvanceEntryPrefix ==
  /\ dos.kind = "sound_boundary" /\ dos.entry = "prefix"
  /\ dos' = [Prefixed(dos) EXCEPT !.kind = "title"] /\ UNCHANGED image

-----------------------------------------------------------------------------
(* A letter of the command tail picks the card, or the detector's answer:  *)
(* one is EGA, none and two are MCGA.                                      *)
Selectors == {"letter_e", "letter_m", "found_none", "found_one", "found_two"}
CardFor(selector) == IF selector \in {"letter_e", "found_one"} THEN "ega" ELSE "mcga"

SelectVideo ==
  /\ VideoAt("none")
  /\ \E s \in Selectors : video' = [video EXCEPT !.at = "open", !.card = CardFor(s)]
  /\ UNCHANGED image

(* The answers that only have to be the expected ones.                     *)
VideoEdges ==
  [open |-> "seek_end", seek_end |-> "allocation", seek_start |-> "read",
   close |-> "vector_request", vector_request |-> "vector_result"]

VideoExpected ==
  /\ video.at \in DOMAIN VideoEdges
  /\ video' = [video EXCEPT !.at = VideoEdges[video.at]] /\ UNCHANGED image

VideoAllocation ==
  /\ VideoAt("allocation")
  /\ \E s \in Observed : video' = [video EXCEPT !.at = "seek_start", !.segment = s]
  /\ UNCHANGED image

(* Only a whole read is put into the memory.                               *)
VideoRead ==
  /\ VideoAt("read") /\ video' = [video EXCEPT !.at = "close"]
  /\ image' = [image EXCEPT ![video.segment] = "video"]

(* DOS's answer to SetVect and the vector seen later are kept as they are. *)
VideoVector ==
  /\ \/ VideoAt("vector_result")
          /\ \E c \in BOOLEAN : video' = [video EXCEPT !.at = "vector_seen", !.carry = c]
     \/ VideoAt("vector_seen")
          /\ \E s \in Observed : video' = [video EXCEPT !.at = "ivt_seen", !.vector = s]
  /\ UNCHANGED image

ObserveVideo ==
  /\ SelectVideo \/ VideoExpected \/ VideoAllocation \/ VideoRead \/ VideoVector
  /\ UNCHANGED dos

-----------------------------------------------------------------------------
(* The controllers in front, as for the game: a forwarded call, and one    *)
(* after which the state is published again.                               *)
Reaches(states) == met.front = "launcher" \/ met.shown \in states

Passes(states, call) == Reaches(states) /\ call /\ UNCHANGED met
PassesAnew(states, call) ==
  Reaches(states) /\ call /\ met' = [met EXCEPT !.shown = dos'.kind]

SoundCalls == Passes({"sound_boundary"}, ObserveParentStack \/ ObserveTitleExec) /\ UNCHANGED video
(* A tick is one pass.  A drive makes passes while they move the number,   *)
(* and no two of the load in a row do.                                     *)
TickCalls == PassesAnew({"sound_boundary", "title"}, TickRunner) /\ UNCHANGED video
VideoLoadCalls == Passes({"sound_boundary", "title"}, ObserveVideo)
EntryCalls ==
  /\ \/ Passes({"sound_boundary"}, ObserveChildEntry)
     \/ PassesAnew({"sound_boundary"}, AdvanceEntryPrefix)
  /\ UNCHANGED video

LoadStep == SoundCalls \/ TickCalls \/ VideoLoadCalls \/ EntryCalls

-----------------------------------------------------------------------------
LoadTypeOK ==
  /\ dos.kind \in {"sound_boundary", "title"} /\ dos.at \in SoundPlaces
  /\ dos.entry \in EntryPlaces /\ dos.started \in BOOLEAN
  /\ {dos.seq, dos.last, dos.next, dos.sound, dos.child, dos.code, dos.vector} \subseteq Nat
  /\ dos.size \in DriverSizes
  /\ \E i \in 1..Len(VideoPlaces) : VideoAt(VideoPlaces[i])
  /\ video.card \in {"none", "ega", "mcga"} /\ video.segment \in Observed \cup {0}
  /\ image \in [LoadSegments -> {"none", "sound", "child", "video"}]
  /\ met.front \in {"host", "launcher"} /\ met.shown \in {"sound_boundary", "title"}

(* While the load is under way its number and the runner's are one, so the *)
(* next observation is refused by neither.                                 *)
NumbersAgree == dos.kind = "sound_boundary" => dos.seq = dos.last

(* What the arena gave out lies in it and apart.                           *)
ArenaIsWhole ==
  /\ ArenaBegin <= dos.next /\ dos.next <= ArenaEnd
  /\ dos.sound # 0 => ArenaBegin <= dos.sound /\ dos.sound + dos.size <= dos.next
  /\ dos.child # 0 => /\ dos.sound # 0 /\ dos.sound + dos.size <= dos.child
                      /\ dos.child + ChildSize <= dos.next

(* What was loaded is still there, but where the video driver was observed *)
(* to be loaded: its segment is no engine key, and the two share one       *)
(* memory.  The vector of INT 95h points at the sound driver.              *)
Overlaid(segment) == video.segment = segment
ImagesAreKept ==
  /\ dos.sound # 0 => image[dos.sound] = "sound" \/ Overlaid(dos.sound)
  /\ dos.child # 0 => image[dos.child] = "child" \/ Overlaid(dos.child)
  /\ dos.vector = dos.sound

(* The title's initialization runs exactly in the child that was loaded;   *)
(* a title entered from outside has neither.                               *)
TitleHasItsChild ==
  /\ dos.started <=> dos.child # 0
  /\ dos.started => dos.kind = "title" /\ dos.code = dos.child
  /\ dos.kind = "title" => dos.entry = "title_entry" /\ dos.sound # 0

LoadsAreSound ==
  /\ NumbersAgree /\ ArenaIsWhole /\ ImagesAreKept /\ TitleHasItsChild
  /\ met.front = "host" => met.shown = dos.kind
=============================================================================

------------------------------ MODULE AtariConfig ------------------------------
(***************************************************************************)
(* The configuration consumer of the Atari Millennium:                     *)
(* MillenniumAtariConfigConsumerSession, from the status register to the   *)
(* return of the loader of MILL22B.INF, with the coordinator's operations  *)
(* over it and what those write to the native memory.                      *)
(*                                                                         *)
(* The session is at one place, atari.at, named for the operation that     *)
(* comes next; every operation refuses a second answer, an older sequence  *)
(* and another generation, and changes nothing then.  A batch of effects   *)
(* that the memory refuses refuses its operation: a batch whose id has     *)
(* been applied before, or one that writes a byte twice.  A test may also  *)
(* use the session directly, with a memory of its own: atari.via.          *)
(*                                                                         *)
(* The picture has its own record: the registers of the unpacker, with the *)
(* words drawn so far; and the fade of the palette another.                *)
(***************************************************************************)
EXTENDS Integers, FiniteSets, Edges

CONSTANTS Planes,      \* bit planes of the picture (4)
          Columns16,   \* groups of sixteen pixels in its widest line (20)
          Lines,       \* lines of the highest picture (255)
          CountLimit,  \* values of a 16-bit counter (65,536)
          RunLimit,    \* values of a token's run length (64)
          ByteLimit,   \* values of a byte (256)
          FadePasses,  \* passes of the palette's fade after its first (6)
          Blocks       \* blocks of the callee's loop (3)

ASSUME ConfigAssumption ==
  /\ \A n \in {Planes, Columns16, Lines, Blocks} : n \in Nat \ {0}
  /\ FadePasses \in Nat /\ RunLimit \in Nat \ {0}
  /\ ByteLimit \in Nat /\ CountLimit \in Nat
  /\ RunLimit < ByteLimit /\ RunLimit * ByteLimit <= CountLimit /\ Lines < CountLimit

VARIABLES atari,    \* the session, and what the native memory has of it
          picture,  \* the unpacker's registers, and the words drawn
          fade      \* one tone of the palette

configVars == <<atari, picture, fade>>

(* How far the module has been read into memory: not its first jump, the   *)
(* jump, the entry's prologue and helper, or all the entry calls.          *)
LoadedParts == 0..3

NewAtari(v) ==
  [via |-> v, at |-> "status_register", block |-> 0, second |-> FALSE, prefix |-> FALSE,
   setUp |-> FALSE, unpacks |-> 0, loaded |-> 0, closed |-> FALSE, entered |-> FALSE]

NoPicture ==
  [columns |-> 1, rows |-> 1, column |-> 0, row |-> 0, plane |-> 0, run |-> 0,
   address |-> 0, line |-> 0, base |-> 0, drawn |-> {}, twice |-> FALSE]

NoFade == [level |-> 0, step |-> 0, colour |-> 0, start |-> 0, left |-> 0, passes |-> 0]

ConfigInit ==
  /\ \E v \in {"coordinator", "session"} : atari = NewAtari(v)
  /\ picture = NoPicture /\ fade = NoFade

-----------------------------------------------------------------------------
(* From the status register to the first Fopen.                            *)

(* In supervisor mode the three writes to the sound chip are two batches,  *)
(* for the last overwrites the first.                                      *)
ServiceEdges16 ==
  {<<"status_register", "selector_two">>, <<"selector_two", "selector_three">>,
   <<"selector_three", "selector_four">>, <<"selector_four", "line_a">>,
   <<"line_a", "selector_21">>, <<"selector_21", "selector_6">>, <<"selector_6", "jsr_2b55a">>}

CalleeEdges ==
  {<<"jsr_2b55a", "bsr_2b59a">>, <<"bsr_2b59a", "d0_indexed_byte">>,
   <<"d0_indexed_byte", "a1_setup">>, <<"a1_setup", "d0_indexed_word">>,
   <<"d0_indexed_word", "a0_indexed_word">>, <<"a0_indexed_word", "loop_branch">>}

(* The callee fills one block after another; its epilogue needs the last.  *)
LoopBranch(s) ==
  IF s.block + 1 < Blocks
  THEN [s EXCEPT !.block = @ + 1, !.at = "d0_indexed_word"]
  ELSE [s EXCEPT !.at = "movem_frame"]

CallerEdges ==
  {<<"movem_frame", "jsr_2aa68">>, <<"jsr_2aa68", "selector_38">>,
   <<"selector_38", "jsr_2aa0c">>, <<"jsr_2aa0c", "fopen">>}

StraightEdges == ServiceEdges16 \cup CalleeEdges \cup CallerEdges

Straight ==
  /\ \E a \in EdgeEnds(StraightEdges, atari.at) : atari' = [atari EXCEPT !.at = a]
  /\ UNCHANGED <<picture, fade>>

CalleeLoop ==
  /\ atari.at = "loop_branch"
  /\ atari' = LoopBranch(atari) /\ UNCHANGED <<picture, fade>>

-----------------------------------------------------------------------------
(* The configuration file, read twice by one routine.                      *)

Fopen ==
  /\ atari.at = "fopen"
  /\ \E a \in {"fopen_spin", "jsr_2a5c2"} : atari' = [atari EXCEPT !.at = a]
  /\ UNCHANGED <<picture, fade>>

(* What comes of the read is looked at only when its prefix is.            *)
Fread ==
  /\ \/ atari.at = "jsr_2a5c2" /\ atari' = [atari EXCEPT !.at = "fread"]
     \/ /\ atari.at = "fread"
        /\ \E whole \in BOOLEAN : atari' = [atari EXCEPT !.at = "fclose", !.prefix = whole]
  /\ UNCHANGED <<picture, fade>>

(* The first close is followed by the picture, and so is the second when   *)
(* it is answered by the operation of the first, which does not ask.       *)
Fclose ==
  /\ atari.at = "fclose"
  /\ \/ atari' = [atari EXCEPT !.at = "fread_prefix"]
     \/ atari.second /\ atari' = [atari EXCEPT !.at = "second_rts"]
  /\ UNCHANGED <<picture, fade>>

FreadPrefix ==
  /\ atari.at = "fread_prefix" /\ atari.prefix
  /\ atari' = [atari EXCEPT !.at = "jsr_2b2be"] /\ UNCHANGED <<picture, fade>>

-----------------------------------------------------------------------------
(* The unpacker.  A word's address counts in words: the planes of a group  *)
(* lie side by side, and a line is as long as the widest.                  *)

LineWords == Planes * Columns16

(* A decremented counter of sixteen bits; of a zero count it makes a long  *)
(* one.                                                                    *)
Decremented(n) == (n - 1) % CountLimit

NewPicture(c, r) ==
  [NoPicture EXCEPT !.columns = c, !.rows = r, !.column = c, !.row = r, !.plane = Planes]

(* Mutant: the new plane goes on from the last line of the one before.     *)
NextPlaneKeepingLine(p) ==
  IF p.plane = 1 THEN [p EXCEPT !.plane = 0, !.row = 0]
  ELSE [p EXCEPT !.plane = @ - 1, !.base = @ + 1, !.address = p.base + 1,
                 !.column = p.columns, !.row = p.rows]

(* After a word: the next group, or the next line, or the next plane, each *)
(* with its counters as they began.                                        *)
NextPlane(p) ==
  IF p.plane = 1 THEN [p EXCEPT !.plane = 0, !.row = 0]
  ELSE [p EXCEPT !.plane = @ - 1, !.base = @ + 1, !.line = p.base + 1, !.address = p.base + 1,
                 !.column = p.columns, !.row = p.rows]

NextLine(p) ==
  IF Decremented(p.row) = 0 THEN NextPlane(p)
  ELSE [p EXCEPT !.row = Decremented(@), !.line = @ + LineWords,
                 !.address = p.line + LineWords, !.column = p.columns]

NextGroup(p) == IF p.column = 0 THEN NextLine(p) ELSE p

Drawn(p) ==
  [p EXCEPT !.drawn = @ \cup {p.address}, !.twice = @ \/ p.address \in p.drawn,
            !.address = @ + Planes, !.column = @ - 1]

(* The set-up's batch has one id for every run of the routine, so that the *)
(* memory refuses a second; the picture's lines are a byte, and zero lines *)
(* are not told from all a counter can count.                              *)
Unpack ==
  /\ atari.at = "jsr_2b2be"
  /\ atari.via = "coordinator" => ~atari.setUp
  /\ \E c \in 1..Columns16, r \in 0..Lines : picture' = NewPicture(c, r)
  /\ atari' = [atari EXCEPT !.at = "source_byte", !.setUp = TRUE,
                            !.unpacks = IF @ < 2 THEN @ + 1 ELSE @]
  /\ UNCHANGED fade

(* A token's two high bits say what follows; the rest is a length.  The    *)
(* extended form takes more of it from the next byte.                      *)
SourceByte ==
  /\ atari.at = "source_byte"
  /\ \E a \in {"zero_pair", "replicated", "swapped", "extended"}, n \in 0..(RunLimit - 1) :
       /\ atari' = [atari EXCEPT !.at = a]
       /\ picture' = [picture EXCEPT !.run = n]
  /\ UNCHANGED fade

ZeroPair ==
  /\ atari.at = "zero_pair"
  /\ picture' = Drawn(picture) /\ atari' = [atari EXCEPT !.at = "zero_counter"]
  /\ UNCHANGED fade

(* Only the low byte of the run is counted down.                           *)
ZeroCounter ==
  /\ atari.at = "zero_counter"
  /\ LET p == NextGroup(picture)  n == (p.run - 1) % ByteLimit IN
       /\ picture' = IF p.plane = 0 THEN p ELSE [p EXCEPT !.run = n]
       /\ atari' = [atari EXCEPT !.at = IF p.plane = 0 THEN "complete_picture"
                                        ELSE IF n = 0 THEN "source_byte" ELSE "zero_pair"]
  /\ UNCHANGED fade

(* One word of a run after the other, until the run or the picture ends.   *)
RunWord(p) ==
  LET q == NextGroup(Drawn(p)) IN
  IF q.plane = 0 THEN q ELSE [q EXCEPT !.run = Decremented(@)]

RunDrawn(p) ==
  LET n == IF p.run = 0 THEN CountLimit ELSE p.run
      after[k \in 0..n] ==
        IF k = 0 THEN p
        ELSE IF after[k - 1].plane = 0 THEN after[k - 1] ELSE RunWord(after[k - 1])
  IN after[n]

Run ==
  /\ atari.at \in {"replicated", "swapped", "extended"}
  /\ \E low \in 0..(ByteLimit - 1) :
       LET p == IF atari.at = "extended"
                THEN [picture EXCEPT !.run = @ * ByteLimit + low] ELSE picture
       IN picture' = RunDrawn(p)
  /\ atari' = [atari EXCEPT !.at = IF picture'.plane = 0 THEN "complete_picture" ELSE "source_byte"]
  /\ UNCHANGED fade

PictureStep == Unpack \/ SourceByte \/ ZeroPair \/ ZeroCounter \/ Run

-----------------------------------------------------------------------------
(* The fade: a step is added to a tone's level in every pass, and a carry  *)
(* raises its colour by one.  What the unpacker and the fade leave in      *)
(* their registers is not read again, and is forgotten here.               *)

Faded(f) ==
  [f EXCEPT !.level = (@ + f.step) % ByteLimit, !.passes = @ + 1,
            !.colour = IF f.level + f.step > ByteLimit - 1 THEN @ + 1 ELSE @]

CopyPalette ==
  /\ \/ /\ atari.at = "complete_picture"
        /\ atari' = [atari EXCEPT !.at = "palette_copy"] /\ UNCHANGED fade
        /\ UNCHANGED picture
     \/ /\ atari.at = "palette_copy"
        /\ atari' = [atari EXCEPT !.at = "palette_words"] /\ picture' = NoPicture
        /\ \E level, step \in 0..(ByteLimit - 1) :
             fade' = [NoFade EXCEPT !.level = level, !.step = step, !.left = FadePasses]

(* The words are what the palette's memory has before the first pass.      *)
PaletteWords ==
  /\ atari.at = "palette_words"
  /\ \E c \in 0..1 :
       fade' = Faded([fade EXCEPT !.colour = c, !.start = c * ByteLimit + fade.level])
  /\ atari' = [atari EXCEPT !.at = "palette_set"] /\ UNCHANGED picture

PaletteSet ==
  /\ atari.at = "palette_set"
  /\ IF fade.left = 0
     THEN atari' = [atari EXCEPT !.at = "palette_last"] /\ UNCHANGED fade
     ELSE /\ atari' = [atari EXCEPT !.at = "palette_recurrence"]
          /\ fade' = [fade EXCEPT !.left = @ - 1]
  /\ UNCHANGED picture

PaletteRecurrence ==
  /\ atari.at = "palette_recurrence"
  /\ fade' = Faded(fade)
  /\ atari' = [atari EXCEPT !.at = "palette_set"] /\ UNCHANGED picture

(* The return of the palette's routine opens the file a second time.       *)
FadeReturn ==
  /\ \/ /\ atari.at = "palette_last"
        /\ atari' = [atari EXCEPT !.at = "palette_rts"] /\ UNCHANGED fade
     \/ /\ atari.at = "palette_rts"
        /\ atari' = [atari EXCEPT !.at = "jsr_2aa0c", !.second = TRUE] /\ fade' = NoFade
  /\ UNCHANGED picture

FadeStep == CopyPalette \/ PaletteWords \/ PaletteSet \/ PaletteRecurrence \/ FadeReturn

-----------------------------------------------------------------------------
(* The loader of the module.                                               *)

LoaderEdges ==
  {<<"second_rts", "second_selector_38">>, <<"second_selector_38", "final_rts">>,
   <<"final_rts", "post_fopen">>}

(* A failed Fopen spins, a Fread longer than the file is refused, and a    *)
(* short one leaves the rest of the module's memory as it was.  The close  *)
(* writes the mark the module compares with.                               *)
Loader ==
  /\ \/ \E a \in EdgeEnds(LoaderEdges, atari.at) : atari' = [atari EXCEPT !.at = a]
     \/ /\ atari.at = "post_fopen"
        /\ \E a \in {"post_fopen_spin", "post_fread"} : atari' = [atari EXCEPT !.at = a]
     \/ /\ atari.at = "post_fread"
        /\ \E n \in LoadedParts : atari' = [atari EXCEPT !.at = "post_fclose", !.loaded = n]
     \/ /\ atari.at = "post_fclose"
        /\ atari' = [atari EXCEPT !.at = "post_rts", !.closed = TRUE]
  /\ UNCHANGED <<picture, fade>>

(* The loader's return, to the module's first jump or elsewhere.           *)
LoaderReturns(toModule) ==
  /\ atari.at = "post_rts"
  /\ atari' = [atari EXCEPT !.at = "complete", !.entered = toModule]
  /\ UNCHANGED <<picture, fade>>

ConfigStep ==
  \/ Straight \/ CalleeLoop \/ Fopen \/ Fread \/ Fclose \/ FreadPrefix
  \/ PictureStep \/ FadeStep \/ Loader

-----------------------------------------------------------------------------
(* The type invariant of the session.                                      *)
ConfigPlaces ==
  Sources(StraightEdges) \cup Sources(LoaderEdges) \cup
  {"loop_branch", "fopen", "fopen_spin", "jsr_2a5c2", "fread", "fclose", "fread_prefix",
   "jsr_2b2be", "source_byte", "zero_pair", "zero_counter", "replicated", "swapped", "extended",
   "complete_picture", "palette_copy", "palette_words", "palette_set", "palette_recurrence",
   "palette_last", "palette_rts", "post_fopen", "post_fopen_spin", "post_fread", "post_fclose",
   "post_rts", "complete"}

ConfigTypeOK ==
  /\ atari.at \in ConfigPlaces /\ atari.via \in {"coordinator", "session"}
  /\ atari.block \in 0..(Blocks - 1) /\ atari.unpacks \in 0..2 /\ atari.loaded \in LoadedParts
  /\ \A b \in {atari.second, atari.prefix, atari.setUp, atari.closed, atari.entered} : b \in BOOLEAN
  /\ picture.column \in 0..Columns16 /\ picture.row \in 0..(CountLimit - 1)
  /\ picture.plane \in 0..Planes /\ picture.run \in 0..(CountLimit - 1)
  /\ fade.level \in 0..(ByteLimit - 1) /\ fade.left \in 0..FadePasses

(* The words before the place the counters name, plane by plane and line   *)
(* by line.                                                                *)
Remaining(n) == IF n = 0 THEN CountLimit ELSE n

WordsBefore(p) ==
  LET planes == Planes - p.plane
      lines  == Remaining(p.rows) - Remaining(p.row)
      groups == p.columns - p.column
  IN {x[1] + LineWords * x[2] + Planes * x[3] :
        x \in {y \in (0..(Planes - 1)) \X (0..(Remaining(p.rows) - 1)) \X (0..(p.columns - 1)) :
                 \/ y[1] < planes
                 \/ y[1] = planes /\ y[2] < lines
                 \/ y[1] = planes /\ y[2] = lines /\ y[3] < groups}}

(* However its runs fall across lines and planes, the unpacker has drawn   *)
(* each word before its place once, and no other; a picture it leaves is   *)
(* whole.                                                                  *)
PictureIsWhole ==
  picture # NoPicture =>
    /\ ~picture.twice /\ picture.drawn = WordsBefore(picture)
    /\ atari.at = "complete_picture" => picture.plane = 0

(* The fade loses nothing to rounding: colour and level together are the   *)
(* start and one step for each pass, and the last call is made after the   *)
(* first pass and all that follow it.                                      *)
FadeIsExact ==
  atari.at \in {"palette_set", "palette_recurrence", "palette_last", "palette_rts"} =>
    /\ fade.colour * ByteLimit + fade.level = fade.start + fade.passes * fade.step
    /\ atari.at \in {"palette_last", "palette_rts"} => fade.passes = FadePasses + 1

(* Through the coordinator the picture is unpacked once, although nothing  *)
(* in the session keeps the second close from the first one's operation.   *)
PictureDrawnOnce == atari.via = "coordinator" => atari.unpacks <= 1

(* The picture is unpacked whole, once, and shown by an exact fade.        *)
PictureIsSound == PictureIsWhole /\ FadeIsExact /\ PictureDrawnOnce
=============================================================================

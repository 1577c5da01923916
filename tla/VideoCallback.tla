----------------------------- MODULE VideoCallback -----------------------------
(***************************************************************************)
(* Function thirteen of Millennium's video driver entered by its interrupt *)
(* (MillenniumDosVideoFunction13InterruptSession): the wait for a retrace, *)
(* and on MCGA the callback behind it, which counts its descriptors down,  *)
(* copies the picture of one that is due, fades its palette and restores   *)
(* what it saved.  Every step is an observation or the execution of one    *)
(* instruction; each is refused unless it is the one the place asks for.   *)
(***************************************************************************)
EXTENDS Integers

CONSTANTS
  WordTop,     \* the largest word
  ByteTop      \* the largest byte

ASSUME VideoAssumption ==
  {WordTop, ByteTop} \subseteq Nat \ {0} /\ 3 * (ByteTop + 1) <= WordTop

DriverWord == 0..WordTop
DriverByte == 0..ByteTop
InWord(n) == n % (WordTop + 1)
NoCount == -1

VARIABLES
  card,        \* the driver: EGA or MCGA
  callback     \* the session of the interrupt

callbackVars == <<card, callback>>

(* Places: of the interrupt, of the descriptors, of the copy and of the    *)
(* palette.                                                                *)
InterruptPlaces ==
  {"request", "retrace_clear", "retrace_set", "postlude", "callback_byte", "callback_word",
   "local_return", "counter", "saves_zero", "zero_pointer", "zero_stop", "flag", "saves",
   "iret", "returned"}
DescriptorPlaces ==
  {"cx", "pointer", "descriptor", "video_pointer", "selector", "selector_stop", "next",
   "pops", "flags", "palette_return"}
RowPlaces == {"width", "limit", "source", "destination", "density", "current", "store"}
EpiloguePlaces ==
  {"epilogue_si", "epilogue_ds", "epilogue_count", "epilogue_clear", "epilogue_jump"}
ColourPlaces == {"palette_pointer", "component", "component_out", "palette_loop"}
PalettePlaces ==
  {"palette_count", "palette_index", "palette_clear", "palette_prefix", "palette_source",
   "palette_out", "palette_retrace", "palette_si", "palette_ds", "descriptor_word", "count_stack"}
    \union ColourPlaces
CallbackPlaces ==
  InterruptPlaces \union DescriptorPlaces \union {"copy_route", "height"} \union RowPlaces
    \union EpiloguePlaces \union PalettePlaces

NoCallback ==
  [at |-> "request", busy |-> FALSE, pushed |-> 0, popped |-> 0, reads |-> 0, cx |-> 0,
   rows |-> 0, ax |-> 0, dx |-> 0, colours |-> 0, component |-> 0, outer |-> NoCount]

CallbackInit == card \in {"ega", "mcga"} /\ callback = NoCallback

CallbackAt(place) == callback.at = place
Onward(changed, place) == callback' = [changed EXCEPT !.at = place] /\ UNCHANGED card

-----------------------------------------------------------------------------
(* The interrupt: two polls of the retrace and, on MCGA, the byte that     *)
(* says whether a callback is wanted.                                      *)
InterruptRequest == CallbackAt("request") /\ Onward(callback, "retrace_clear")

InterruptRetrace ==
  \/ CallbackAt("retrace_clear") /\ Onward(callback, "retrace_set")
  \/ CallbackAt("retrace_set") /\ Onward(callback, IF card = "ega" THEN "iret" ELSE "postlude")

Postlude == CallbackAt("postlude") /\ \E to \in {"iret", "callback_byte"} : Onward(callback, to)

CallbackRead ==
  \/ CallbackAt("callback_byte") /\ \E to \in {"callback_word", "counter"} : Onward(callback, to)
  \/ CallbackAt("callback_word") /\ \E to \in {"local_return", "flag"} : Onward(callback, to)

(* A counter that has run out leaves the busy byte set.                    *)
CallbackCounter ==
  /\ CallbackAt("counter")
  /\ \/ Onward([callback EXCEPT !.busy = TRUE], "saves_zero")
     \/ Onward([callback EXCEPT !.busy = FALSE], "local_return")

BusyFlag == CallbackAt("flag") /\ Onward([callback EXCEPT !.busy = TRUE], "saves")

RegisterSaves ==
  \/ CallbackAt("saves") /\ Onward([callback EXCEPT !.pushed = 9], "cx")
  \/ CallbackAt("saves_zero") /\ Onward([callback EXCEPT !.pushed = 8], "zero_pointer")

(* The end of what is known of a counter that ran out.                     *)
ZeroPointer == CallbackAt("zero_pointer") /\ Onward(callback, "zero_stop")

InterruptStep ==
  \/ InterruptRequest \/ InterruptRetrace \/ Postlude \/ CallbackRead \/ CallbackCounter
  \/ BusyFlag \/ RegisterSaves \/ ZeroPointer

-----------------------------------------------------------------------------
(* The descriptors.  The session counts the far pointers it has read, and  *)
(* a copy asks for exactly two: the count is kept up to one past that.     *)
Wanted2 == 2
PointerCounted(session) == [session EXCEPT !.reads = IF @ > Wanted2 THEN @ ELSE @ + 1]

CountRead == CallbackAt("cx") /\ \E n \in DriverWord : Onward([callback EXCEPT !.cx = n], "pointer")
PointerRead == CallbackAt("pointer") /\ Onward(PointerCounted(callback), "descriptor")
TimerRead == CallbackAt("descriptor") /\ \E to \in {"video_pointer", "next"} : Onward(callback, to)
VideoPointer == CallbackAt("video_pointer") /\ Onward(PointerCounted(callback), "selector")
DescriptorSelector ==
  CallbackAt("selector") /\ \E to \in {"selector_stop", "copy_route", "next"} : Onward(callback, to)

(* The next descriptor, by the count the callback read.                    *)
LoopIteration ==
  /\ CallbackAt("next")
  /\ LET n == InWord(callback.cx - 1) IN
       Onward([callback EXCEPT !.cx = n], IF n = 0 THEN "pops" ELSE "descriptor")

(* The same, by the count the palette's pass took from the stack: behind a *)
(* palette either is admitted.                                             *)
PaletteDescriptorLoop ==
  /\ CallbackAt("next") /\ callback.outer # NoCount
  /\ LET n == InWord(callback.outer - 1) IN
       Onward([callback EXCEPT !.outer = n], IF n = 0 THEN "pops" ELSE "descriptor")

(* What was saved is restored from the stack the palette's pass found: a   *)
(* callback that faded no palette waits here for ever.                     *)
ReturnPop ==
  /\ CallbackAt("pops") /\ callback.outer # NoCount
  /\ LET n == callback.popped + 1 IN
       Onward([callback EXCEPT !.popped = n], IF n = 9 THEN "flags" ELSE "pops")

FlagClear == CallbackAt("flags") /\ Onward([callback EXCEPT !.busy = FALSE], "palette_return")
CallbackReturn == callback.at \in {"palette_return", "local_return"} /\ Onward(callback, "iret")
Iret == CallbackAt("iret") /\ Onward(callback, "returned")

DescriptorStep ==
  \/ CountRead \/ PointerRead \/ TimerRead \/ VideoPointer \/ DescriptorSelector \/ LoopIteration
  \/ PaletteDescriptorLoop \/ ReturnPop \/ FlagClear \/ CallbackReturn \/ Iret

-----------------------------------------------------------------------------
(* The copy: three bytes for every row of the height and one more, each    *)
(* with what the last left over.                                           *)
CopyRoute == CallbackAt("copy_route") /\ Onward(callback, "height")

(* mutant: a copy wherever its route leads to one. *)
CopyHeightAnywhere ==
  /\ CallbackAt("height")
  /\ \E h \in DriverByte : Onward([callback EXCEPT !.rows = 3 * (h + 1)], "width")

(* The nine saves and two pointers are asked for; a second copy within one *)
(* callback never has them.                                                *)
CopyHeight ==
  /\ CallbackAt("height") /\ callback.reads = Wanted2
  /\ \E h \in DriverByte : Onward([callback EXCEPT !.rows = 3 * (h + 1)], "width")

CopyWidth == CallbackAt("width") /\ Onward(callback, "limit")
CopyLimit == CallbackAt("limit") /\ \E n \in DriverWord : Onward([callback EXCEPT !.dx = n], "source")
CopySource ==
  CallbackAt("source") /\ \E b \in DriverByte : Onward([callback EXCEPT !.ax = b], "destination")

CopyDestination ==
  /\ CallbackAt("destination")
  /\ \E w \in DriverWord :
       LET sum == callback.ax + w
           ax == InWord(sum)
       IN Onward([callback EXCEPT !.ax = ax],
               IF sum > WordTop \/ ax >= callback.dx THEN "density" ELSE "store")

CopyDensity == CallbackAt("density") /\ Onward(callback, "current")

(* A limit of zero takes nothing away and never ends.                      *)
CopyCurrent ==
  /\ CallbackAt("current")
  /\ LET ax == InWord(callback.ax - callback.dx) IN
       Onward([callback EXCEPT !.ax = ax], IF ax >= callback.dx THEN "current" ELSE "store")

(* The next byte overwrites what is left in ax, and the next copy the      *)
(* limit.                                                                  *)
CopyStore ==
  /\ CallbackAt("store")
  /\ LET n == callback.rows - 1
         dx == IF n = 0 THEN 0 ELSE callback.dx
     IN Onward([callback EXCEPT !.rows = n, !.ax = 0, !.dx = dx],
             IF n = 0 THEN "epilogue_si" ELSE "source")

Epilogue ==
  \/ CallbackAt("epilogue_si") /\ Onward(callback, "epilogue_ds")
  \/ CallbackAt("epilogue_ds") /\ Onward(callback, "epilogue_count")
  \/ CallbackAt("epilogue_count") /\ \E to \in {"epilogue_clear", "epilogue_jump"} : Onward(callback, to)
  \/ CallbackAt("epilogue_clear") /\ Onward(callback, "epilogue_jump")
  \/ CallbackAt("epilogue_jump") /\ Onward(callback, "palette_count")

CopyStep ==
  \/ CopyRoute \/ CopyHeight \/ CopyWidth \/ CopyLimit \/ CopySource \/ CopyDestination
  \/ CopyDensity \/ CopyCurrent \/ CopyStore \/ Epilogue

-----------------------------------------------------------------------------
(* The palette: an index that goes round below the count, then the count's *)
(* low byte and one more of colours behind a retrace.                      *)
PaletteCount ==
  /\ CallbackAt("palette_count") /\ callback.rows = 0
  /\ \E n \in DriverByte : Onward([callback EXCEPT !.rows = n], "palette_index")

PaletteIndex ==
  /\ CallbackAt("palette_index")
  /\ \E i \in DriverByte :
       LET past == (i + 1) % (ByteTop + 1) > callback.rows IN
         Onward(callback, IF past THEN "palette_clear" ELSE "palette_prefix")

PalettePrefix ==
  \/ CallbackAt("palette_clear") /\ Onward(callback, "palette_prefix")
  \/ CallbackAt("palette_prefix") /\ Onward([callback EXCEPT !.rows = @ + 1], "palette_source")
  \/ CallbackAt("palette_source") /\ Onward(callback, "palette_out")
  \/ CallbackAt("palette_out") /\ Onward(callback, "palette_retrace")

PaletteRetrace ==
  /\ CallbackAt("palette_retrace")
  /\ Onward([callback EXCEPT !.colours = callback.rows, !.rows = 0], "palette_pointer")

PalettePointer == CallbackAt("palette_pointer") /\ Onward(PointerCounted(callback), "component")

Component == CallbackAt("component") /\ callback.colours # 0 /\ Onward(callback, "component_out")

ComponentOut ==
  /\ CallbackAt("component_out")
  /\ LET n == (callback.component + 1) % 3 IN
       Onward([callback EXCEPT !.component = n], IF n = 0 THEN "palette_loop" ELSE "component")

PaletteLoop ==
  /\ CallbackAt("palette_loop") /\ callback.colours # 0
  /\ LET n == callback.colours - 1 IN
       Onward([callback EXCEPT !.colours = n], IF n = 0 THEN "palette_si" ELSE "component")

PaletteRestore ==
  \/ CallbackAt("palette_si") /\ Onward(callback, "palette_ds")
  \/ CallbackAt("palette_ds") /\ Onward(callback, "descriptor_word")
  \/ CallbackAt("descriptor_word") /\ Onward(callback, "count_stack")
  \/ CallbackAt("count_stack") /\ \E n \in DriverWord : Onward([callback EXCEPT !.outer = n], "next")

PaletteStep ==
  \/ PaletteCount \/ PaletteIndex \/ PalettePrefix \/ PaletteRetrace \/ PalettePointer
  \/ Component \/ ComponentOut \/ PaletteLoop \/ PaletteRestore

CallbackStep == InterruptStep \/ DescriptorStep \/ CopyStep \/ PaletteStep

-----------------------------------------------------------------------------
(* The types of the session.                                               *)
CallbackTypeOK ==
  /\ card \in {"ega", "mcga"} /\ callback.at \in CallbackPlaces /\ callback.busy \in BOOLEAN
  /\ callback.pushed \in {0, 8, 9} /\ callback.popped \in 0..9
  /\ callback.reads \in 0..(Wanted2 + 1)
  /\ {callback.cx, callback.ax, callback.dx, callback.rows, callback.colours} \subseteq DriverWord
  /\ callback.component \in 0..2 /\ callback.outer \in DriverWord \union {NoCount}

(* The interrupt returns with the busy byte clear and everything it saved  *)
(* restored, over whichever route and however its two counts of            *)
(* descriptors disagree.                                                   *)
InterruptIsBalanced ==
  callback.at \in {"iret", "returned"} => ~callback.busy /\ callback.pushed = callback.popped

(* A copy is the first of its callback, has rows left at every byte, and   *)
(* stores what is less than its limit; a colour is left at every           *)
(* component.                                                              *)
CopyIsBounded ==
  /\ callback.at \in RowPlaces =>
       callback.rows \in 1..(3 * (ByteTop + 1)) /\ callback.outer = NoCount /\ callback.popped = 0
  /\ callback.at = "store" => callback.ax < callback.dx
  /\ callback.at \in ColourPlaces => callback.colours \in 1..(ByteTop + 1)
=============================================================================

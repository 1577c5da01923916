---------------------------- MODULE VideoFunctions ----------------------------
(***************************************************************************)
(* The functions of Millennium's video driver that have a session of their *)
(* own: zero sets the mode, six draws a picture, thirteen waits for the    *)
(* retrace and thirty-one answers from the driver's state.  One call is    *)
(* followed from its entry to its return.  The sessions of function six    *)
(* follow one another by address, each begun with what the last one left   *)
(* by whoever holds it; src/ wires none of them into the coordinator.      *)
(***************************************************************************)
EXTENDS VideoCallback

CONSTANTS
  MaxRows,     \* the rows one drawing may take
  MaxBytes     \* the bytes one drawing may take

ASSUME DrawingAssumption == {MaxRows, MaxBytes} \subseteq Nat \ {0} /\ MaxRows < WordTop

VARIABLES
  call,        \* the function called: its place, its stack, its counts
  screen       \* the memory a copy is applied to

videoVars == <<card, callback, call, screen>>

FunctionEntry ==
  [zero |-> {"mode_query", "set_mode"}, six |-> {"width", "limit"},
   thirteen |-> {"poll_clear"}, thirty_one |-> {"local_state"}]

(* The places of each session, beside those a caller gets no further from. *)
RetracePlaces == {"poll_clear", "poll_set"}
ZeroPlaces ==
  {"mode_query", "set_mode", "verify_mode", "mode_match", "mode_mismatch", "single_count",
   "int92", "stack_prefix", "planes", "count_pop", "count_store", "near_return"}
ClipPlaces == {"width", "limit", "unsigned_width", "signed_width", "clip_return", "clip_prefix"}
TablePlaces == {"descriptor_byte", "table_byte"}
PointerPlaces ==
  {"descriptor_offset", "descriptor_segment", "header", "header_wraps", "nested_offset",
   "nested_wraps", "nested_segment", "segment_pop"}
SetupPlaces ==
  {"multiply", "addend", "ah_byte", "position", "width_word", "height_word", "final_byte"}
HelperPlaces == {"threshold", "table_word", "table_word_two", "bx_pop", "helper_return"}
CallerPlaces ==
  {"caller_return", "restore", "mode_byte", "overlay_branch", "copy_return", "copied"}
BytePlaces == {"row_push", "source_read", "destination_read", "destination_write"}
OverlayPlaces == BytePlaces \union {"row_pop", "overlay_return"}
CallPlaces ==
  {"none", "returned", "local_state"} \union RetracePlaces \union ZeroPlaces \union ClipPlaces
    \union TablePlaces \union PointerPlaces \union SetupPlaces \union HelperPlaces
    \union CallerPlaces \union OverlayPlaces

NoCall ==
  [fn |-> "none", at |-> "none", depth |-> 0, carry |-> FALSE, count |-> 0, ax |-> 0,
   popped |-> 0, done |-> 0, left |-> 0, seen |-> 0]

(* A mode that is known is not asked for; EGA reads the width first.       *)
VideoInit ==
  /\ CallbackInit /\ screen = "untouched"
  /\ \/ call = NoCall
     \/ \E fn \in DOMAIN FunctionEntry : \E at \in FunctionEntry[fn] :
          /\ call = [NoCall EXCEPT !.fn = fn, !.at = at]
          /\ fn = "six" => (at = "width") = (card = "ega")

CallAt(place) == call.at = place
CallMoves(changed) == call' = changed /\ UNCHANGED <<card, callback, screen>>
CallOnward(place) == CallMoves([call EXCEPT !.at = place])
Above(place, words) == CallMoves([call EXCEPT !.at = place, !.depth = @ + words])

-----------------------------------------------------------------------------
(* Thirteen and thirty-one.                                                *)
RetracePoll ==
  \/ CallAt("poll_clear") /\ CallOnward("poll_set")
  \/ CallAt("poll_set") /\ CallOnward("returned")

LocalState == CallAt("local_state") /\ CallOnward("returned")

-----------------------------------------------------------------------------
(* Zero: the mode is set and asked for again, and another than the one set *)
(* is a failure.                                                           *)
ModeAnswer ==
  \/ CallAt("mode_query") /\ CallOnward("set_mode")
  \/ CallAt("set_mode") /\ CallOnward("verify_mode")
  \/ CallAt("verify_mode") /\ \E to \in {"mode_match", "mode_mismatch"} : CallOnward(to)

AtMost(n, most) == IF n < most THEN n ELSE most
EgaPlanes == 4

(* The count the machine left in cx, at most four of EGA's planes; MCGA    *)
(* stops where one plane branches off, or at its own interrupt.            *)
SuccessPostlude ==
  /\ CallAt("mode_match")
  /\ \/ /\ card = "ega"
        /\ \E cx \in DriverWord :
             CallMoves([call EXCEPT !.at = "stack_prefix", !.count = AtMost(cx, EgaPlanes)])
     \/ card = "mcga" /\ \E to \in {"single_count", "int92"} : CallOnward(to)

StackPrefix ==
  /\ CallAt("stack_prefix")
  /\ Above(IF InWord(call.count - 1) = 0 THEN "count_pop" ELSE "planes", 1)

(* A count of zero has wrapped here, and is refused for ever.              *)
PlaneLoop ==
  /\ CallAt("planes") /\ InWord(call.count - 1) \in 1..(EgaPlanes - 1)
  /\ CallMoves([call EXCEPT !.at = "count_pop", !.done = call.count - 1])

CountPop == CallAt("count_pop") /\ Above("count_store", -1)
CountStore == CallAt("count_store") /\ CallOnward("near_return")
NearReturn == CallAt("near_return") /\ Above("returned", -1)

ZeroStep ==
  \/ ModeAnswer \/ SuccessPostlude \/ StackPrefix \/ PlaneLoop \/ CountPop \/ CountStore
  \/ NearReturn

-----------------------------------------------------------------------------
(* Six: the clip against the right border.  EGA ends behind it.            *)
Clip ==
  \/ CallAt("width") /\ \E to \in {"clip_return", "limit"} : CallOnward(to)
  \/ CallAt("limit") /\ CallOnward(IF card = "ega" THEN "clip_prefix" ELSE "unsigned_width")
  \/ CallAt("unsigned_width") /\ CallOnward("signed_width")
  \/ CallAt("signed_width") /\ \E to \in {"clip_return", "descriptor_byte"} : CallOnward(to)

Table ==
  \/ CallAt("descriptor_byte") /\ CallOnward("table_byte")
  \/ CallAt("table_byte") /\ Above("descriptor_offset", 1)

(* Two pointers, of which the first may not wrap: one too high is refused  *)
(* for ever where the word behind it is read.  The data segment is popped, *)
(* and pushed again as the registers are set up.                           *)
PointerSetup ==
  \/ CallAt("descriptor_offset") /\ CallOnward("descriptor_segment")
  \/ CallAt("descriptor_segment") /\ \E to \in {"header", "header_wraps"} : CallOnward(to)
  \/ CallAt("header") /\ \E to \in {"nested_offset", "nested_wraps"} : CallOnward(to)
  \/ CallAt("nested_offset") /\ CallOnward("nested_segment")
  \/ CallAt("nested_segment") /\ CallOnward("segment_pop")
  \/ CallAt("segment_pop") /\ CallOnward("multiply")

(* Five descriptor words and two bytes; four words go to the stack, and    *)
(* the call's return behind them.                                          *)
RegisterSetup ==
  \/ CallAt("multiply") /\ CallOnward("addend")
  \/ CallAt("addend") /\ CallOnward("ah_byte")
  \/ CallAt("ah_byte") /\ CallOnward("position")
  \/ CallAt("position") /\ CallOnward("width_word")
  \/ CallAt("width_word") /\ Above("height_word", 1)
  \/ CallAt("height_word") /\ Above("final_byte", 3)
  \/ CallAt("final_byte") /\ Above("threshold", 1)

(* The helper sets the carry for a row past the threshold, and otherwise   *)
(* looks the row's address up.                                             *)
Helper ==
  \/ CallAt("threshold") /\ CallMoves([call EXCEPT !.at = "helper_return", !.carry = TRUE])
  \/ CallAt("threshold") /\ Above("table_word", 1)
  \/ CallAt("table_word") /\ CallOnward("table_word_two")
  \/ CallAt("table_word_two") /\ CallOnward("bx_pop")
  \/ CallAt("bx_pop") /\ Above("helper_return", -1)
  \/ CallAt("helper_return") /\ Above(IF call.carry THEN "caller_return" ELSE "restore", -1)

(* A carry drops the five words and returns.                               *)
Saved == 5
CallerReturn == CallAt("caller_return") /\ Above("returned", -(Saved + 1))

(* The five words are restored from what is observed, the height and the   *)
(* width among them.                                                       *)
Restore ==
  /\ CallAt("restore")
  /\ LET popped == [call EXCEPT !.popped = @ + 1, !.depth = @ - 1] IN
       IF popped.popped < Saved THEN CallMoves(popped)
       ELSE \E bp, ax \in DriverWord :
              CallMoves([popped EXCEPT !.at = "mode_byte", !.count = bp, !.ax = ax])

(* A count of zero goes all the way round.                                 *)
Times(n) == IF n = 0 THEN WordTop + 1 ELSE n

(* A copy of too many rows is refused, and the mode byte asked for again.  *)
ModeByte ==
  /\ CallAt("mode_byte")
  /\ \/ Times(call.count) <= MaxRows /\ CallOnward("copy_return")
     \/ CallOnward("overlay_branch")

(* Words and, of an odd width, a byte in front of them; a width of zero    *)
(* copies nothing.                                                         *)
RowBytes(ax) ==
  IF ax % 2 = 0 THEN 2 * (ax \div 2)
  ELSE LET rest == InWord(ax - 1) IN 1 + 2 * (rest \div 2) + (rest % 2)

CopyReturn ==
  /\ CallAt("copy_return")
  /\ CallMoves([call EXCEPT !.at = "copied", !.depth = @ - 1, !.done = Times(call.count),
                            !.seen = Times(call.count) * RowBytes(call.ax)])

(* The whole copy or none of it, within its limit of bytes; the memory may *)
(* refuse it too.                                                          *)
CopyMemory ==
  /\ CallAt("copied") /\ call.seen \in 1..MaxBytes
  /\ screen' = "copied" /\ call' = [call EXCEPT !.at = "returned"]
  /\ UNCHANGED <<card, callback>>

SixStep ==
  \/ Clip \/ Table \/ PointerSetup \/ RegisterSetup \/ Helper \/ CallerReturn \/ Restore
  \/ ModeByte \/ CopyReturn \/ CopyMemory

-----------------------------------------------------------------------------
(* The overlay: every row pushes its width, ors its bytes in one by one    *)
(* and pops the width of the next.                                         *)
Fits(width) == Times(width) <= MaxBytes - call.seen

PrepareRow(session, width) ==
  [session EXCEPT !.at = "row_push", !.depth = @ + 1, !.ax = width, !.left = Times(width)]

BeginOverlay ==
  /\ CallAt("overlay_branch") /\ Times(call.count) <= MaxRows /\ Fits(call.ax)
  /\ CallMoves(PrepareRow(call, call.ax))

OverlayByte ==
  \/ CallAt("row_push") /\ CallOnward("source_read")
  \/ CallAt("source_read") /\ CallOnward("destination_read")
  \/ CallAt("destination_read") /\ CallOnward("destination_write")
  \/ /\ CallAt("destination_write")
     /\ LET n == call.left - 1 IN
          CallMoves([call EXCEPT !.left = n, !.seen = @ + 1,
                                 !.at = IF n = 0 THEN "row_pop" ELSE "source_read"])

(* The row is counted before the width of the next is compared with the    *)
(* limit: one too wide is refused, and is counted all the same.            *)
RowPop ==
  /\ CallAt("row_pop")
  /\ \E width \in DriverWord :
       LET counted == [call EXCEPT !.done = @ + 1, !.depth = @ - 1] IN
         IF counted.done = Times(call.count)
         THEN CallMoves([counted EXCEPT !.at = "overlay_return", !.ax = 0])
         ELSE IF Fits(width) THEN CallMoves(PrepareRow(counted, width))
         ELSE CallMoves([counted EXCEPT !.depth = @ + 1, !.ax = width])

OverlayReturn == CallAt("overlay_return") /\ call.depth = 0 /\ Above("returned", -1)

OverlayStep == BeginOverlay \/ OverlayByte \/ RowPop \/ OverlayReturn

FunctionStep == RetracePoll \/ LocalState \/ ZeroStep \/ SixStep \/ OverlayStep

VideoStep ==
  \/ call.fn # "none" /\ FunctionStep
  \/ call.fn = "none" /\ CallbackStep /\ UNCHANGED <<call, screen>>

-----------------------------------------------------------------------------
(* The types of the driver's sessions.                                     *)
VideoTypeOK ==
  /\ CallbackTypeOK /\ screen \in {"untouched", "copied"}
  /\ call.fn \in DOMAIN FunctionEntry \union {"none"} /\ call.at \in CallPlaces
  /\ call.depth \in -1..(Saved + 2) /\ call.carry \in BOOLEAN /\ call.popped \in 0..Saved
  /\ {call.count, call.ax} \subseteq DriverWord
  /\ {call.done, call.left, call.seen} \subseteq Nat

(* Every return of a function leaves the stack one word above its entry's, *)
(* and the planes it counted are all set up.                               *)
ReturnsAreBalanced ==
  call.at = "returned" /\ call.fn \in {"zero", "six"} =>
    /\ call.depth = -1
    /\ call.fn = "zero" => call.count \in 1..EgaPlanes /\ call.done = call.count - 1

(* A drawing returns with the rows it was asked for, within its limits.    *)
DrawingIsBounded ==
  /\ call.fn = "six" => call.done <= MaxRows
  /\ call.at = "returned" /\ call.fn = "six" /\ ~call.carry =>
       call.done = Times(call.count) /\ call.seen \in 1..MaxBytes
  /\ call.at \in BytePlaces =>
       call.seen + call.left <= MaxBytes /\ call.depth = 1

(* The invariant of the driver: its interrupt is balanced and its copy     *)
(* bounded, its functions return where they were called from and draw no   *)
(* more than they may.                                                     *)
DriverIsSound ==
  InterruptIsBalanced /\ CopyIsBounded /\ ReturnsAreBalanced /\ DrawingIsBounded
=============================================================================

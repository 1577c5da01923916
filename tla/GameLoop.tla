------------------------------- MODULE GameLoop -------------------------------
(***************************************************************************)
(* Millennium's game behind the title's hand-off: the hand-over from       *)
(* TITLES.EXE to 2200AD.EXE (MillenniumDosTitleToGameSession), the start   *)
(* of the native process, and the loop over its functions                  *)
(* (MillenniumDosPostOverlayLoopSession) with the handlers, the shared     *)
(* helper and the overlay's adapter the coordinator runs for it.  Nothing  *)
(* runs of its own: every step is an observation.  Its address and its     *)
(* sequence number fit the place or it is refused and changes nothing.     *)
(***************************************************************************)
EXTENDS GameHandlers, FiniteSets

CONSTANTS
  Segments,      \* code segments a child may be entered with, none zero
  Slots,         \* the sixth handler's table, less its place zero
  Excluded,      \* the slots no draw takes
  Wanted,        \* the draws that fill the table
  DrawLimit,     \* the largest value a draw is made from
  RefreshAt      \* the slots after which the layout refreshes

ASSUME GameAssumption ==
  /\ {Slots, Wanted, DrawLimit} \subseteq Nat \ {0} /\ 0 \notin Segments
  /\ Excluded \subseteq 1..Slots /\ RefreshAt \subseteq 1..Slots
  /\ DrawLimit \div 2 < Slots

VARIABLES
  kind,       \* the coordinator's kind of session
  parent,     \* the hand-over and the segment of the child it entered
  process,    \* the native process
  loop,       \* the loop over the functions
  handler,    \* the running handler, or none
  six,        \* what the sixth handler has drawn and laid out
  helper,     \* the shared helper and who called it
  adapter,    \* the adapter of the second special action
  completed   \* the last handler that completed

gameVars == <<kind, parent, process, loop, handler, six, helper, adapter, completed>>

NoHandler == [key |-> 0, at |-> 0]
NoLoop == [at |-> "none", call |-> 0, action |-> "none", key |-> 0]
NoSix == [taken |-> {}, slot |-> 0, far |-> "none"]

GameInit ==
  /\ kind = "title_handoff" /\ handler = NoHandler /\ six = NoSix /\ loop = NoLoop
  /\ parent = [at |-> "cleanup_return", segment |-> 0]
  /\ process = [at |-> "first_private", segment |-> 0]
  /\ helper = [at |-> "none", caller |-> "none"]
  /\ adapter = "none" /\ completed = [key |-> 0, at |-> 0]

-----------------------------------------------------------------------------
(* The hand-over: TITLES.EXE cleans up, ends, and its parent starts the    *)
(* game.  A carry, or an exit code other than zero, is refused.            *)
HandOver ==
  <<"cleanup_return", "driver_return", "stack_word", "local_return", "stub_return",
    "termination", "parent_exec", "child_status", "exec_request", "process_entry", "startup_call">>

HandOverStep ==
  /\ kind = "title_handoff" /\ parent.at \notin {"process_entry", "startup_call"}
  /\ \E i \in 1..(Len(HandOver) - 2) :
       HandOver[i] = parent.at /\ parent' = [parent EXCEPT !.at = HandOver[i + 1]]
  /\ UNCHANGED <<kind, process, loop, handler, six, helper, adapter, completed>>

(* The entry of the game's process also enters the native process, and     *)
(* either moves both or neither.                                           *)
ProcessEntry ==
  /\ kind = "title_handoff" /\ parent.at = "process_entry"
  /\ process = [at |-> "first_private", segment |-> 0]
  /\ \E s \in Segments :
       /\ parent' = [at |-> "startup_call", segment |-> s]
       /\ process' = [process EXCEPT !.segment = s]
  /\ UNCHANGED <<kind, loop, handler, six, helper, adapter, completed>>

(* The native process takes its interrupts' returns only as the child the  *)
(* hand-over entered.                                                      *)
ProcessMove ==
  [first_private |-> {"selected_private"},
   selected_private |-> {"local_return", "palette_interrupt"},
   local_return |-> {}, palette_interrupt |-> {"palette_returned"}, palette_returned |-> {}]

InterruptReturn ==
  /\ kind = "title_handoff" /\ parent.at = "startup_call"
  /\ process.segment # 0 /\ process.segment = parent.segment
  /\ \E to \in ProcessMove[process.at] : process' = [process EXCEPT !.at = to]
  /\ UNCHANGED <<kind, parent, loop, handler, six, helper, adapter, completed>>

(* A trace of the overlay's startup is admitted at any place of the        *)
(* hand-over, and ends it: the loop can begin.  No operation reads the     *)
(* hand-over or the native process again, so both are let go here.         *)
Left(session) == [session EXCEPT !.at = "left", !.segment = 0]

AdmitStartupTrace ==
  /\ kind = "title_handoff" /\ kind' = "gx_startup"
  /\ parent' = Left(parent) /\ process' = Left(process)
  /\ UNCHANGED <<loop, handler, six, helper, adapter, completed>>

-----------------------------------------------------------------------------
(* The loop: fifteen calls, a test after the seventh, a poll after the     *)
(* last, and the last four again after every poll.                         *)
AtCall(n) == [NoLoop EXCEPT !.at = "call", !.call = n]
PollTail == AtCall(11)

BeginLoop ==
  /\ kind = "gx_startup" /\ kind' = "post_overlay_loop"
  /\ loop' \in {AtCall(0), [NoLoop EXCEPT !.at = "palette_interrupt"]}
  /\ UNCHANGED <<parent, process, handler, six, helper, adapter, completed>>

AfterCall(n) ==
  IF n = 6 THEN [NoLoop EXCEPT !.at = "first_al"]
  ELSE IF n = 14 THEN [NoLoop EXCEPT !.at = "action"] ELSE AtCall(n + 1)

LoopCallReturn == loop.at = "call" /\ loop' = AfterCall(loop.call)
FirstAl == loop.at = "first_al" /\ loop' \in {[loop EXCEPT !.at = "toggle"], AtCall(7)}
Toggle == loop.at = "toggle" /\ loop' = AtCall(7)

Dispatch(action, key) == [NoLoop EXCEPT !.at = "dispatch", !.action = action, !.key = key]

(* The first special action skips the guard the others are read behind.    *)
Action ==
  /\ loop.at = "action"
  /\ loop' \in {PollTail, Dispatch("first_special", 0)}
        \cup {[loop EXCEPT !.at = "guard", !.action = a] : a \in {"second_special", "key", "other"}}

Guard ==
  /\ loop.at = "guard"
  /\ \/ loop' = PollTail
     \/ loop.action = "second_special" /\ loop' = Dispatch("second_special", 0)
     \/ loop.action = "key" /\ \E k \in Keys : loop' = Dispatch("key", k)

LoopStep ==
  /\ kind = "post_overlay_loop" /\ (LoopCallReturn \/ FirstAl \/ Toggle \/ Action \/ Guard)
  /\ UNCHANGED <<kind, parent, process, handler, six, helper, adapter, completed>>

(* A dispatched call returns to the last four calls, from its dispatch only. *)
DispatchReturns(action) ==
  loop.at = "dispatch" /\ loop.action = action /\ loop' = PollTail

-----------------------------------------------------------------------------
(* A handler begins at its dispatch and goes on by what its place asks.    *)
BeginHandler ==
  /\ kind = "post_overlay_loop" /\ loop.at = "dispatch" /\ loop.action = "key"
  /\ handler' = [key |-> loop.key, at |-> 1] /\ kind' = "handler" /\ six' = NoSix
  /\ UNCHANGED <<parent, process, loop, helper, adapter, completed>>

Place == Handler[handler.key][handler.at]
Running == kind = "handler" /\ handler # NoHandler
InSixth(at) == handler.key = 6 /\ handler.at = at

(* The places of the sixth whose step is more than the next place.         *)
SixthSteps == {FarSegment - 1, FarSegment, Draw, Draw + 1, Layout, LayoutRefresh}

HandlerStep ==
  /\ Running /\ Place.asks \notin {"return", "jump"}
  /\ ~(handler.key = 6 /\ handler.at \in SixthSteps)
  /\ \E to \in {Place.zero, Place.other} \ {0} : handler' = [handler EXCEPT !.at = to]
  /\ UNCHANGED <<kind, parent, process, loop, six, helper, adapter, completed>>

(* The block the helper clears must end within its segment.                *)
FarBlock ==
  /\ Running /\ UNCHANGED <<kind, parent, process, loop, helper, adapter, completed>>
  /\ \/ /\ InSixth(FarSegment - 1) /\ \E f \in {"fits", "wraps"} : six' = [six EXCEPT !.far = f]
        /\ handler' = [handler EXCEPT !.at = FarSegment]
     \/ /\ InSixth(FarSegment) /\ six.far = "fits" /\ UNCHANGED six
        /\ handler' = [handler EXCEPT !.at = FarSegment + 1]

(* A draw halves what is past the table, and counts when it takes a slot.  *)
Candidate(value) == 1 + IF value >= Slots THEN value \div 2 ELSE value

\* mutant: a draw takes an excluded slot too
DrawTakenAnyway(taken, value) == taken \cup {Candidate(value)}

DrawTaken(taken, value) == taken \cup ({Candidate(value)} \ Excluded)

DrawCandidate ==
  /\ Running /\ InSixth(Draw)
  /\ \E value \in 0..DrawLimit : six' = [six EXCEPT !.taken = DrawTaken(six.taken, value)]
  /\ handler' = [handler EXCEPT !.at = IF Cardinality(six'.taken) = Wanted THEN Draw + 1 ELSE Draw - 1]
  /\ UNCHANGED <<kind, parent, process, loop, helper, adapter, completed>>

(* The layout goes over the slots, each with a call for a taken slot or    *)
(* for a free one; some are followed by a refresh.                         *)
NextSlot(slot) == IF slot = Slots THEN LayoutFinal ELSE Layout

LayoutStep ==
  /\ Running /\ UNCHANGED <<kind, parent, process, loop, helper, adapter, completed>>
  /\ \/ /\ InSixth(Draw + 1)
        /\ six' = [six EXCEPT !.slot = 1] /\ handler' = [handler EXCEPT !.at = Layout]
     \/ /\ InSixth(Layout) /\ six.slot \in RefreshAt
        /\ handler' = [handler EXCEPT !.at = LayoutRefresh] /\ UNCHANGED six
     \/ /\ InSixth(LayoutRefresh) \/ (InSixth(Layout) /\ six.slot \notin RefreshAt)
        /\ six' = [six EXCEPT !.slot = @ + 1]
        /\ handler' = [handler EXCEPT !.at = NextSlot(six.slot)]

(* At its wait's end the sixth is sent on by the coordinator's caller.     *)
BeginSixthTail ==
  /\ Running /\ InSixth(10)
  /\ \E to \in {Restoration, HelperPrefix} : handler' = [handler EXCEPT !.at = to]
  /\ UNCHANGED <<kind, parent, process, loop, six, helper, adapter, completed>>

(* A handler completes at a return of its own, and the loop with it.       *)
CompleteHandler ==
  /\ Running /\ Place.asks = "return" /\ DispatchReturns("key")
  /\ completed' = handler /\ handler' = NoHandler /\ kind' = "post_overlay_loop"
  /\ UNCHANGED <<parent, process, six, helper, adapter>>

(* The ninth jumps where no handler completes from.                        *)
EnterHandoff ==
  /\ Running /\ handler.key = 9 /\ Place.asks = "jump"
  /\ kind' = "ninth_handoff" /\ handler' = [handler EXCEPT !.at = 1]
  /\ UNCHANGED <<parent, process, loop, six, helper, adapter, completed>>

(* The list callback of a second function that returned from its list.     *)
EnterCallback ==
  /\ kind = "post_overlay_loop" /\ completed = [key |-> 2, at |-> 8]
  /\ kind' = "callback" /\ handler' = [key |-> 2, at |-> 1]
  /\ UNCHANGED <<parent, process, loop, six, helper, adapter, completed>>

TailPlace == (IF kind = "callback" THEN Callback ELSE NinthHandoff)[handler.at]

TailStep ==
  /\ kind \in {"callback", "ninth_handoff"}
  /\ \E to \in {TailPlace.zero, TailPlace.other} \ {0} : handler' = [handler EXCEPT !.at = to]
  /\ UNCHANGED <<kind, parent, process, loop, six, helper, adapter, completed>>

-----------------------------------------------------------------------------
(* The shared helper, for the seventh handler's call or for the first      *)
(* special action.  Its owner is kept when it returned, so there is one    *)
(* helper in the life of the session.                                      *)
InSeventh == kind = "handler" /\ handler.key = 7

BeginHelper ==
  /\ helper.at = "none"
  /\ \/ /\ InSeventh /\ handler.at = HelperCall
        /\ helper' = [at |-> "segment", caller |-> "seventh"]
     \/ /\ kind = "post_overlay_loop" /\ loop.at = "dispatch" /\ loop.action = "first_special"
        /\ helper' = [at |-> "segment", caller |-> "special"]
  /\ UNCHANGED <<kind, parent, process, loop, handler, six, adapter, completed>>

HelperMove == [segment |-> "table_word", table_word |-> "inner_return", inner_return |-> "at_return"]

HelperStep ==
  /\ InSeventh \/ kind = "post_overlay_loop"
  /\ helper.at \in DOMAIN HelperMove
  /\ helper' = [helper EXCEPT !.at = HelperMove[helper.at]]
  /\ UNCHANGED <<kind, parent, process, loop, handler, six, adapter, completed>>

(* The helper's return is the call's return of the seventh, if it still    *)
(* waits for it.                                                           *)
HelperReturns ==
  /\ helper.at = "at_return" /\ helper' = [helper EXCEPT !.at = "returned"]
  /\ IF helper.caller = "seventh"
     THEN InSeventh /\ handler.at = HelperCall /\ handler' = [handler EXCEPT !.at = @ + 1]
     ELSE UNCHANGED handler
  /\ UNCHANGED <<kind, parent, process, loop, six, adapter, completed>>

\* mutant: the action returns before its helper did
FirstSpecialReturnsEarly ==
  /\ kind = "post_overlay_loop" /\ DispatchReturns("first_special")
  /\ helper.caller = "special" /\ helper' = [helper EXCEPT !.at = "over"]
  /\ UNCHANGED <<kind, parent, process, handler, six, adapter, completed>>

FirstSpecialReturns ==
  /\ kind = "post_overlay_loop" /\ DispatchReturns("first_special")
  /\ helper = [at |-> "returned", caller |-> "special"] /\ helper' = [helper EXCEPT !.at = "over"]
  /\ UNCHANGED <<kind, parent, process, handler, six, adapter, completed>>

(* The overlay's adapter, once too, and whatever the kind after its entry. *)
AdapterMove ==
  [segment |-> "far_transfer", far_transfer |-> "overlay_return",
   overlay_return |-> "caller_return", caller_return |-> "returned"]

AdapterStep ==
  /\ \/ /\ adapter = "none" /\ kind = "post_overlay_loop"
        /\ loop.at = "dispatch" /\ loop.action = "second_special" /\ adapter' = "segment"
     \/ adapter \in DOMAIN AdapterMove /\ adapter' = AdapterMove[adapter]
  /\ UNCHANGED <<kind, parent, process, loop, handler, six, helper, completed>>

SecondSpecialReturns ==
  /\ adapter = "returned" /\ DispatchReturns("second_special") /\ adapter' = "over"
  /\ UNCHANGED <<kind, parent, process, handler, six, helper, completed>>

GameStep ==
  \/ HandOverStep \/ ProcessEntry \/ InterruptReturn \/ AdmitStartupTrace \/ BeginLoop \/ LoopStep
  \/ BeginHandler \/ HandlerStep \/ FarBlock \/ DrawCandidate \/ LayoutStep \/ BeginSixthTail
  \/ CompleteHandler \/ EnterHandoff \/ EnterCallback \/ TailStep
  \/ BeginHelper \/ HelperStep \/ HelperReturns \/ FirstSpecialReturns
  \/ AdapterStep \/ SecondSpecialReturns

-----------------------------------------------------------------------------
GameTypeOK ==
  /\ kind \in {"title_handoff", "gx_startup", "post_overlay_loop", "handler", "ninth_handoff",
              "callback", "none"}
  /\ parent \in [at : {HandOver[i] : i \in DOMAIN HandOver} \cup {"left"}, segment : Segments \cup {0}]
  /\ process \in [at : DOMAIN ProcessMove \cup {"left"}, segment : Segments \cup {0}]
  /\ loop \in [at : {"none", "call", "first_al", "toggle", "action", "guard", "dispatch", "palette_interrupt"},
               call : 0..14, action : {"none", "first_special", "second_special", "key", "other"}, key : 0..10]
  /\ (handler = NoHandler) \/ handler \in [key : Keys, at : 1..54]
  /\ six \in [taken : SUBSET (1..Slots), slot : 0..(Slots + 1), far : {"none", "fits", "wraps"}]
  /\ helper \in [at : {"none", "segment", "table_word", "inner_return", "at_return", "returned", "over"},
                 caller : {"none", "seventh", "special"}]
  /\ adapter \in {"none", "returned", "over"} \cup DOMAIN AdapterMove
  /\ completed = [key |-> 0, at |-> 0] \/ completed \in [key : Keys, at : 1..54]

(* A handler runs for the key the loop dispatched and while the loop waits *)
(* at that dispatch; so do the special actions' helper and adapter.  The   *)
(* native process runs as the child the hand-over entered.                 *)
DispatchIsOwned ==
  /\ kind \in {"handler", "ninth_handoff"} =>
       loop = Dispatch("key", IF kind = "handler" THEN handler.key ELSE 9)
  /\ (handler = NoHandler) = (kind \notin {"handler", "ninth_handoff", "callback"})
  /\ (helper.caller = "special" /\ helper.at # "over") => loop = Dispatch("first_special", 0)
  /\ adapter \notin {"none", "over"} => loop = Dispatch("second_special", 0)
  /\ process.segment = parent.segment
  /\ process.at \notin {"first_private", "left"} => parent.at = "startup_call"

(* The sixth's table is full before it is laid out, of draws none of which *)
(* is excluded or falls outside it, and every slot is laid out once.       *)
TableIsWhole ==
  (kind = "handler" /\ handler.key = 6) =>
    /\ six.taken \cap Excluded = {}
    /\ Cardinality(six.taken) <= Wanted
    /\ handler.at > Draw => Cardinality(six.taken) = Wanted
    /\ handler.at \in {Layout, LayoutRefresh} => six.slot \in 1..Slots
    /\ handler.at >= LayoutFinal => six.slot = Slots + 1

(* What the loop dispatched returns by its own return and to the last four *)
(* calls: a handler at a return of its own, a special action after the     *)
(* helper or the adapter it called.                                        *)
DispatchReturnsByItsOwn ==
  [][(loop.at = "dispatch" /\ loop' # loop /\ kind' # "none") =>
       /\ loop' = PollTail
       /\ loop.action = "key" => (Running /\ Place.asks = "return" /\ completed' = handler)
       /\ loop.action = "first_special" => (helper.caller = "special" /\ helper.at = "returned")
       /\ loop.action = "second_special" => adapter = "returned"]_gameVars
=============================================================================

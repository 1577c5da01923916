------------------------------- MODULE GamePath -------------------------------
(***************************************************************************)
(* The way of an observation to Millennium's game.  The runtime host       *)
(* refuses everything while its source is revoked; behind it the session   *)
(* controller lets a call through by the state it last published, and      *)
(* publishes the session's state anew after the calls that may move it;    *)
(* the coordinator then checks for itself.  The launcher's controller is a *)
(* second way in, and forwards every call as it comes.                     *)
(***************************************************************************)
EXTENDS GameLoop

VARIABLES
  front,      \* the way in: the host, or the launcher's controller
  shown       \* the state the session controller goes by

pathVars == <<gameVars, front, shown>>

At(sessionKind, key) == [kind |-> sessionKind, key |-> key]
HandOffState == At("title_handoff", 0)
StartupState == At("gx_startup", 0)
LoopState == At("post_overlay_loop", 0)
InHandler(key) == At("handler", key)
Returning == At("returning_to_menu", 0)
Menu == At("menu", 0)

(* The state of a session of a kind.                                       *)
StateFor(sessionKind, running) ==
  At(sessionKind, IF sessionKind = "handler" THEN running.key ELSE 0)

PathInit ==
  GameInit /\ front \in {"host", "launcher"} /\ shown = StateFor(kind, handler)

-----------------------------------------------------------------------------
(* The launcher's controller asks the coordinator whatever it is asked.    *)
ByLauncher == front = "launcher"
LetThrough(states) == ByLauncher \/ shown \in states

(* A call the controller forwards in the given states, and one after which *)
(* it publishes the session's state again.                                 *)
Forwards(states, call) == LetThrough(states) /\ call /\ UNCHANGED shown

\* mutant: a call that moves the session is only forwarded
FollowsNothing(states, call) == Forwards(states, call)

Follows(states, call) == LetThrough(states) /\ call /\ shown' = StateFor(kind', handler')

HandOffCalls == Forwards({HandOffState}, HandOverStep \/ ProcessEntry \/ InterruptReturn)

StartupCalls ==
  Follows({HandOffState}, AdmitStartupTrace) \/ Follows({StartupState}, BeginLoop)

LoopCalls == Forwards({LoopState}, LoopStep)

(* What a handler's own calls can tell it.                                 *)
FirstTold == {"call", "bl"}
SecondTold == {"byte", "call", "bl"}
ThirdTold == {"word", "call", "bl"}
FourthTold == {"word", "call"}
FifthTold == {"call"}
SixthTold == {"word", "byte", "call", "bl", "al"}
SeventhTold == {"word", "byte", "call", "bx"}
EighthTold == {"call", "bl"}
NinthTold == {"word", "byte", "call"}
TenthTold == {"word", "byte", "call", "flag", "bl"}

(* A handler is begun from the loop and then told what it asks.            *)
Dispatched(key) == Follows({LoopState}, BeginHandler /\ handler'.key = key)

Tells(key, told) ==
  Forwards({InHandler(key)},
           kind = "handler" /\ handler.key = key /\ Place.asks \in told /\ HandlerStep)

FirstCalls == Dispatched(1) \/ Tells(1, FirstTold)
SecondCalls == Dispatched(2) \/ Tells(2, SecondTold)
ThirdCalls == Dispatched(3) \/ Tells(3, ThirdTold)
FourthCalls == Dispatched(4) \/ Tells(4, FourthTold)
FifthCalls == Dispatched(5) \/ Tells(5, FifthTold)

SixthCalls ==
  \/ Dispatched(6) \/ Tells(6, SixthTold)
  \/ Forwards({InHandler(6)}, FarBlock \/ DrawCandidate \/ LayoutStep \/ BeginSixthTail)

SeventhCalls == Dispatched(7) \/ Tells(7, SeventhTold)

(* The helper serves the seventh handler and the loop's first action.      *)
HelperCalls ==
  \/ Forwards({InHandler(7), LoopState}, BeginHelper \/ HelperStep \/ HelperReturns)
  \/ Forwards({LoopState}, FirstSpecialReturns)

AdapterCalls == Forwards({LoopState}, AdapterStep \/ SecondSpecialReturns)

EighthCalls == Dispatched(8) \/ Tells(8, EighthTold)

NinthCalls ==
  \/ Dispatched(9) \/ Tells(9, NinthTold) \/ Follows({InHandler(9)}, EnterHandoff)
  \/ Forwards({At("ninth_handoff", 0)}, kind = "ninth_handoff" /\ TailStep)

TenthCalls == Dispatched(10) \/ Tells(10, TenthTold)

CallbackCalls ==
  \/ Follows({LoopState}, EnterCallback)
  \/ Forwards({At("callback", 0)}, kind = "callback" /\ TailStep)

(* The completion asks no state of the controller's; the host alone bars   *)
(* it while the source is revoked.                                         *)
CompletionCalls ==
  (ByLauncher \/ shown # Returning) /\ CompleteHandler
    /\ shown' = StateFor(kind', handler')

-----------------------------------------------------------------------------
(* The host's revocation: from its beginning no call moves the session     *)
(* that is still there, at its end nothing of it is left.                  *)
Begun == front = "host" /\ shown = Returning

BeginGameRevocation ==
  /\ front = "host" /\ shown \notin {Returning, Menu}
  /\ shown' = Returning /\ UNCHANGED gameVars

FinishGameRevocation ==
  /\ Begun /\ shown' = Menu
  /\ kind' = "none" /\ handler' = NoHandler /\ six' = NoSix /\ loop' = NoLoop
  /\ parent' = Left(parent) /\ process' = Left(process)
  /\ helper' = [at |-> "none", caller |-> "none"] /\ adapter' = "none"
  /\ completed' = [key |-> 0, at |-> 0]

HostHandOffPath == HandOffCalls \/ StartupCalls \/ LoopCalls
HostHandlerPath ==
  FirstCalls \/ SecondCalls \/ ThirdCalls \/ FourthCalls \/ FifthCalls \/ SixthCalls
    \/ SeventhCalls \/ EighthCalls \/ NinthCalls \/ TenthCalls \/ CompletionCalls
HostSpecialPath == HelperCalls \/ AdapterCalls \/ CallbackCalls

PathStep ==
  /\ \/ HostHandOffPath \/ HostHandlerPath \/ HostSpecialPath
     \/ BeginGameRevocation \/ FinishGameRevocation
  /\ UNCHANGED front

-----------------------------------------------------------------------------
PathTypeOK ==
  /\ front \in {"host", "launcher"}
  /\ shown.kind \in {"title_handoff", "gx_startup", "post_overlay_loop", "handler",
                     "ninth_handoff", "callback", "returning_to_menu", "menu"}
  /\ shown.key \in Keys \cup {0}

(* The state the controller goes by is the session's, so the calls a       *)
(* running handler waits for are the calls that are let through; and what  *)
(* a handler asks is something one of its calls tells, but for the far     *)
(* pointer the third ends at.                                              *)
StateFollowsGame ==
  /\ front = "host" =>
       shown = IF kind = "none" THEN Menu
               ELSE IF shown = Returning THEN Returning ELSE StateFor(kind, handler)
  /\ (kind = "handler" /\ handler.key = 3) => Place.asks \in ThirdTold \cup {"return", "far_pointer"}
  /\ (kind = "handler" /\ handler.key = 9) => Place.asks \in NinthTold \cup {"return", "jump"}
  /\ (kind = "handler" /\ handler.key = 7) => Place.asks \in SeventhTold \cup {"return"}

(* The game is sound as it is met through the host.                        *)
GameIsSound == DispatchIsOwned /\ TableIsWhole /\ StateFollowsGame
=============================================================================

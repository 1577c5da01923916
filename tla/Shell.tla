--------------------------------- MODULE Shell ---------------------------------
(***************************************************************************)
(* The SDL event loop: the launcher's cards, the native runtime and what   *)
(* the loop itself keeps, composed.                                        *)
(*                                                                         *)
(* A frame consumes dialog results, handles events, drives the admitted    *)
(* program, advances the scanner and ticks the opening, on one thread.     *)
(* Each of these is an action here and a frame may do nothing in any of    *)
(* them, so the order of actions is left free.  Dialog callbacks run on    *)
(* another thread and only touch their mailbox.                            *)
(*                                                                         *)
(* The interactive route is modelled: no game or platform on the command   *)
(* line, which would fix the screen or the platform.                       *)
(***************************************************************************)
EXTENDS RuntimeOps, LauncherOps

CONSTANTS Devices,      \* the fire buttons in use
          Dialogs       \* the native dialogs the system offers

ASSUME DevicesAssumption == Devices \subseteq {"keyboard", "gamepad", "mouse"}

VARIABLES front,      \* the runtime and what the loop derives from it
          launcher,   \* LauncherInteractionController
          found,      \* the releases of the scanner's last step
          scanning,   \* whether the scanner has work left
          settings,   \* show_modern_graphics_settings, the F10 modal
          screen,     \* the menu or a launched game
          requested,  \* request.presentation
          dialogs,    \* the two dialog mailboxes
          fire        \* the fire buttons pressed, and those the loop has recorded

vars == <<front, launcher, found, scanning, settings, screen, requested, dialogs, fire>>

runtime == front.runtime

(* A pack is a manifest that names one release.  "presented" is the release *)
(* whose textures, audio and Modern sequence the loop holds; "typing" is   *)
(* whether SDL text input was started for a DOS session.                   *)
FrontType ==
  [ runtime   : RuntimeType,
    presented : Release \cup {NoRelease},
    typing    : BOOLEAN,
    pack      : [admission : {"unselected", "ready", "rejected"},
                 release   : Release \cup {NoRelease}] ]

DialogsType ==
  [ pack   : [open : BOOLEAN, pending : Release \cup {NoRelease}],
    source : [open : BOOLEAN, pending : BOOLEAN] ]

NoPack == [admission |-> "unselected", release |-> NoRelease]
RejectedPack == [admission |-> "rejected", release |-> NoRelease]

Init ==
  /\ front = [runtime |-> InitRuntime, presented |-> NoRelease, typing |-> FALSE,
              pack |-> NoPack]
  /\ launcher = InitLauncher
  /\ found = {} /\ scanning = TRUE
  /\ settings = FALSE /\ screen = "menu" /\ requested = "original"
  /\ dialogs = [pack   |-> [open |-> FALSE, pending |-> NoRelease],
                source |-> [open |-> FALSE, pending |-> FALSE]]
  /\ fire = [pressed |-> {}, recorded |-> {}]

----------------------------------------------------------------------------
(* The loop's lambdas as functions on "front" *)

(* The game in play is the one whose cards are shown: no card moves while  *)
(* a game is launched.                                                     *)
Playing(game) == screen = "launching" /\ launcher.game = game

(* The exact release the route names, as source_identity() compares it.    *)
Source(l) ==
  IF /\ l.sha # NoRelease
     /\ SourceIdentity(l) =
          <<GameOf[l.sha], PlatformOf[l.sha], LanguageOf[l.sha], l.sha>>
  THEN l.sha ELSE NoRelease

ClearModernPackAdmission(f) == [f EXCEPT !.pack = NoPack]

AdmitModernPack(f, release, valid) ==
  [f EXCEPT !.pack = IF valid /\ f.pack.release = release
                     THEN [admission |-> "ready", release |-> release] ELSE RejectedPack]

ResetDeuterosRuntime(f) ==
  [f EXCEPT !.runtime = SetInputSuppressed(@, TRUE), !.presented = NoRelease]

(* Mutant: the runtime is reset, and what was made from it is kept.        *)
ResetKeepingPresented(f) ==
  LET finished == FinishSourceRevocation(BeginSourceRevocation(SetInputSuppressed(f.runtime, TRUE)))
  IN  [f EXCEPT !.typing = FALSE, !.runtime = [finished EXCEPT !.generation = 0]]

(* The loop compares the generation only with the copy it takes here, so   *)
(* its value is not kept.                                                  *)
ResetActiveRuntime(f) ==
  LET quiet    == ResetDeuterosRuntime([f EXCEPT !.typing = FALSE])
      finished == FinishSourceRevocation(BeginSourceRevocation(quiet.runtime))
  IN  [quiet EXCEPT !.runtime = [finished EXCEPT !.generation = 0]]

(* Mutant: a changed identity does not revoke the session it leaves.       *)
NavigateWithoutRevoking(f, before, after) ==
  IF SourceIdentity(before) = SourceIdentity(after) THEN f
  ELSE ClearModernPackAdmission(f)

(* Mutant: a changed identity keeps the pack chosen for the last one.      *)
NavigateKeepingPack(f, before, after) ==
  IF /\ SourceIdentity(before) # SourceIdentity(after)
     /\ RequiresRevocationFor(f.runtime, Source(after))
  THEN ResetActiveRuntime(f) ELSE f

(* Mutant: any step over a session revokes it, changed identity or not.    *)
NavigateAlwaysRevoking(f, before, after) ==
  IF f.runtime.active # NoRelease THEN ResetActiveRuntime(ClearModernPackAdmission(f)) ELSE f

(* Any change of the shown identity drops the pack and a session it leaves *)
(* behind.                                                                 *)
ApplyLauncherNavigation(f, before, after) ==
  LET cleared == ClearModernPackAdmission(f) IN
  IF SourceIdentity(before) = SourceIdentity(after) THEN f
  ELSE IF RequiresRevocationFor(cleared.runtime, Source(after))
       THEN ResetActiveRuntime(cleared) ELSE cleared

(* Text input is started for a DOS session that still asks something.      *)
StartMillenniumTitle(f, starts) ==
  [f EXCEPT !.presented = f.runtime.active,
            !.typing = f.runtime.kind = "dos_title" /\ starts]

(* The reset, meant for the outgoing release, runs over the new session.   *)
StartDeuteros(f) ==
  LET reset == ResetDeuterosRuntime([f EXCEPT !.typing = FALSE]) IN
  [reset EXCEPT !.presented = f.runtime.active, !.runtime = HostAdvance(@, "not_due")]

(* The session that a launch of these cards leaves, and its loop state.    *)
Launched(f, l, outcome, valid, starts) ==
  LET reset    == ResetActiveRuntime(f)
      admitted == [reset EXCEPT !.runtime =
                     Launch(@, ResolveLaunch(l, found), outcome)]
      packed   == IF l.presentation = "modern" /\ admitted.pack.release # NoRelease
                  THEN AdmitModernPack(admitted, admitted.runtime.active, valid)
                  ELSE admitted
  IN  IF admitted.runtime.active = NoRelease THEN admitted
      ELSE IF l.game = "deuteros" THEN StartDeuteros(packed)
      ELSE StartMillenniumTitle(packed, starts)

----------------------------------------------------------------------------
(* The scanner and the dialogs *)

Scan ==
  /\ scanning
  /\ \E more \in SUBSET (Release \ found) :
       LET releases == found \cup more
           synced   == Synchronize(launcher, releases)
           applied  == ApplyLauncherNavigation(front, launcher, synced)
       IN  /\ found' = releases
           /\ launcher' = IF screen = "menu" THEN FocusMenuCard(synced, releases)
                          ELSE synced
           /\ front' = IF screen = "menu" THEN ClearModernPackAdmission(applied) ELSE applied
  /\ scanning' \in BOOLEAN
  /\ UNCHANGED <<settings, screen, requested, dialogs, fire>>

(* Mutant: the cards react behind the open modal.                          *)
OnCardsOrBehind == screen = "menu"

OnCards == screen = "menu" /\ ~settings

OpenSourceDialog ==
  /\ "source" \in Dialogs
  /\ OnCards
  /\ ~dialogs.source.open
  /\ dialogs' = [dialogs EXCEPT !.source.open = TRUE]
  /\ UNCHANGED <<front, launcher, found, scanning, settings, screen, requested, fire>>

CloseSourceDialog ==
  /\ dialogs.source.open
  /\ \E chosen \in BOOLEAN :
       dialogs' = [dialogs EXCEPT !.source = [open |-> FALSE, pending |-> @.pending \/ chosen]]
  /\ UNCHANGED <<front, launcher, found, scanning, settings, screen, requested, fire>>

(* The result is taken at the head of a frame whatever is shown then: over *)
(* a launched game it is dropped, over the F10 modal it is applied.        *)
ConsumeSource ==
  /\ dialogs.source.pending
  /\ dialogs' = [dialogs EXCEPT !.source.pending = FALSE]
  /\ \/ /\ screen = "menu"
        /\ launcher' = ReplaceData(launcher)
        /\ found' = {} /\ scanning' = TRUE
        /\ requested' = "original"
        /\ front' = ResetActiveRuntime(ClearModernPackAdmission(front))
     \/ UNCHANGED <<front, launcher, found, scanning, requested>>
  /\ UNCHANGED <<settings, screen, fire>>

(* The modal's pack option, in Custom before it is confirmed.              *)
OpenPackDialog ==
  /\ "pack" \in Dialogs
  /\ settings /\ screen = "menu" /\ requested = "modern"
  /\ OnCustomCard(launcher) /\ ~launcher.ready
  /\ ~dialogs.pack.open
  /\ dialogs' = [dialogs EXCEPT !.pack.open = TRUE]
  /\ UNCHANGED <<front, launcher, found, scanning, settings, screen, requested, fire>>

ClosePackDialog ==
  /\ dialogs.pack.open
  /\ \E chosen \in {dialogs.pack.pending} \cup Release :
       dialogs' = [dialogs EXCEPT !.pack = [open |-> FALSE, pending |-> chosen]]
  /\ UNCHANGED <<front, launcher, found, scanning, settings, screen, requested, fire>>

ConsumePack ==
  LET pending  == [front EXCEPT !.pack.release = dialogs.pack.pending]
      resolved == IF ReleaseIsSelected(launcher)
                  THEN Resolve(found, launcher.game, launcher.platform,
                                    launcher.sha, launcher.language)
                  ELSE NoRelease
  IN
  /\ dialogs.pack.pending # NoRelease
  /\ dialogs' = [dialogs EXCEPT !.pack.pending = NoRelease]
  /\ IF screen = "menu" /\ OnCustomCard(launcher) /\ ~launcher.ready
     THEN \E valid \in BOOLEAN : front' = AdmitModernPack(pending, resolved, valid)
     ELSE UNCHANGED front
  /\ UNCHANGED <<launcher, found, scanning, settings, screen, requested, fire>>

----------------------------------------------------------------------------
(* Events over the cards *)

Navigate(next) ==
  /\ launcher' = next
  /\ front' = ApplyLauncherNavigation(front, launcher, next)
  /\ UNCHANGED <<found, scanning, settings, screen, requested, dialogs, fire>>

MoveCard == OnCards /\ \E direction \in {-1, 1} :
                         Navigate(MoveCards(launcher, found, direction))

EdgeCard == OnCards /\ \E first \in BOOLEAN : Navigate(EdgeCards(launcher, found, first))

BackCard == OnCards /\ launcher.page # "games" /\ Navigate(BackCards(launcher, found))

(* activate_launcher_card: the effect follows the navigation.              *)
ActivateLauncherCard(result) ==
  LET applied == ApplyLauncherNavigation(front, launcher, result.launcher) IN
  /\ launcher' = result.launcher
  /\ requested' = result.launcher.presentation
  /\ CASE result.effect = "open_custom_settings" ->
            /\ settings' = TRUE
            /\ front' = [applied EXCEPT !.runtime = SetInputSuppressed(@, TRUE)]
            /\ UNCHANGED screen
       [] result.effect = "launch" ->
            /\ \E outcome \in AcquireOutcomes, valid, starts \in BOOLEAN :
                 front' = Launched(applied, result.launcher, outcome, valid, starts)
            /\ screen' = IF front'.runtime.active = NoRelease THEN "menu" ELSE "launching"
            /\ UNCHANGED settings
       [] OTHER -> front' = applied /\ UNCHANGED <<settings, screen>>
  /\ UNCHANGED <<found, scanning, dialogs>>

(* Return, Space and the South button are fire buttons too: the press that *)
(* launches a game is not seen by it.                                      *)
PressedWith(kinds) ==
  \E used \in {{}} \cup {{d} : d \in Devices \cap kinds} :
    fire' = [fire EXCEPT !.pressed = @ \cup used]

ActivateFocused ==
  /\ OnCards
  /\ ActivateLauncherCard(Activate(launcher, found))
  /\ PressedWith({"keyboard", "gamepad"})

PointAtCard ==
  /\ OnCards
  /\ \E index \in 0..2 : ActivateLauncherCard(ActivateCard(launcher, found, index))
  /\ PressedWith({"mouse"})

----------------------------------------------------------------------------
(* The F10 modal *)

(* Mutant: the modal opens and the gate behind it stays as it was.         *)
OpenSettingsUngated ==
  /\ ~settings
  /\ settings' = TRUE
  /\ fire' = IF Playing("deuteros") THEN [fire EXCEPT !.recorded = {}] ELSE fire
  /\ UNCHANGED <<front, launcher, found, scanning, screen, requested, dialogs>>

OpenSettings ==
  /\ ~settings
  /\ settings' = TRUE
  /\ front' = [front EXCEPT !.runtime = SetInputSuppressed(@, TRUE)]
  /\ fire' = IF Playing("deuteros") THEN [fire EXCEPT !.recorded = {}] ELSE fire
  /\ UNCHANGED <<launcher, found, scanning, screen, requested, dialogs>>

CloseSettings ==
  /\ settings
  /\ settings' = FALSE
  /\ front' = [front EXCEPT !.runtime = SetInputSuppressed(@, FALSE)]
  /\ launcher' = IF screen = "menu" /\ OnCustomCard(launcher)
                 THEN ConfirmCustom(launcher) ELSE launcher
  /\ UNCHANGED <<found, scanning, screen, requested, dialogs, fire>>

----------------------------------------------------------------------------
(* Events over a launched game *)

Observe(obs, succeeds) == HostObserve(runtime, obs, succeeds)

ReturnToMenu ==
  /\ screen = "launching" /\ ~settings
  /\ screen' = "menu"
  /\ front' = ResetActiveRuntime(front)
  /\ UNCHANGED <<launcher, found, scanning, settings, requested, dialogs, fire>>

(* The mouse is recorded but never forwarded as the opening's signal.      *)
Forward(f, device, obs) ==
  IF device = "mouse" THEN f
  ELSE [f EXCEPT !.runtime = HostObserve(@, obs, TRUE).runtime]

(* A key that stays down repeats its press.                                *)
PressFire ==
  /\ screen = "launching"
  /\ \E d \in Devices :
       /\ d \notin fire.pressed \/ d = "keyboard"
       /\ IF Playing("deuteros") /\ ~settings
          THEN /\ front' = Forward(front, d, "held")
               /\ fire' = [pressed  |-> fire.pressed \cup {d},
                           recorded |-> fire.recorded \cup {d}]
          ELSE /\ fire' = [fire EXCEPT !.pressed = @ \cup {d}]
               /\ UNCHANGED front
  /\ UNCHANGED <<launcher, found, scanning, settings, screen, requested, dialogs>>

ReleaseFire ==
  /\ \E d \in fire.pressed :
       IF Playing("deuteros") /\ ~settings
       THEN /\ front' = Forward(front, d, "released")
            /\ fire' = [pressed  |-> fire.pressed \ {d},
                        recorded |-> fire.recorded \ {d}]
       ELSE /\ fire' = [fire EXCEPT !.pressed = @ \ {d}]
            /\ UNCHANGED front
  /\ UNCHANGED <<launcher, found, scanning, settings, screen, requested, dialogs>>

(* Mutant: the record of the fire buttons survives a lost focus.           *)
LoseFocusKeepingRecord ==
  /\ \E pressed \in SUBSET fire.pressed : fire' = [fire EXCEPT !.pressed = pressed]
  /\ front' = IF Playing("deuteros")
              THEN [front EXCEPT !.runtime = Observe("released", TRUE).runtime] ELSE front
  /\ UNCHANGED <<launcher, found, scanning, settings, screen, requested, dialogs>>

(* The loop may not be told what is released while the focus is away.      *)
LoseFocus ==
  /\ \E pressed \in SUBSET fire.pressed :
       fire' = [pressed  |-> pressed,
                recorded |-> IF Playing("deuteros") THEN {} ELSE fire.recorded]
  /\ front' = IF Playing("deuteros")
              THEN [front EXCEPT !.runtime = Observe("released", TRUE).runtime] ELSE front
  /\ UNCHANGED <<launcher, found, scanning, settings, screen, requested, dialogs>>

(* A character typed into a DOS session is its literal sound choice.       *)
TypeText ==
  /\ Playing("millennium") /\ ~settings /\ front.typing
  /\ \E obs \in {"ascii_choice", "ascii_other"}, succeeds \in BOOLEAN :
       LET seen == Observe(obs, succeeds) IN
       front' = [front EXCEPT !.runtime = seen.runtime,
                              !.typing = seen.disposition # "boundary_reached"]
  /\ UNCHANGED <<launcher, found, scanning, settings, screen, requested, dialogs, fire>>

(* Once per frame, modal or not.                                           *)
DriveSession ==
  /\ screen = "launching"
  /\ front' = [front EXCEPT !.runtime = HostDrive(@)]
  /\ UNCHANGED <<launcher, found, scanning, settings, screen, requested, dialogs, fire>>

AdvanceOpening ==
  /\ Playing("deuteros") /\ runtime.state = "amiga_opening"
  /\ \E outcome \in TickOutcomes :
       front' = [front EXCEPT !.runtime = HostAdvance(@, outcome),
                              !.presented = runtime.active]
  /\ UNCHANGED <<launcher, found, scanning, settings, screen, requested, dialogs, fire>>

Next ==
  \/ Scan
  \/ OpenSourceDialog
  \/ CloseSourceDialog
  \/ ConsumeSource
  \/ OpenPackDialog
  \/ ClosePackDialog
  \/ ConsumePack
  \/ MoveCard
  \/ EdgeCard
  \/ BackCard
  \/ ActivateFocused
  \/ PointAtCard
  \/ OpenSettings
  \/ CloseSettings
  \/ ReturnToMenu
  \/ PressFire
  \/ ReleaseFire
  \/ LoseFocus
  \/ TypeText
  \/ DriveSession
  \/ AdvanceOpening

Spec == Init /\ [][Next]_vars

----------------------------------------------------------------------------
TypeOK ==
  /\ front \in FrontType
  /\ launcher \in LauncherType
  /\ found \subseteq Release
  /\ scanning \in BOOLEAN /\ settings \in BOOLEAN
  /\ screen \in {"menu", "launching"}
  /\ requested \in {"original", "modern"}
  /\ dialogs \in DialogsType
  /\ fire.pressed \subseteq Devices /\ fire.recorded \subseteq Devices

(* The loop's sequences of host calls keep what the runtime promises for   *)
(* single calls: nothing of an earlier release, no leaked hold or tick.    *)
RuntimeIsConsistent == RuntimeInv(runtime)

(* A session in memory is the release the cards show, and only behind the  *)
(* game screen: no scan, dialog or navigation leaves another one alive.    *)
LiveIsShown ==
  runtime.active # NoRelease => screen = "launching" /\ runtime.active = Source(launcher)

(* What the loop derived from a release lives no longer than its session:  *)
(* no texture, queued sample or Modern sequence of another one remains.    *)
PresentedIsLive == front.presented # NoRelease => front.presented = runtime.active

(* Text input is on only while a DOS session still asks for its choice.    *)
TypingIsAsked == front.typing => Playing("millennium") /\ runtime.kind = "dos_title"

(* An admitted pack was made for the release the cards show, whenever its  *)
(* dialog returned and whatever was selected in between.                   *)
PackIsForSelection ==
  /\ front.pack.release # NoRelease => front.pack.release = Source(launcher)
  /\ (front.pack.admission = "ready") <=> (front.pack.release # NoRelease)

(* Behind the open modal no recovered input is held and the gate is shut.  *)
ModalIsABoundary ==
  settings /\ IsLive(runtime) =>
    /\ runtime.suppressed /\ ~runtime.held
    /\ Playing("deuteros") => fire.recorded = {}

(* The title stage reads a fire button from what the loop recorded.  The   *)
(* record survives the return to the menu, where releases go unseen, but   *)
(* the title is reached only past the gate, whose opening forgets it.      *)
FireByteIsLive == runtime.kind = "amiga_title_stage" => fire.recorded \subseteq fire.pressed

(* What the loop owes the session together: a consistent runtime, text     *)
(* input only while it is asked for, and no fire button that was let go.   *)
LoopIsSound ==
  /\ TypeOK
  /\ RuntimeIsConsistent
  /\ TypingIsAsked
  /\ FireByteIsLive

(* A session ends because the user leaves it or because the cards no       *)
(* longer show its release; dialogs, modal and focus never end it, and no  *)
(* step puts another session in its place.                                 *)
SessionEndsForAReason ==
  [][runtime.active # NoRelease /\ runtime'.serial # runtime.serial =>
       /\ runtime'.active = NoRelease
       /\ screen' = "menu" \/ Source(launcher') # Source(launcher)]_vars

(* The loop uses the cards only as Launcher lets a user and a scanner do.  *)
Cards == INSTANCE Launcher
           WITH confirmed <- IF launcher.ready THEN SourceIdentity(launcher) ELSE << >>

ImplementsLauncher == Cards!Spec

----------------------------------------------------------------------------
(* What the source's comments claim and the loop does not do *)

(* runtime_host.cpp: an input gate kept over a fresh session would make it *)
(* "silently reject its first real observation".                           *)
FreshSessionHearsInput == runtime.state = "amiga_opening" /\ runtime.suppressed => settings

=============================================================================

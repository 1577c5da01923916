-------------------------------- MODULE Launcher --------------------------------
(***************************************************************************)
(* The card launcher in use: keyboard, gamepad and pointer drive the       *)
(* controller while the scanner adds releases between any two events, and  *)
(* a new data source may replace the scanner at any time.                  *)
(*                                                                         *)
(* Events and scanner steps alternate on one thread, so an event sees the  *)
(* releases of the last step.  What is hard is that a card chosen against  *)
(* one set of releases is used against a larger one.                       *)
(***************************************************************************)
EXTENDS LauncherOps

VARIABLES launcher,  \* LauncherInteractionController
          found,     \* the releases the scanner has recognised so far
          scanning,  \* whether it has work left
          settings,  \* whether the renderer settings are open over the cards
          screen,    \* "menu" or "launching"
          confirmed  \* history: the identity a ready Custom was confirmed for

vars == <<launcher, found, scanning, settings, screen, confirmed>>

Unconfirmed == << >>

Init ==
  /\ launcher = InitLauncher
  /\ found = {} /\ scanning = TRUE
  /\ settings = FALSE /\ screen = "menu"
  /\ confirmed = Unconfirmed

StillConfirmed == confirmed' = IF launcher'.ready THEN confirmed ELSE Unconfirmed

(* One bounded scanner step.  It runs behind a launched game too, where    *)
(* only the controller is reconciled.                                      *)
Scan ==
  /\ scanning
  /\ \E more \in SUBSET (Release \ found) :
       LET releases == found \cup more
           synced   == Synchronize(launcher, releases)
       IN  /\ found' = releases
           /\ launcher' = IF screen = "menu" THEN FocusMenuCard(synced, releases) ELSE synced
  /\ scanning' \in BOOLEAN
  /\ StillConfirmed
  /\ UNCHANGED <<settings, screen>>

(* A data-source dialog's result is consumed at the head of the loop, with *)
(* or without the settings open.                                           *)
SelectDataSource ==
  /\ screen = "menu"
  /\ launcher' = ReplaceData(launcher)
  /\ found' = {} /\ scanning' = TRUE
  /\ StillConfirmed
  /\ UNCHANGED <<settings, screen>>

OnCards == screen = "menu" /\ ~settings

(* After a card moved on the games page the platform focus follows it.     *)
MoveCard ==
  /\ OnCards
  /\ \E direction \in {-1, 1} : launcher' = MoveCards(launcher, found, direction)
  /\ StillConfirmed
  /\ UNCHANGED <<found, scanning, settings, screen>>

EdgeCard ==
  /\ OnCards
  /\ \E first \in BOOLEAN : launcher' = EdgeCards(launcher, found, first)
  /\ StillConfirmed
  /\ UNCHANGED <<found, scanning, settings, screen>>

BackCard ==
  /\ OnCards
  /\ launcher.page # "games"
  /\ launcher' = BackCards(launcher, found)
  /\ StillConfirmed
  /\ UNCHANGED <<found, scanning, settings, screen>>

(* What an activated card does.  A launch may be refused by the runtime.   *)
Apply(result) ==
  /\ launcher' = result.launcher
  /\ settings' = (result.effect = "open_custom_settings")
  /\ IF result.effect = "launch" THEN screen' \in {"menu", "launching"} ELSE screen' = screen
  /\ StillConfirmed
  /\ UNCHANGED <<found, scanning>>

ActivateFocused == OnCards /\ Apply(Activate(launcher, found))

PointAtCard ==
  /\ OnCards
  /\ \E index \in 0..2 : Apply(ActivateCard(launcher, found, index))

(* F10 opens the settings anywhere; closing them over the Custom card      *)
(* confirms it.                                                            *)
OpenSettings ==
  /\ ~settings
  /\ settings' = TRUE
  /\ UNCHANGED <<launcher, found, scanning, screen, confirmed>>

CloseSettings ==
  LET confirms == screen = "menu" /\ OnCustomCard(launcher) IN
  /\ settings
  /\ settings' = FALSE
  /\ launcher' = IF confirms THEN ConfirmCustom(launcher) ELSE launcher
  /\ IF confirms THEN confirmed' = SourceIdentity(launcher) ELSE StillConfirmed
  /\ UNCHANGED <<found, scanning, screen>>

ReturnToMenu ==
  /\ screen = "launching" /\ ~settings
  /\ screen' = "menu"
  /\ UNCHANGED <<launcher, found, scanning, settings, confirmed>>

Next ==
  \/ Scan
  \/ SelectDataSource
  \/ MoveCard
  \/ EdgeCard
  \/ BackCard
  \/ ActivateFocused
  \/ PointAtCard
  \/ OpenSettings
  \/ CloseSettings
  \/ ReturnToMenu

Spec == Init /\ [][Next]_vars

----------------------------------------------------------------------------
(* The release cards are those of a platform, the profile cards too.       *)
TypeOK ==
  /\ launcher \in LauncherType
  /\ launcher.page \in {"releases", "profiles"} => launcher.platform # NoPlatform
  /\ found \subseteq Release
  /\ scanning \in BOOLEAN /\ settings \in BOOLEAN
  /\ screen \in {"menu", "launching"}

(* A selection is always one of the releases found for the shown game and  *)
(* platform, and its language is that release's: no earlier card, data     *)
(* source or scan leaves an identity behind.                               *)
SelectionIsFound ==
  launcher.sha # NoRelease =>
    /\ launcher.sha \in Identities(found, launcher.game, launcher.platform)
    /\ launcher.language = LanguageOf[launcher.sha]
    /\ Launchable(launcher.sha)

(* The profile cards are shown only over a selected release, whatever the  *)
(* scanner and the back button did since it was chosen.                    *)
ProfilesShowASelection == launcher.page = "profiles" => ReleaseIsSelected(launcher)

(* A confirmed Custom belongs to the release it was confirmed over.        *)
CustomIsForThisRelease ==
  launcher.ready => ~launcher.pending /\ confirmed = SourceIdentity(launcher)

(* Whatever card launches, its request resolves to the release the route   *)
(* shows: the scan-time choice and the launch-time search agree.           *)
LaunchResolvesTheSelection ==
  LET pressed == Activate(launcher, found) IN
  OnCards /\ pressed.effect = "launch" =>
    /\ launcher.sha # NoRelease
    /\ ResolveLaunch(pressed.launcher, found) = launcher.sha

(* The focused card exists, and on the games page the platform focus is on *)
(* the platform proposed for the game.                                     *)
FocusIsOnACard ==
  /\ LET count == CardCount(launcher, found) IN
     count > 0 => launcher.focus[launcher.page] < count
  /\ launcher.page = "games" /\ launcher.platform # NoPlatform =>
       Supported(launcher.game)[launcher.focus["platforms"] + 1] = launcher.platform

(* The scanner may take a selection away but never puts another one, or    *)
(* another platform, in its place.                                         *)
NeverSubstituted ==
  [][Scan => /\ launcher'.sha \in {launcher.sha, NoRelease}
             /\ launcher.platform # NoPlatform =>
                  launcher'.platform \in {launcher.platform, NoPlatform}
             /\ launcher'.game = launcher.game]_vars

(* What the cards owe together: the invariants above that no single card   *)
(* or scan may break, over well-typed cards.                               *)
CardsAreSound ==
  /\ TypeOK
  /\ SelectionIsFound
  /\ ProfilesShowASelection
  /\ FocusIsOnACard
=============================================================================

----------------------------- MODULE LauncherProofs -----------------------------
(***************************************************************************)
(* The cards used while the scanner adds releases, for any manifest.  The  *)
(* invariant adds to the properties what they rest on: the platform shown  *)
(* has releases, the game card in focus is the game shown whatever page is *)
(* open, and the profile focus fits before its page is entered.            *)
(***************************************************************************)
EXTENDS Launcher, OpsProofs

CardsInv ==
  /\ CardsOK(launcher, found) /\ FocusOK(launcher, found)
  /\ found \subseteq Release
  /\ scanning \in BOOLEAN /\ settings \in BOOLEAN
  /\ screen \in {"menu", "launching"}
  /\ launcher.ready => confirmed = SourceIdentity(launcher)

LEMMA InitCards == Init => CardsInv
  <1> SUFFICES ASSUME Init PROVE CardsInv
    OBVIOUS
  <1> DEFINE zero == [page \in Pages |-> 0]
  <1>1. /\ launcher \in LauncherType /\ launcher.page = "games" /\ launcher.game = "millennium"
        /\ launcher.platform = NoPlatform /\ launcher.sha = NoRelease /\ ~launcher.ready
        /\ launcher.focus = zero
    BY DEF Init, InitLauncher, LauncherType, Pages, Games, NoPlatform, NoLanguage, NoRelease
  <1>2. zero["games"] = 0 /\ zero["profiles"] = 0
    BY DEF Pages
  <1> HIDE DEF zero
  <1>3. GameCards[1] = "millennium"
    BY DEF GameCards
  <1>4. CardsOK(launcher, found)
    BY <1>1, <1>2, <1>3 DEF CardsOK, RouteOK, GameShown, ProfileShown
  <1>5. CardCount(launcher, found) = 2
    BY <1>1, CountFacts DEF Init
  <1>6. FocusOK(launcher, found)
    BY <1>1, <1>2, <1>5 DEF FocusOK, InPage
  <1> QED BY <1>1, <1>4, <1>6 DEF CardsInv, Init

----------------------------------------------------------------------------
(* One lemma for each kind of step: the scanner, the data source, an event *)
(* over the cards, and the modal.                                          *)

LEMMA ScanCards ==
  ASSUME CardsInv, Scan
  PROVE  CardsInv' /\ NotSubstituted(launcher, launcher')
  <1>1. PICK more \in SUBSET (Release \ found) :
          LET releases == found \cup more
              synced   == Synchronize(launcher, releases)
          IN  /\ found' = releases
              /\ launcher' = IF screen = "menu" THEN FocusMenuCard(synced, releases) ELSE synced
    BY DEF Scan
  <1> DEFINE releases == found \cup more
             synced   == Synchronize(launcher, releases)
  <1>2. releases \subseteq Release /\ found \subseteq releases
    BY DEF CardsInv
  <1>3. RouteOK(launcher, releases) /\ ProfileShown(launcher) /\ GameShown(launcher)
    BY <1>2, RouteGrows DEF CardsInv, CardsOK
  <1>4. /\ CardsOK(synced, releases) /\ FocusOK(synced, releases)
        /\ KeepsCustom(launcher, synced) /\ NotSubstituted(launcher, synced)
    BY <1>2, <1>3, CardsSynchronized
  <1>5. /\ found' = releases
        /\ launcher' = IF screen = "menu" THEN FocusMenuCard(synced, releases) ELSE synced
    BY <1>1
  <1> HIDE DEF synced, releases
  <1>6. /\ CardsOK(launcher', releases) /\ FocusOK(launcher', releases)
        /\ KeepsCustom(launcher, launcher') /\ NotSubstituted(launcher, launcher')
    <2>1. CASE screen = "menu"
      <3> DEFINE next == FocusMenuCard(synced, releases)
      <3>1. /\ CardsOK(next, releases) /\ FocusOK(next, releases)
            /\ KeepsCustom(synced, next) /\ NotSubstituted(synced, next)
        BY <1>2, <1>4, FocusMenuCardKeeps DEF CardsOK
      <3>2. launcher' = next
        BY <1>5, <2>1
      <3> QED BY <1>4, <3>1, <3>2, KeepsAreTransitive
    <2>2. CASE screen # "menu"
      BY <1>4, <1>5, <2>2
    <2> QED BY <2>1, <2>2
  <1>7. /\ scanning' \in BOOLEAN /\ settings' = settings /\ screen' = screen
        /\ confirmed' = IF launcher'.ready THEN confirmed ELSE Unconfirmed
    BY DEF Scan, StillConfirmed
  <1> QED BY <1>2, <1>5, <1>6, <1>7 DEF CardsInv, KeepsCustom

(* An event over the cards that is no more than one of their operations.   *)
LEMMA EventCards ==
  ASSUME CardsInv, EventKeeps(launcher, launcher', found), StillConfirmed,
         UNCHANGED <<found, scanning>>, settings' \in BOOLEAN,
         screen' \in {"menu", "launching"}
  PROVE  CardsInv'
  BY DEF CardsInv, EventKeeps, KeepsCustom, StillConfirmed

LEMMA ReplaceCards ==
  ASSUME CardsInv, SelectDataSource
  PROVE  CardsInv'
  <1> DEFINE next == ReplaceData(launcher)
  <1>1. CardsOK(next, {}) /\ FocusOK(next, {}) /\ KeepsCustom(launcher, next)
    BY ReplaceDataKeeps DEF CardsInv
  <1>2. /\ launcher' = next /\ found' = {} /\ scanning' = TRUE /\ settings' = settings
        /\ screen' = screen /\ confirmed' = IF launcher'.ready THEN confirmed ELSE Unconfirmed
    BY DEF SelectDataSource, StillConfirmed
  <1> HIDE DEF next
  <1> QED BY <1>1, <1>2 DEF CardsInv, KeepsCustom

LEMMA CloseCards ==
  ASSUME CardsInv, CloseSettings
  PROVE  CardsInv'
  <1>1. /\ settings' = FALSE /\ found' = found /\ scanning' = scanning /\ screen' = screen
    BY DEF CloseSettings
  <1>2. CASE screen = "menu" /\ OnCustomCard(launcher)
    <2> DEFINE next == ConfirmCustom(launcher)
    <2>1. launcher' = next /\ confirmed' = SourceIdentity(launcher)
      BY <1>2 DEF CloseSettings
    <2>2. /\ CardsOK(next, found) /\ next.focus = launcher.focus /\ next.page = launcher.page
          /\ NotSubstituted(launcher, next) /\ next.sha = launcher.sha
          /\ next.language = launcher.language /\ next.platform = launcher.platform
      BY ConfirmCustomKeeps DEF CardsInv
    <2> HIDE DEF next
    <2>3. launcher.page # "games"
      BY <1>2 DEF OnCustomCard
    <2>4. FocusOK(next, found)
      BY <2>2, <2>3, FocusStays DEF CardsInv, NotSubstituted
    <2>5. SourceIdentity(next) = SourceIdentity(launcher)
      BY <2>2 DEF SourceIdentity, NotSubstituted
    <2> QED BY <1>1, <2>1, <2>2, <2>4, <2>5 DEF CardsInv
  <1>3. CASE ~(screen = "menu" /\ OnCustomCard(launcher))
    <2>1. launcher' = launcher /\ confirmed' = IF launcher'.ready THEN confirmed ELSE Unconfirmed
      BY <1>3 DEF CloseSettings, StillConfirmed
    <2> QED BY <1>1, <2>1 DEF CardsInv
  <1> QED BY <1>2, <1>3

(* Every step but the scanner's keeps the invariant too.                   *)
LEMMA NextCards ==
  ASSUME CardsInv, [Next]_vars
  PROVE  CardsInv'
  <1>0. /\ CardsOK(launcher, found) /\ FocusOK(launcher, found) /\ found \subseteq Release
        /\ settings \in BOOLEAN /\ screen \in {"menu", "launching"}
    BY DEF CardsInv
  <1>1. CASE Scan
    BY <1>1, ScanCards
  <1>2. CASE SelectDataSource
    BY <1>2, ReplaceCards
  <1>3. CASE MoveCard
    BY <1>0, <1>3, MoveCardsKeeps, EventCards DEF MoveCard
  <1>4. CASE EdgeCard
    BY <1>0, <1>4, EdgeCardsKeeps, EventCards DEF EdgeCard
  <1>5. CASE BackCard
    BY <1>0, <1>5, BackCardsKeeps, EventCards DEF BackCard
  <1>6. CASE ActivateFocused
    <2> DEFINE result == Activate(launcher, found)
    <2>1. EventKeeps(launcher, result.launcher, found)
      BY <1>0, ActivateKeeps DEF ActivationKeeps
    <2>2. Apply(result)
      BY <1>6 DEF ActivateFocused
    <2> HIDE DEF result
    <2> QED BY <1>0, <2>1, <2>2, EventCards DEF Apply
  <1>7. CASE PointAtCard
    <2>1. PICK index \in 0..2 : Apply(ActivateCard(launcher, found, index))
      BY <1>7 DEF PointAtCard
    <2> DEFINE result == ActivateCard(launcher, found, index)
    <2>2. EventKeeps(launcher, result.launcher, found) /\ Apply(result)
      BY <1>0, <2>1, ActivateCardKeeps
    <2> HIDE DEF result
    <2> QED BY <1>0, <2>2, EventCards DEF Apply
  <1>8. CASE OpenSettings
    BY <1>8 DEF OpenSettings, CardsInv
  <1>9. CASE CloseSettings
    BY <1>9, CloseCards
  <1>10. CASE ReturnToMenu
    BY <1>10 DEF ReturnToMenu, CardsInv
  <1>11. CASE UNCHANGED vars
    BY <1>11 DEF vars, CardsInv
  <1> QED BY <1>1, <1>2, <1>3, <1>4, <1>5, <1>6, <1>7, <1>8, <1>9, <1>10, <1>11 DEF Next

----------------------------------------------------------------------------
(* The strengthened invariant of every behaviour of the cards.             *)
THEOREM CardsInvariant == Spec => []CardsInv
  <1>1. CardsInv /\ [Next]_vars => CardsInv'
    BY NextCards
  <1> QED BY <1>1, InitCards, PTL DEF Spec

(* What is shown, selected and focused is what the releases found offer,   *)
(* whatever the scanner added between two events.                          *)
THEOREM CardsAreSoundHolds == Spec => []CardsAreSound
  <1>1. CardsInv => CardsAreSound
    <2> SUFFICES ASSUME CardsInv PROVE CardsAreSound
      OBVIOUS
    <2>1. TypeOK /\ SelectionIsFound /\ ProfilesShowASelection
      BY DEF CardsInv, CardsOK, RouteOK, TypeOK, SelectionIsFound, ProfilesShowASelection
    <2>2. FocusIsOnACard
      BY DEF CardsInv, FocusOK, InPage, FocusIsOnACard
    <2> QED BY <2>1, <2>2 DEF CardsAreSound
  <1> QED BY <1>1, CardsInvariant, PTL

(* A confirmed Custom is launched for no other release than the one it was *)
(* confirmed over.                                                         *)
THEOREM CustomIsForThisReleaseHolds == Spec => []CustomIsForThisRelease
  <1>1. CardsInv => CustomIsForThisRelease
    BY DEF CardsInv, CardsOK, RouteOK, CustomIsForThisRelease
  <1> QED BY <1>1, CardsInvariant, PTL

(* The scan-time choice and the launch-time search name one release.       *)
THEOREM LaunchResolvesTheSelectionHolds == Spec => []LaunchResolvesTheSelection
  <1>1. CardsInv => LaunchResolvesTheSelection
    <2> SUFFICES ASSUME CardsInv, Activate(launcher, found).effect = "launch"
                 PROVE  /\ launcher.sha # NoRelease
                        /\ ResolveLaunch(Activate(launcher, found).launcher, found) = launcher.sha
      BY DEF LaunchResolvesTheSelection
    <2> DEFINE pressed == Activate(launcher, found)
    <2>1. ActivationKeeps(launcher, pressed, found) /\ found \subseteq Release
      BY ActivateKeeps DEF CardsInv
    <2>2. pressed.effect = "launch"
      OBVIOUS
    <2> HIDE DEF pressed
    <2>3. /\ CardsOK(pressed.launcher, found) /\ CanLaunch(pressed.launcher)
          /\ pressed.launcher.sha = launcher.sha
      BY <2>1, <2>2 DEF ActivationKeeps, EventKeeps
    <2>4. /\ ResolveLaunch(pressed.launcher, found) = launcher.sha
          /\ launcher.sha # NoRelease
      BY <2>1, <2>3, LaunchResolves
    <2> QED BY <2>4 DEF pressed
  <1> QED BY <1>1, CardsInvariant, PTL

(* The scanner takes selections away and never makes another one.          *)
THEOREM NeverSubstitutedHolds == Spec => NeverSubstituted
  <1>1. ASSUME CardsInv, [Next]_vars
        PROVE  [Scan => /\ launcher'.sha \in {launcher.sha, NoRelease}
                        /\ launcher.platform # NoPlatform =>
                             launcher'.platform \in {launcher.platform, NoPlatform}
                        /\ launcher'.game = launcher.game]_vars
    BY <1>1, ScanCards DEF NotSubstituted
  <1> QED BY <1>1, CardsInvariant, PTL DEF Spec, NeverSubstituted
=============================================================================

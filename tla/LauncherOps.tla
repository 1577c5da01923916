------------------------------ MODULE LauncherOps ------------------------------
(***************************************************************************)
(* The card launcher's controller as functions on its state.               *)
(*                                                                         *)
(* One record stands for LauncherInteractionController: the route (page,   *)
(* game, platform and release identity), the session around it (the        *)
(* presentation and Custom's confirmation gate) and the focus of each page.*)
(* Every operation takes the releases found so far: the scanner runs while *)
(* the cards are in use, so two operations may see different ones.         *)
(***************************************************************************)
EXTENDS Releases, Integers, Sequences, FiniteSets

Pages == {"games", "platforms", "releases", "profiles"}
NoPlatform == "no_platform"
NoLanguage == "no_language"

GameCards == <<"millennium", "deuteros">>
ProfileCards == <<"original", "modern", "custom">>

(* The platform cards of a game, whatever the user supplied.               *)
Supported(game) ==
  IF game = "millennium" THEN <<"dos", "amiga", "atari_st">> ELSE <<"amiga", "atari_st">>

LauncherType ==
  [ page         : Pages,
    game         : Games,
    platform     : Platforms \cup {NoPlatform},
    language     : Languages \cup {NoLanguage},
    sha          : Release \cup {NoRelease},
    explicit     : BOOLEAN,
    presentation : {"original", "modern"},
    ready        : BOOLEAN,
    pending      : BOOLEAN,
    focus        : [Pages -> Nat] ]

InitLauncher ==
  [ page |-> "games", game |-> "millennium", platform |-> NoPlatform,
    language |-> NoLanguage, sha |-> NoRelease, explicit |-> FALSE,
    presentation |-> "original", ready |-> FALSE, pending |-> FALSE,
    focus |-> [page \in Pages |-> 0] ]

----------------------------------------------------------------------------
(* What the found releases offer *)

Identities(found, game, platform) ==
  {r \in found : GameOf[r] = game /\ PlatformOf[r] = platform}

OnlyOne(S) == IF Cardinality(S) = 1 THEN CHOOSE r \in S : TRUE ELSE NoRelease

(* A hash is kept within its card; English is the default when it names    *)
(* exactly one release.                                                    *)
SelectSha(ids, current) ==
  LET english == OnlyOne({r \in ids : LanguageOf[r] = "en"}) IN
  IF current \in ids THEN current
  ELSE IF english # NoRelease THEN english ELSE OnlyOne(ids)

(* A platform card can be entered when something behind it can start.      *)
Selectable(found, game, platform) ==
  \E r \in Identities(found, game, platform) : Launchable(r)

PlatformOrder == <<"dos", "amiga", "atari_st">>

(* The first platform, in this order, that has releases of a game.         *)
FirstPlatform(found, game) ==
  LET at == {i \in DOMAIN PlatformOrder : Identities(found, game, PlatformOrder[i]) # {}}
  IN  IF at = {} THEN NoPlatform
      ELSE PlatformOrder[CHOOSE i \in at : \A j \in at : i <= j]

(* Mutant: the first platform with releases, whatever was chosen before.   *)
SelectFirstPlatform(found, game, current) == FirstPlatform(found, game)

(* The platform kept for a game, or the first one it has releases for.     *)
SelectPlatform(found, game, current) ==
  IF current # NoPlatform /\ Identities(found, game, current) # {} THEN current
  ELSE FirstPlatform(found, game)

(* Mutant: the request is resolved by its language alone.                  *)
ResolveByLanguage(found, game, platform, sha, language) ==
  LET ids    == {r \in Identities(found, game, platform) :
                   language \in {NoLanguage, LanguageOf[r]}}
      chosen == IF language = NoLanguage THEN SelectSha(ids, sha) ELSE OnlyOne(ids)
  IN  IF chosen \in ids /\ Launchable(chosen) THEN chosen ELSE NoRelease

(* The exact release a request names, or none.                             *)
Resolve(found, game, platform, sha, language) ==
  LET ids    == {r \in Identities(found, game, platform) :
                   language \in {NoLanguage, LanguageOf[r]}}
      chosen == CASE sha # NoRelease -> sha
                  [] sha = NoRelease /\ language # NoLanguage -> OnlyOne(ids)
                  [] OTHER -> SelectSha(ids, NoRelease)
  IN  IF chosen \in ids /\ Launchable(chosen) THEN chosen ELSE NoRelease

----------------------------------------------------------------------------
(* LauncherSessionState over LauncherRouteState *)

ForgetRelease(l) ==
  [l EXCEPT !.language = NoLanguage, !.sha = NoRelease, !.explicit = FALSE]

(* Mutant: navigation forgets the open question but not its old answer.    *)
InvalidatePendingOnly(l) == [l EXCEPT !.pending = FALSE]

InvalidateCustom(l) == [l EXCEPT !.ready = FALSE, !.pending = FALSE]

ChooseOriginal(l) == InvalidateCustom([l EXCEPT !.presentation = "original"])

ChooseModern(l) == InvalidateCustom([l EXCEPT !.presentation = "modern"])

BeginCustom(l) ==
  [l EXCEPT !.presentation = "modern", !.ready = FALSE, !.pending = TRUE]

ConfirmCustom(l) ==
  [l EXCEPT !.presentation = "modern", !.ready = TRUE, !.pending = FALSE]

(* Mutant: another game keeps the identity chosen for the last one.        *)
FocusGameKeepingRelease(l, found, game) ==
  InvalidateCustom([l EXCEPT !.game = game,
                             !.platform = SelectPlatform(found, game, l.platform)])

FocusGame(l, found, game) ==
  LET platform == SelectPlatform(found, game, l.platform)
      moved    == game # l.game \/ platform # l.platform
  IN  InvalidateCustom([(IF moved THEN ForgetRelease(l) ELSE l)
                          EXCEPT !.game = game, !.platform = platform])

ChoosePlatform(l, found, platform) ==
  LET scoped   == IF l.platform = platform THEN l ELSE ForgetRelease(l)
      sha      == SelectSha(Identities(found, l.game, platform), scoped.sha)
      resolved == Resolve(found, l.game, platform, sha, NoLanguage)
  IN  IF ~Selectable(found, l.game, platform) THEN l
      ELSE InvalidateCustom(
             [scoped EXCEPT !.platform = platform, !.sha = sha,
                            !.language = IF resolved = NoRelease THEN NoLanguage
                                         ELSE LanguageOf[resolved],
                            !.page = IF sha = NoRelease THEN "releases" ELSE "profiles"])

ChooseRelease(l, found, r) ==
  LET resolved == Resolve(found, l.game, l.platform, r, NoLanguage) IN
  IF l.platform = NoPlatform \/ resolved = NoRelease THEN l
  ELSE InvalidateCustom([l EXCEPT !.sha = resolved, !.language = LanguageOf[resolved],
                                  !.explicit = TRUE, !.page = "profiles"])

RouteBack(l, found) ==
  LET several == Cardinality(Identities(found, l.game, l.platform)) > 1 IN
  InvalidateCustom(
    [l EXCEPT !.page = CASE l.page = "profiles" /\ several -> "releases"
                         [] l.page = "profiles" /\ ~several -> "platforms"
                         [] l.page = "releases" -> "platforms"
                         [] OTHER -> "games"])

(* Revalidates the route against what the scanner has found by now, and    *)
(* revokes an automatic selection that is no longer the only one.          *)
ReconcileReleases(l, found) ==
  LET ids == Identities(found, l.game, l.platform) IN
  CASE l.platform # NoPlatform /\ ids = {} ->
         InvalidateCustom([ForgetRelease(l) EXCEPT
           !.platform = NoPlatform,
           !.page = IF @ = "games" THEN "games" ELSE "platforms"])
    [] ids # {} /\ l.sha # NoRelease /\ (l.sha \in ids => ~l.explicit /\ ids # {l.sha}) ->
         InvalidateCustom([ForgetRelease(l) EXCEPT !.page = "releases"])
    [] l.sha \in ids /\ (l.explicit \/ ids = {l.sha}) /\ l.language # LanguageOf[l.sha] ->
         InvalidateCustom([l EXCEPT !.language = LanguageOf[l.sha]])
    [] OTHER -> l

ReleaseIsSelected(l) ==
  l.platform # NoPlatform /\ l.sha # NoRelease /\ l.language # NoLanguage

CanLaunch(l) == ReleaseIsSelected(l) /\ ~l.pending

(* The release a launch of the shown cards would name.                     *)
ResolveLaunch(l, found) ==
  IF CanLaunch(l) THEN Resolve(found, l.game, l.platform, l.sha, l.language) ELSE NoRelease

(* The provenance that release-bound caches are compared by.               *)
SourceIdentity(l) == <<l.game, l.platform, l.language, l.sha>>

----------------------------------------------------------------------------
(* LauncherCardFocus and LauncherInteractionController *)

CardCount(l, found) ==
  CASE l.page = "games"     -> Len(GameCards)
    [] l.page = "platforms" -> Len(Supported(l.game))
    [] l.page = "releases"  -> Cardinality(Identities(found, l.game, l.platform))
    [] l.page = "profiles"  -> Len(ProfileCards)

(* Focus is bounded by the cards now shown; an empty page keeps its focus. *)
SetFocus(l, page, count, index) ==
  IF count = 0 THEN l
  ELSE [l EXCEPT !.focus[page] = IF index < count THEN index ELSE count - 1]

ResetFocus(l, pages) ==
  [l EXCEPT !.focus = [page \in Pages |-> IF page \in pages THEN 0 ELSE @[page]]]

AfterGameChange(l) == ResetFocus(l, {"platforms", "releases", "profiles"})

AfterPlatformChange(l) == ResetFocus(l, {"releases", "profiles"})

(* An automatic selection moves the focus to the card it selected.         *)
FocusSelectedPlatform(l) ==
  LET cards == Supported(l.game)
      at    == {i \in DOMAIN cards : cards[i] = l.platform}
  IN  IF at = {} THEN l
      ELSE SetFocus(l, "platforms", Len(cards), (CHOOSE i \in at : TRUE) - 1)

Synchronize(l, found) ==
  LET focused    == SetFocus(l, "games", Len(GameCards), l.focus["games"])
      routed     == IF focused.page = "games"
                    THEN FocusGame(focused, found, GameCards[focused.focus["games"] + 1])
                    ELSE focused
      reconciled == FocusSelectedPlatform(ReconcileReleases(routed, found))
  IN  SetFocus(reconciled, reconciled.page, CardCount(reconciled, found),
               reconciled.focus[reconciled.page])

(* Platform cards that cannot be entered are skipped, in either direction. *)
MovePlatformFocus(l, found, direction) ==
  LET cards   == Supported(l.game)
      count   == Len(cards)
      current == IF l.focus["platforms"] < count THEN l.focus["platforms"] ELSE count - 1
      at(step) == (current + count + direction * (step % count)) % count
      hits    == {step \in 1..count : Selectable(found, l.game, cards[at(step) + 1])}
  IN  IF hits = {} THEN l
      ELSE SetFocus(l, "platforms", count,
                    at(CHOOSE step \in hits : \A other \in hits : step <= other))

EdgePlatformFocus(l, found, first) ==
  LET cards == Supported(l.game)
      hits  == {i \in DOMAIN cards : Selectable(found, l.game, cards[i])}
  IN  IF hits = {} THEN l
      ELSE SetFocus(l, "platforms", Len(cards),
                    (CHOOSE i \in hits :
                       \A j \in hits : IF first THEN i <= j ELSE i >= j) - 1)

(* Moving over the games chooses one; moving over the profiles takes back  *)
(* a confirmed Custom.                                                     *)
AfterFocus(l, found, page) ==
  CASE page = "games"    -> Synchronize(l, found)
    [] page = "profiles" -> InvalidateCustom(l)
    [] OTHER             -> l

Move(l, found, direction) ==
  LET count == CardCount(l, found)
      index == IF l.focus[l.page] < count THEN l.focus[l.page] ELSE count - 1
      moved == CASE l.page = "platforms" -> MovePlatformFocus(l, found, direction)
                 [] l.page # "platforms" /\ count = 0 -> l
                 [] OTHER -> SetFocus(l, l.page, count, (index + count + direction) % count)
  IN  AfterFocus(moved, found, l.page)

Edge(l, found, first) ==
  LET count == CardCount(l, found)
      moved == CASE l.page = "platforms" -> EdgePlatformFocus(l, found, first)
                 [] l.page # "platforms" /\ count = 0 -> l
                 [] OTHER -> SetFocus(l, l.page, count, IF first THEN 0 ELSE count - 1)
  IN  AfterFocus(moved, found, l.page)

Back(l, found) == Synchronize(RouteBack(l, found), found)

(* The cards of the release page in the order of their hashes.             *)
NthIdentity(ids, index) ==
  CHOOSE r \in ids : Cardinality({other \in ids : other < r}) = index

Effects == {"none", "open_custom_settings", "launch"}

LaunchIf(l) == [launcher |-> l, effect |-> IF CanLaunch(l) THEN "launch" ELSE "none"]

ActivateProfile(l) ==
  LET card == ProfileCards[l.focus["profiles"] + 1] IN
  CASE card = "original" -> LaunchIf(ChooseOriginal(l))
    [] card = "modern" -> LaunchIf(ChooseModern(l))
    [] card = "custom" /\ l.ready -> LaunchIf(l)
    [] OTHER -> [launcher |-> BeginCustom(l), effect |-> "open_custom_settings"]

Activate(l, found) ==
  LET cards  == Supported(l.game)
      bound  == SetFocus(l, l.page, CardCount(l, found), l.focus[l.page])
      ids    == Identities(found, l.game, l.platform)
      card   == cards[bound.focus["platforms"] + 1]
      chosen == ChoosePlatform(bound, found, card)
      Quiet(next) == [launcher |-> next, effect |-> "none"]
  IN
  CASE l.page = "games" ->
         Quiet([Synchronize(AfterGameChange(l), found) EXCEPT !.page = "platforms"])
    [] l.page = "platforms" ->
         Quiet(IF Selectable(found, l.game, card) THEN AfterPlatformChange(chosen) ELSE bound)
    [] l.page = "releases" /\ l.platform = NoPlatform -> Quiet(l)
    [] l.page = "releases" /\ l.platform # NoPlatform /\ ids = {} ->
         Quiet([l EXCEPT !.page = "platforms"])
    [] l.page = "releases" /\ l.platform # NoPlatform /\ ids # {} ->
         Quiet(ChooseRelease(bound, found, NthIdentity(ids, bound.focus["releases"])))
    [] l.page = "profiles" -> ActivateProfile(bound)

(* A pointer focuses the card it hits and activates it.                    *)
ActivateCard(l, found, index) ==
  LET hit == SetFocus(l, l.page, CardCount(l, found), index) IN
  IF index >= CardCount(l, found) THEN [launcher |-> l, effect |-> "none"]
  ELSE Activate(IF l.page = "games" THEN Synchronize(hit, found) ELSE hit, found)

(* A new data source inherits no more than the focused game card.          *)
ResetForData(l, game) ==
  LET at == CHOOSE i \in DOMAIN GameCards : GameCards[i] = game IN
  AfterGameChange(
    [ChooseOriginal([ForgetRelease(l) EXCEPT !.page = "games", !.game = game,
                                             !.platform = NoPlatform])
       EXCEPT !.focus["games"] = at - 1])

----------------------------------------------------------------------------
(* What the event loop adds to the controller *)

(* On the games page the platform focus follows the automatic platform.    *)
OnGames(l) == IF l.page = "games" THEN FocusSelectedPlatform(l) ELSE l

MoveCards(l, found, direction) ==
  LET moved == Move(l, found, direction) IN
  OnGames(IF moved.page = "games" /\ moved.platform = NoPlatform
          THEN AfterGameChange(moved) ELSE moved)

EdgeCards(l, found, first) == OnGames(Edge(l, found, first))

BackCards(l, found) == OnGames(Back(l, found))

(* focus_menu_card: the menu keeps its game card and its automatic         *)
(* platform in step after whatever changed the releases.                   *)
FocusMenuCard(l, found) ==
  LET synced == Synchronize(SetFocus(l, "games", Len(GameCards), l.focus["games"]), found)
  IN  FocusSelectedPlatform(
        IF synced.platform = NoPlatform THEN AfterGameChange(synced) ELSE synced)

(* A data source chosen in a dialog.                                       *)
ReplaceData(l) == FocusMenuCard(ResetForData(l, GameCards[l.focus["games"] + 1]), {})

(* Closing the renderer settings over this card confirms Custom.           *)
OnCustomCard(l) == l.page = "profiles" /\ ProfileCards[l.focus["profiles"] + 1] = "custom"
=============================================================================

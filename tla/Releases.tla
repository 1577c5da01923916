-------------------------------- MODULE Releases --------------------------------
(***************************************************************************)
(* The original releases the program recognises.  A release is the rank of *)
(* its SHA-256 among the manifest's, so that the order of the numbers is   *)
(* the order in which every card list shows them.                          *)
(***************************************************************************)
EXTENDS Naturals, FiniteSets

CONSTANTS Release,      \* the releases in the manifest, by rank of their hash
          GameOf,       \* the identity of a release: its game,
          PlatformOf,   \* its platform
          LanguageOf,   \* and its language
          AdapterOf     \* the runtime adapter its capability table names

Games == {"millennium", "deuteros"}
Platforms == {"dos", "amiga", "atari_st"}
Languages == {"en", "es"}
Adapters == {"millennium_dos", "deuteros_amiga", "bootstrap_only", "preservation_only"}

ASSUME ReleaseAssumption == Release \subseteq Nat \ {0}

ASSUME IdentityAssumption ==
  /\ GameOf \in [Release -> Games]
  /\ PlatformOf \in [Release -> Platforms]
  /\ LanguageOf \in [Release -> Languages]

ASSUME AdapterAssumption == AdapterOf \in [Release -> Adapters]

NoRelease == 0

(* Media kept for preservation is recognised, listed and never started.    *)
Launchable(r) == AdapterOf[r] # "preservation_only"

(* The manifest is a table, and it has no Deuteros for DOS.                *)
ASSUME ManifestAssumption ==
  /\ IsFiniteSet(Release)
  /\ \A r \in Release : GameOf[r] = "deuteros" => PlatformOf[r] # "dos"

(* The capability table keeps no English release for preservation beside   *)
(* one of the same game and platform that starts.                          *)
ASSUME PreservationAssumption ==
  \A r, s \in Release :
    /\ GameOf[r] = GameOf[s] /\ PlatformOf[r] = PlatformOf[s]
    /\ LanguageOf[r] = "en" /\ Launchable(s)
    => Launchable(r)

(* The table names the reconstructed Amiga opening for Deuteros only.      *)
ASSUME OpeningAssumption ==
  \A r \in Release : AdapterOf[r] = "deuteros_amiga" => GameOf[r] = "deuteros"
=============================================================================

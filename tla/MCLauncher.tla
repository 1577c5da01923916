------------------------------- MODULE MCLauncher -------------------------------
(* A collection where every card rule matters: two English Amiga releases, *)
(* English and Spanish DOS beside each other, and a second game.           *)
EXTENDS Launcher, MCReleases

MCGameOf == Of(ManifestGame, Release)
MCPlatformOf == Of(ManifestPlatform, Release)
MCLanguageOf == Of(ManifestLanguage, Release)
MCAdapterOf == Of(ManifestAdapter, Release)
=============================================================================

----------------------------- MODULE MCRuntimeHost -----------------------------
(* One release per adapter: Spanish and English Millennium DOS, an Atari   *)
(* release of Deuteros and its clean Amiga disks.                          *)
EXTENDS RuntimeHost, MCReleases

MCGameOf == Of(ManifestGame, Release)
MCPlatformOf == Of(ManifestPlatform, Release)
MCLanguageOf == Of(ManifestLanguage, Release)
MCAdapterOf == Of(ManifestAdapter, Release)
=============================================================================

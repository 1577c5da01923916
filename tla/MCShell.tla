-------------------------------- MODULE MCShell --------------------------------
(* English Millennium DOS beside the Spanish release that makes its card   *)
(* ambiguous, and Deuteros on the Amiga.                                   *)
EXTENDS Shell, MCReleases

MCGameOf == Of(ManifestGame, Release)
MCPlatformOf == Of(ManifestPlatform, Release)
MCLanguageOf == Of(ManifestLanguage, Release)
MCAdapterOf == Of(ManifestAdapter, Release)
=============================================================================

------------------------------- MODULE MCReleases -------------------------------
(* The manifest, in the order of its hashes: the Atari ST and Amiga        *)
(* releases of Millennium (two of each), Spanish and English Millennium    *)
(* DOS, and Deuteros on the Atari ST and on the Amiga.                     *)
EXTENDS Naturals, Sequences

ManifestGame ==
  <<"millennium", "millennium", "millennium", "millennium",
    "deuteros", "millennium", "millennium", "deuteros">>

ManifestPlatform ==
  <<"atari_st", "amiga", "dos", "atari_st", "atari_st", "dos", "amiga", "amiga">>

ManifestLanguage == <<"en", "en", "es", "en", "en", "en", "en", "en">>

ManifestAdapter ==
  <<"bootstrap_only", "bootstrap_only", "preservation_only", "bootstrap_only",
    "bootstrap_only", "millennium_dos", "bootstrap_only", "deuteros_amiga">>

(* The part of a column that concerns a set of releases.                   *)
Of(column, releases) == [r \in releases |-> column[r]]
=============================================================================

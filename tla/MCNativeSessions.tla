-------------------------- MODULE MCNativeSessions --------------------------
(* Small sessions of every kind, for TLC.                                  *)
EXTENDS NativeSessions
=============================================================================

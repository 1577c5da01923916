---------------------------- MODULE MCOpeningRunner ----------------------------
(* Four milliseconds per tick and two ticks of catch-up: frames shorter    *)
(* than a tick, between one and two, and far longer than a catch-up.       *)
EXTENDS OpeningRunner
=============================================================================

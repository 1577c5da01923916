---------------------------- MODULE SessionLifecycle ----------------------------
(***************************************************************************)
(* What the runtime promises the shell that borrows from it.               *)
(*                                                                         *)
(* At most one release is on offer.  It stays the same until a launch puts *)
(* another in its place or a revocation withdraws it; from the start of a  *)
(* revocation nothing is on offer, the epoch has already changed, and only *)
(* the end of that revocation opens the way to the next launch.            *)
(***************************************************************************)
EXTENDS Naturals

CONSTANTS Release, NoRelease

VARIABLES phase,   \* "idle", "refused", "live" or "revoking"
          offered, \* the release the shell may read from
          epoch    \* grows with every revocation

vars == <<phase, offered, epoch>>

Init == phase = "idle" /\ offered = NoRelease /\ epoch = 0

Admit(rel) ==
  /\ phase # "revoking"
  /\ phase' = "live" /\ offered' = rel
  /\ UNCHANGED epoch

Refuse ==
  /\ phase # "revoking"
  /\ phase' \in {"idle", "refused"} /\ offered' = NoRelease
  /\ UNCHANGED epoch

StartRevocation ==
  /\ phase # "revoking"
  /\ phase' = "revoking" /\ offered' = NoRelease
  /\ epoch' = epoch + 1

EndRevocation ==
  /\ phase = "revoking"
  /\ phase' = "idle"
  /\ UNCHANGED <<offered, epoch>>

Next ==
  \/ \E rel \in Release : Admit(rel)
  \/ Refuse
  \/ StartRevocation
  \/ EndRevocation

Spec == Init /\ [][Next]_vars
=============================================================================

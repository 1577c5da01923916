------------------------------ MODULE RuntimeHost ------------------------------
(***************************************************************************)
(* The native runtime behind its SDL-free facade: every operation of       *)
(* RuntimeHost, in any order a caller may choose.                          *)
(*                                                                         *)
(* The host is driven from one thread, so an operation is one step.  What  *)
(* makes it hard is the order of calls: a launch over a live session, an   *)
(* input or a scheduler call between the two halves of a revocation, an    *)
(* input gate that closes around any of them.                              *)
(***************************************************************************)
EXTENDS RuntimeOps

CONSTANT MaxGeneration  \* bound on the host generation, a uint64 in the code

ASSUME MaxGenerationAssumption == MaxGeneration \in Nat

VARIABLES runtime,      \* RuntimeHost with the controller and coordinator inside it
          runnerSerial  \* history: the session serial the scheduler was started for

vars == <<runtime, runnerSerial>>

(* The scheduler's tick source captures the controller, not a session.     *)
(* runnerSerial remembers which session it was started for.                *)
Update(next) ==
  /\ runtime' = next
  /\ runnerSerial' = IF next.runner = "none" THEN 0
                     ELSE IF runtime.runner = next.runner THEN runnerSerial
                     ELSE IF next.runner = "running" THEN next.serial ELSE runnerSerial

Init == runtime = InitRuntime /\ runnerSerial = 0

LaunchCandidate ==
  \E rel \in Release \cup {NoRelease}, outcome \in AcquireOutcomes :
    Update(Launch(runtime, rel, outcome))

BeginRevocation ==
  /\ runtime.generation < MaxGeneration
  /\ Update(BeginSourceRevocation(runtime))

FinishRevocation == Update(FinishSourceRevocation(runtime))

Suppress == \E suppressed \in BOOLEAN : Update(SetInputSuppressed(runtime, suppressed))

ObserveInput ==
  \E obs \in Observations, succeeds \in BOOLEAN :
    Update(HostObserve(runtime, obs, succeeds).runtime)

Advance == \E outcome \in TickOutcomes : Update(HostAdvance(runtime, outcome))

DriveSession == Update(HostDrive(runtime))

ObserveParentStack == Update(HostObserveStack(runtime))

Next ==
  \/ LaunchCandidate
  \/ BeginRevocation
  \/ FinishRevocation
  \/ Suppress
  \/ ObserveInput
  \/ Advance
  \/ DriveSession
  \/ ObserveParentStack

Spec == Init /\ [][Next]_vars

----------------------------------------------------------------------------
TypeOK == runtime \in RuntimeType /\ runnerSerial \in Nat

(* No call order leaves a session, child object or choice of an earlier    *)
(* release beside the current one (RuntimeOps states what that means).     *)
Ownership == OwnedByOneRelease(runtime)

(* The state that gates calls is the state of the published session.       *)
StateIsPublished == StateFollowsSession(runtime)

(* A held signal is never left behind a closed gate or a finished opening. *)
NoLeakedHold == HeldOnlyInOpenGate(runtime)

(* A scheduler ticks only the session it was started for: a relaunch, even *)
(* of the same release, or a revocation leaves none behind.                *)
SchedulerOwned ==
  /\ SchedulerHasSession(runtime)
  /\ runtime.runner # "none" => runnerSerial = runtime.serial

(* The teardown window: between begin and finish of a revocation no call   *)
(* changes what the outgoing source owned.                                 *)
Coordinator(r) ==
  <<r.active, r.admission, r.kind, r.held, r.sound, r.driver, r.title, r.opening, r.serial>>

TeardownIsInert ==
  [][Revoking(runtime) /\ Revoking(runtime)' =>
       UNCHANGED <<Coordinator(runtime), runtime.generation>>]_vars

(* Published states move forward: within one admitted session the kind     *)
(* follows the recovered programs and never returns to an earlier stage.   *)
Stage(kind) ==
  CASE kind = "amiga_opening" -> 1
    [] kind = "amiga_title_program_entry" -> 2
    [] kind = "amiga_title_stage" -> 3
    [] OTHER -> 0

ForwardOnly ==
  [][runtime.serial # 0 /\ runtime'.serial = runtime.serial =>
       /\ runtime'.active = runtime.active
       /\ Stage(runtime.kind) <= Stage(runtime'.kind)
       /\ (runtime.sound = "chosen" => runtime'.sound = "chosen")
       /\ (runtime.kind = "dos_title_handoff_boundary" =>
             runtime'.kind = "dos_title_handoff_boundary")]_vars

----------------------------------------------------------------------------
(* What the facade offers its borrower: active() is empty in the teardown. *)
Offered == IF Revoking(runtime) THEN NoRelease ELSE runtime.active

Phase ==
  CASE Revoking(runtime) -> "revoking"
    [] ~Revoking(runtime) /\ runtime.admission = "active" -> "live"
    [] ~Revoking(runtime) /\ runtime.admission = "unselected" -> "idle"
    [] OTHER -> "refused"

Lifecycle == INSTANCE SessionLifecycle
               WITH phase <- Phase, offered <- Offered, epoch <- runtime.generation

(* The host keeps the promise of SessionLifecycle whatever its caller does.*)
ImplementsLifecycle == Lifecycle!Spec
=============================================================================

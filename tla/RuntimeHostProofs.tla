--------------------------- MODULE RuntimeHostProofs ---------------------------
(***************************************************************************)
(* The safety of RuntimeHost, whatever its caller does and in whatever     *)
(* order, for every set of releases and every capability table; and that   *)
(* it implements SessionLifecycle.                                         *)
(***************************************************************************)
EXTENDS RuntimeHost, OpsProofs

(* The inductive invariant: RuntimeInv says of one record all that each    *)
(* property needs of the others; the scheduler's history completes it.     *)
HostInv ==
  /\ RuntimeInv(runtime)
  /\ runnerSerial \in Nat
  /\ runtime.runner # "none" => runnerSerial = runtime.serial

LEMMA HostInvInit == Init => HostInv
  BY InitRuntimeInv DEF Init, HostInv, InitRuntime

(* An operation that keeps the session or stops the scheduler keeps the    *)
(* scheduler with the session it was started for.                          *)
LEMMA UpdateInv ==
  ASSUME NEW next, HostInv, RuntimeInv(next), Update(next),
         \/ next.runner = "none"
         \/ next.serial = runtime.serial /\ next.runner = runtime.runner
         \/ next.serial = runtime.serial /\ next.runner = "running"
         \/ /\ next.serial = runtime.serial
            /\ runtime.runner = "running" /\ next.runner = "stopped"
  PROVE  HostInv'
  <1>1. next.serial \in Nat /\ next.runner \in {"none", "running", "stopped"}
    BY DEF RuntimeInv, RuntimeType
  <1>2. runtime' = next
    BY DEF Update
  <1>3. RuntimeInv(runtime)'
    BY <1>2
  <1>4. /\ runnerSerial' \in Nat
        /\ next.runner # "none" => runnerSerial' = next.serial
    BY <1>1 DEF Update, HostInv
  <1> QED BY <1>2, <1>3, <1>4 DEF HostInv

(* A launch stops the preceding scheduler before it admits anything.       *)
LEMMA LaunchRunner ==
  ASSUME NEW r, RuntimeInv(r), NEW rel \in Release \cup {NoRelease},
         NEW outcome \in AcquireOutcomes
  PROVE  Launch(r, rel, outcome).runner = "none"
  <1>1. CASE Revoking(r)
    BY <1>1 DEF Launch, RuntimeInv, SchedulerHasSession, RuntimeType
  <1>2. CASE ~Revoking(r)
    <2> DEFINE idle == [r EXCEPT !.runner = "none"]
               next == AdmitRuntimeLaunch(idle, rel, outcome)
    <2>1. idle \in RuntimeType /\ idle.runner = "none"
      BY DEF RuntimeInv, RuntimeType
    <2> HIDE DEF idle
    <2>2. next \in RuntimeType /\ next.runner = "none"
      <3>1. CASE rel = NoRelease
        BY <2>1, <3>1, ResetCoordinatorEmpties DEF AdmitRuntimeLaunch
      <3>2. CASE rel # NoRelease
        BY <2>1, <3>2, AcquireUnsynchronized DEF AdmitRuntimeLaunch, Unsynchronized
      <3> QED BY <3>1, <3>2
    <2> HIDE DEF next
    <2> QED BY <1>2, <2>2, SynchronizeKeeps DEF Launch, idle, next
  <1> QED BY <1>1, <1>2

LEMMA HostInvNext == HostInv /\ [Next]_vars => HostInv'
  <1> SUFFICES ASSUME HostInv, [Next]_vars PROVE HostInv'
    OBVIOUS
  <1> USE DEF HostInv
  <1>1. ASSUME NEW rel \in Release \cup {NoRelease}, NEW outcome \in AcquireOutcomes,
               Update(Launch(runtime, rel, outcome))
        PROVE  HostInv'
    BY <1>1, LaunchInv, LaunchRunner, UpdateInv
  <1>2. ASSUME Update(BeginSourceRevocation(runtime)) PROVE HostInv'
    <2>1. RuntimeInv(BeginSourceRevocation(runtime))
      BY BeginSourceRevocationInv
    <2>2. BeginSourceRevocation(runtime).runner = "none"
      BY DEF BeginSourceRevocation, BeginReturnToMenu, RuntimeInv, RuntimeType,
             SchedulerHasSession
    <2> QED BY <1>2, <2>1, <2>2, UpdateInv
  <1>3. ASSUME Update(FinishSourceRevocation(runtime)) PROVE HostInv'
    <2>1. RuntimeInv(FinishSourceRevocation(runtime))
      BY FinishSourceRevocationInv
    <2>2. FinishSourceRevocation(runtime) = runtime
            \/ FinishSourceRevocation(runtime).runner = "none"
      BY DEF FinishSourceRevocation, FinishReturnToMenu, ResetCoordinator, RuntimeInv,
             RuntimeType, SchedulerHasSession, Revoking
    <2> QED BY <1>3, <2>1, <2>2, UpdateInv
  <1>4. ASSUME NEW suppressed \in BOOLEAN, Update(SetInputSuppressed(runtime, suppressed))
        PROVE  HostInv'
    BY <1>4, SetInputSuppressedInv, SetInputSuppressedKeeps, UpdateInv DEF Keeps
  <1>5. ASSUME NEW obs \in Observations, NEW succeeds \in BOOLEAN,
               Update(HostObserve(runtime, obs, succeeds).runtime)
        PROVE  HostInv'
    BY <1>5, HostObserveInv, HostObserveKeeps, UpdateInv DEF Keeps
  <1>6. ASSUME NEW outcome \in TickOutcomes, Update(HostAdvance(runtime, outcome))
        PROVE  HostInv'
    BY <1>6, HostAdvanceInv, HostAdvanceKeeps, UpdateInv DEF Keeps
  <1>7. ASSUME Update(HostDrive(runtime)) PROVE HostInv'
    BY <1>7, HostDriveInv, HostDriveKeeps, UpdateInv DEF Keeps
  <1>8. ASSUME Update(HostObserveStack(runtime)) PROVE HostInv'
    BY <1>8, HostObserveStackInv, HostObserveStackKeeps, UpdateInv DEF Keeps
  <1>9. CASE UNCHANGED vars
    BY <1>9 DEF vars
  <1> QED BY <1>1, <1>2, <1>3, <1>4, <1>5, <1>6, <1>7, <1>8, <1>9
          DEF Next, LaunchCandidate, BeginRevocation, FinishRevocation, Suppress,
              ObserveInput, Advance, DriveSession, ObserveParentStack

(* Every reachable state of the host satisfies the inductive invariant.    *)
THEOREM HostInvariant == Spec => []HostInv
  <1> QED BY HostInvInit, HostInvNext, PTL DEF Spec

(* Its type.                                                               *)
THEOREM TypeCorrect == Spec => []TypeOK
  <1>1. HostInv => TypeOK
    BY DEF HostInv, RuntimeInv, TypeOK
  <1> QED BY <1>1, HostInvariant, PTL

(* No order of launches, refusals, inputs and revocations leaves anything  *)
(* of an earlier release beside the admitted one.                          *)
THEOREM OwnershipHolds == Spec => []Ownership
  <1>1. HostInv => Ownership
    BY DEF HostInv, RuntimeInv, Ownership
  <1> QED BY <1>1, HostInvariant, PTL

(* The lifecycle state is the state of the published session, so no call   *)
(* is admitted on a stale kind.                                            *)
THEOREM StateIsPublishedHolds == Spec => []StateIsPublished
  <1>1. HostInv => StateIsPublished
    BY DEF HostInv, RuntimeInv, StateIsPublished
  <1> QED BY <1>1, HostInvariant, PTL

(* No held signal survives the opening or a closed gate.                   *)
THEOREM NoLeakedHoldHolds == Spec => []NoLeakedHold
  <1>1. HostInv => NoLeakedHold
    BY DEF HostInv, RuntimeInv, NoLeakedHold
  <1> QED BY <1>1, HostInvariant, PTL

(* A scheduler only ever ticks the session it was started for.             *)
THEOREM SchedulerOwnedHolds == Spec => []SchedulerOwned
  <1>1. HostInv => SchedulerOwned
    BY DEF HostInv, RuntimeInv, SchedulerOwned
  <1> QED BY <1>1, HostInvariant, PTL

----------------------------------------------------------------------------
(* A launch keeps the teardown closed, and otherwise admits or refuses.    *)
LEMMA LaunchShape ==
  ASSUME NEW r, RuntimeInv(r), NEW rel \in Release \cup {NoRelease},
         NEW outcome \in AcquireOutcomes
  PROVE  /\ Revoking(r) => Launch(r, rel, outcome) = r
         /\ ~Revoking(r) => ~Revoking(Launch(r, rel, outcome))
         /\ Launch(r, rel, outcome).generation = r.generation
  <1>1. CASE Revoking(r)
    BY <1>1 DEF Launch
  <1>2. CASE ~Revoking(r)
    <2> DEFINE idle == [r EXCEPT !.runner = "none"]
               clean == ResetCoordinator(idle)
               next == AdmitRuntimeLaunch(idle, rel, outcome)
    <2>1. /\ idle \in RuntimeType /\ idle.state = r.state /\ idle.runner = "none"
          /\ idle.generation = r.generation
      BY DEF RuntimeInv, RuntimeType
    <2> HIDE DEF idle
    <2>2. clean \in RuntimeType /\ clean.state = r.state /\ clean.generation = r.generation
      BY <2>1, ResetCoordinatorEmpties
    <2> HIDE DEF clean
    <2>3. next.state = r.state /\ next.generation = r.generation
      <3>1. next \in { clean, Acquire(idle, rel, outcome) }
        BY DEF AdmitRuntimeLaunch, clean
      <3>2. /\ Acquire(idle, rel, outcome).state = r.state
            /\ Acquire(idle, rel, outcome).generation = r.generation
        <4>1. \A why \in Admissions :
                /\ [clean EXCEPT !.admission = why].state = r.state
                /\ [clean EXCEPT !.admission = why].generation = r.generation
          BY <2>2 DEF RuntimeType
        <4>2. \A a, k, n, m, s, o :
                LET q == [clean EXCEPT !.active = a, !.admission = "active", !.kind = k,
                                       !.counter = n, !.serial = m, !.sound = s,
                                       !.opening = o]
                IN  q.state = r.state /\ q.generation = r.generation
          BY <2>2 DEF RuntimeType
        <4>3. Acquire(idle, rel, outcome) =
                IF outcome = "archive" THEN [clean EXCEPT !.admission = "archive_rejected"]
                ELSE IF Refuses(idle, rel, outcome)
                THEN [clean EXCEPT !.admission = "adapter_rejected"]
                ELSE [clean EXCEPT !.active = rel, !.admission = "active",
                        !.kind = InitialKind(rel), !.counter = clean.counter + 1,
                        !.serial = idle.counter + 1,
                        !.sound = IF AdapterOf[rel] = "millennium_dos"
                                  THEN "awaiting" ELSE "absent",
                        !.opening = IF AdapterOf[rel] = "deuteros_amiga"
                                    THEN "running" ELSE "absent"]
          BY DEF Acquire, clean
        <4> QED BY <4>1, <4>2, <4>3 DEF Admissions
      <3> QED BY <2>2, <3>1, <3>2
    <2>4. next \in RuntimeType
      BY <2>1, AcquireUnsynchronized, ResetCoordinatorEmpties
      DEF AdmitRuntimeLaunch, Unsynchronized
    <2>5. Launch(r, rel, outcome) = SynchronizeAfterRuntimeChange(next)
      BY <1>2 DEF Launch, idle
    <2> HIDE DEF next
    <2>6. SynchronizeAfterRuntimeChange(next).generation = r.generation
      BY <2>3, <2>4 DEF SynchronizeAfterRuntimeChange, RuntimeType
    <2> QED BY <1>2, <2>3, <2>4, <2>5, <2>6, SynchronizeKeeps DEF Revoking
  <1> QED BY <1>1, <1>2

(* The end of a revocation leaves the generation it began with.            *)
LEMMA FinishShape ==
  ASSUME NEW r, RuntimeInv(r), Revoking(r)
  PROVE  LET q == FinishSourceRevocation(r)
         IN  /\ ~Revoking(q) /\ q.generation = r.generation
             /\ q.admission = "unselected" /\ q.active = NoRelease
  BY DEF FinishSourceRevocation, FinishReturnToMenu, ResetCoordinator, RuntimeInv, RuntimeType,
         Revoking

(* Between the two halves of a revocation no call changes what the         *)
(* outgoing source owned, nor begins a second revocation.                  *)
THEOREM TeardownIsInertHolds == Spec => TeardownIsInert
  <1> DEFINE Inert == Revoking(runtime) /\ Revoking(runtime)' =>
                        UNCHANGED <<Coordinator(runtime), runtime.generation>>
  <1>1. HostInv /\ [Next]_vars => [Inert]_vars
    <2> SUFFICES ASSUME HostInv, Next, Revoking(runtime), Revoking(runtime)'
                 PROVE  UNCHANGED <<Coordinator(runtime), runtime.generation>>
      BY DEF vars
    <2> USE DEF HostInv
    <2>1. ASSUME NEW q, runtime' = q, Keeps(runtime, q)
          PROVE  UNCHANGED <<Coordinator(runtime), runtime.generation>>
      BY <2>1 DEF Keeps, Coordinator
    <2>2. ASSUME NEW rel \in Release \cup {NoRelease}, NEW outcome \in AcquireOutcomes,
                 Update(Launch(runtime, rel, outcome))
          PROVE  UNCHANGED <<Coordinator(runtime), runtime.generation>>
      BY <2>1, <2>2, LaunchShape DEF Update, Keeps
    <2>3. ASSUME Update(BeginSourceRevocation(runtime))
          PROVE  UNCHANGED <<Coordinator(runtime), runtime.generation>>
      BY <2>1, <2>3 DEF BeginSourceRevocation, Update, Keeps
    <2>4. ASSUME Update(FinishSourceRevocation(runtime)) PROVE FALSE
      BY <2>4, FinishShape DEF Update
    <2>5. ASSUME NEW suppressed \in BOOLEAN, Update(SetInputSuppressed(runtime, suppressed))
          PROVE  UNCHANGED <<Coordinator(runtime), runtime.generation>>
      BY <2>1, <2>5, SetInputSuppressedKeeps DEF Update
    <2>6. ASSUME NEW obs \in Observations, NEW succeeds \in BOOLEAN,
                 Update(HostObserve(runtime, obs, succeeds).runtime)
          PROVE  UNCHANGED <<Coordinator(runtime), runtime.generation>>
      BY <2>1, <2>6, HostObserveKeeps DEF Update
    <2>7. ASSUME NEW outcome \in TickOutcomes, Update(HostAdvance(runtime, outcome))
          PROVE  UNCHANGED <<Coordinator(runtime), runtime.generation>>
      BY <2>1, <2>7, HostAdvanceKeeps DEF Update
    <2>8. ASSUME Update(HostDrive(runtime)) \/ Update(HostObserveStack(runtime))
          PROVE  UNCHANGED <<Coordinator(runtime), runtime.generation>>
      BY <2>1, <2>8, HostDriveKeeps, HostObserveStackKeeps DEF Update
    <2> QED BY <2>2, <2>3, <2>4, <2>5, <2>6, <2>7, <2>8
            DEF Next, LaunchCandidate, BeginRevocation, FinishRevocation, Suppress,
                ObserveInput, Advance, DriveSession, ObserveParentStack
  <1> QED BY <1>1, HostInvariant, PTL DEF Spec, TeardownIsInert

----------------------------------------------------------------------------
(* The refinement: every call of the host is a step of SessionLifecycle or *)
(* leaves what it promises alone.                                          *)
THEOREM HostImplementsLifecycle == Spec => ImplementsLifecycle
  <1>1. Init => Lifecycle!Init
    BY DEF Init, Lifecycle!Init, InitRuntime, Phase, Offered, Revoking
  <1>2. HostInv /\ HostInv' /\ [Next]_vars => [Lifecycle!Next]_(Lifecycle!vars)
    <2> SUFFICES ASSUME HostInv, HostInv', [Next]_vars
                 PROVE  [Lifecycle!Next]_(Lifecycle!vars)
      OBVIOUS
    <2> USE DEF HostInv
    <2>1. ASSUME NEW q, runtime' = q, Keeps(runtime, q)
          PROVE  UNCHANGED Lifecycle!vars
      <3>1. Offered' = Offered /\ Phase' = Phase /\ runtime'.generation = runtime.generation
        BY <2>1 DEF Keeps, Offered, Phase
      <3> QED BY <3>1 DEF Lifecycle!vars
    <2>2. ASSUME NEW rel \in Release \cup {NoRelease}, NEW outcome \in AcquireOutcomes,
                 Update(Launch(runtime, rel, outcome)), ~Revoking(runtime)
          PROVE  Lifecycle!Next
      <3>1. ~Revoking(runtime)' /\ runtime'.generation = runtime.generation
        BY <2>2, LaunchShape DEF Update
      <3>2. Phase # "revoking"
        BY <2>2 DEF Phase
      <3>3. CASE runtime'.admission = "active"
        <4>1. Phase' = "live" /\ Offered' = runtime'.active
          BY <3>1, <3>3 DEF Phase, Offered
        <4>2. runtime'.active \in Release
          BY <3>3 DEF RuntimeInv, OwnedByOneRelease
        <4>3. Lifecycle!Admit(runtime'.active)
          BY <3>1, <3>2, <4>1 DEF Lifecycle!Admit
        <4> QED BY <4>2, <4>3 DEF Lifecycle!Next
      <3>4. CASE runtime'.admission # "active"
        <4>1. Phase' \in {"idle", "refused"}
          BY <3>1, <3>4 DEF Phase
        <4>2. Offered' = NoRelease
          BY <3>1, <3>4 DEF Offered, RuntimeInv, OwnedByOneRelease, EmptyCoordinator
        <4> QED BY <3>1, <3>2, <4>1, <4>2 DEF Lifecycle!Next, Lifecycle!Refuse
      <3> QED BY <3>3, <3>4
    <2>3. ASSUME Update(BeginSourceRevocation(runtime)), ~Revoking(runtime)
          PROVE  Lifecycle!Next
      <3>1. Revoking(runtime)' /\ runtime'.generation = runtime.generation + 1
        BY <2>3 DEF BeginSourceRevocation, BeginReturnToMenu, Update, RuntimeInv, RuntimeType,
                    Revoking
      <3>2. Phase # "revoking" /\ Phase' = "revoking" /\ Offered' = NoRelease
        BY <2>3, <3>1 DEF Phase, Offered
      <3> QED BY <3>1, <3>2 DEF Lifecycle!Next, Lifecycle!StartRevocation
    <2>4. ASSUME Update(FinishSourceRevocation(runtime)), Revoking(runtime)
          PROVE  Lifecycle!Next
      <3>1. /\ ~Revoking(runtime)' /\ runtime'.generation = runtime.generation
            /\ runtime'.admission = "unselected" /\ runtime'.active = NoRelease
        BY <2>4, FinishShape DEF Update
      <3>2. Phase = "revoking" /\ Phase' = "idle" /\ Offered = NoRelease /\ Offered' = NoRelease
        BY <2>4, <3>1 DEF Phase, Offered
      <3> QED BY <3>1, <3>2 DEF Lifecycle!Next, Lifecycle!EndRevocation
    <2>5. ASSUME runtime' = runtime PROVE UNCHANGED Lifecycle!vars
      BY <2>1, <2>5 DEF Keeps
    <2>6. ASSUME LaunchCandidate PROVE [Lifecycle!Next]_(Lifecycle!vars)
      BY <2>2, <2>5, <2>6, LaunchShape DEF LaunchCandidate, Update
    <2>7. ASSUME BeginRevocation PROVE [Lifecycle!Next]_(Lifecycle!vars)
      BY <2>3, <2>5, <2>7 DEF BeginRevocation, BeginSourceRevocation, Update
    <2>8. ASSUME FinishRevocation PROVE [Lifecycle!Next]_(Lifecycle!vars)
      BY <2>4, <2>5, <2>8 DEF FinishRevocation, FinishSourceRevocation, Update
    <2>9. ASSUME Suppress PROVE UNCHANGED Lifecycle!vars
      BY <2>1, <2>9, SetInputSuppressedKeeps DEF Suppress, Update
    <2>10. ASSUME ObserveInput PROVE UNCHANGED Lifecycle!vars
      BY <2>1, <2>10, HostObserveKeeps DEF ObserveInput, Update
    <2>11. ASSUME Advance PROVE UNCHANGED Lifecycle!vars
      BY <2>1, <2>11, HostAdvanceKeeps DEF Advance, Update
    <2>12. ASSUME DriveSession \/ ObserveParentStack PROVE UNCHANGED Lifecycle!vars
      BY <2>1, <2>12, HostDriveKeeps, HostObserveStackKeeps
      DEF DriveSession, ObserveParentStack, Update
    <2>13. CASE UNCHANGED vars
      BY <2>5, <2>13 DEF vars
    <2> QED BY <2>6, <2>7, <2>8, <2>9, <2>10, <2>11, <2>12, <2>13 DEF Next
  <1> QED BY <1>1, <1>2, HostInvariant, PTL DEF Spec, ImplementsLifecycle, Lifecycle!Spec

----------------------------------------------------------------------------
(* What one step may do to a session that it does not end.                 *)
MovesForward(r, q) ==
  /\ q.active = r.active
  /\ Stage(r.kind) <= Stage(q.kind)
  /\ r.sound = "chosen" => q.sound = "chosen"
  /\ r.kind = "dos_title_handoff_boundary" => q.kind = "dos_title_handoff_boundary"

LEMMA StageRank ==
  /\ Stage("amiga_opening") = 1 /\ Stage("amiga_title_program_entry") = 2
  /\ Stage("amiga_title_stage") = 3
  /\ \A kind : kind \notin AmigaKinds => Stage(kind) = 0
  /\ \A kind : Stage(kind) \in 0..3 /\ Stage(kind) <= Stage(kind)
  <1>1. Stage("amiga_opening") = 1
    BY Zenon DEF Stage
  <1>2. Stage("amiga_title_program_entry") = 2
    BY DEF Stage
  <1>3. Stage("amiga_title_stage") = 3
    BY DEF Stage
  <1>4. ASSUME NEW kind, kind \notin AmigaKinds PROVE Stage(kind) = 0
    BY <1>4, Zenon DEF Stage, AmigaKinds
  <1>5. ASSUME NEW kind PROVE Stage(kind) \in 0..3
    <2>1. CASE kind \notin AmigaKinds
      BY <1>4, <2>1
    <2>2. CASE kind \in AmigaKinds
      BY <1>1, <1>2, <1>3, <2>2 DEF AmigaKinds
    <2> QED BY <2>1, <2>2
  <1>6. ASSUME NEW kind PROVE Stage(kind) <= Stage(kind)
    BY <1>5
  <1> QED BY <1>1, <1>2, <1>3, <1>4, <1>5, <1>6

LEMMA StaysForward ==
  ASSUME NEW r, NEW q, q.active = r.active, q.kind = r.kind, q.sound = r.sound
  PROVE  MovesForward(r, q)
  BY StageRank DEF MovesForward

(* Publishing the state moves no session.                                  *)
LEMMA PublishesForward ==
  ASSUME NEW r, NEW q \in RuntimeType, MovesForward(r, q)
  PROVE  MovesForward(r, SynchronizeAfterRuntimeChange(q))
  <1> DEFINE s == SynchronizeAfterRuntimeChange(q)
  <1>1. s.active = q.active /\ s.kind = q.kind /\ s.sound = q.sound
    BY DEF SynchronizeAfterRuntimeChange, RuntimeType
  <1> QED BY <1>1 DEF MovesForward

LEMMA ObserveForward ==
  ASSUME NEW r, RuntimeInv(r), NEW obs \in Observations, NEW succeeds \in BOOLEAN
  PROVE  MovesForward(r, ControllerObserve(r, obs, succeeds).runtime)
  <1> DEFINE seen == CoordinatorObserve(r, obs, succeeds).runtime
  <1>1. r \in RuntimeType
    BY DEF RuntimeInv
  <1>2. \/ seen = r
        \/ \E held \in BOOLEAN : seen = [r EXCEPT !.held = held]
        \/ r.kind = "dos_title" /\ seen = [r EXCEPT !.sound = "chosen"]
        \/ r.kind = "dos_title" /\ seen = [r EXCEPT !.title = "handed_off"]
        \/ /\ r.kind = "dos_title"
           /\ seen = [r EXCEPT !.sound = "chosen", !.driver = "awaiting_stack",
                               !.kind = "dos_sound_driver_boundary"]
        \/ /\ r.kind = "dos_title"
           /\ seen = [r EXCEPT !.title = "handed_off", !.kind = "dos_title_handoff_boundary"]
    BY DEF CoordinatorObserve, ChooseSound, PollTitleConsole
  <1> HIDE DEF seen
  <1>3. /\ seen \in RuntimeType /\ seen.active = r.active /\ seen.sound \in {r.sound, "chosen"}
        /\ seen.kind = r.kind \/ r.kind = "dos_title"
    <2>1. ASSUME NEW held \in BOOLEAN, seen = [r EXCEPT !.held = held]
          PROVE  /\ seen \in RuntimeType /\ seen.active = r.active
                 /\ seen.sound = r.sound /\ seen.kind = r.kind
      BY <1>1, <2>1 DEF RuntimeType
    <2>2. CASE seen = [r EXCEPT !.sound = "chosen", !.driver = "awaiting_stack",
                                !.kind = "dos_sound_driver_boundary"]
               /\ r.kind = "dos_title"
      BY <1>1, <2>2 DEF RuntimeType, SessionKinds
    <2>3. CASE seen = [r EXCEPT !.title = "handed_off", !.kind = "dos_title_handoff_boundary"]
               /\ r.kind = "dos_title"
      BY <1>1, <2>3 DEF RuntimeType, SessionKinds
    <2>4. CASE seen = [r EXCEPT !.sound = "chosen"] /\ r.kind = "dos_title"
      BY <1>1, <2>4 DEF RuntimeType
    <2>5. CASE seen = [r EXCEPT !.title = "handed_off"] /\ r.kind = "dos_title"
      BY <1>1, <2>5 DEF RuntimeType
    <2>6. CASE seen = r
      BY <1>1, <2>6
    <2> QED BY <1>2, <2>1, <2>2, <2>3, <2>4, <2>5, <2>6
  <1>3a. MovesForward(r, seen)
    BY <1>3, StageRank DEF MovesForward, AmigaKinds
  <1>4. \/ ControllerObserve(r, obs, succeeds).runtime = r
        \/ ControllerObserve(r, obs, succeeds).runtime = SynchronizeAfterRuntimeChange(seen)
    BY DEF ControllerObserve, seen
  <1> QED BY <1>3, <1>3a, <1>4, PublishesForward, StaysForward

LEMMA SuppressForward ==
  ASSUME NEW r, RuntimeInv(r), NEW suppressed \in BOOLEAN
  PROVE  MovesForward(r, SetInputSuppressed(r, suppressed))
  <1> DEFINE quiet == IF suppressed THEN ControllerObserve(r, "released", TRUE).runtime ELSE r
  <1>1. quiet \in RuntimeType /\ MovesForward(r, quiet)
    BY ControllerObserveInv, ObserveForward, StaysForward DEF Observations, RuntimeInv
  <1>2. \/ SetInputSuppressed(r, suppressed) = r
        \/ SetInputSuppressed(r, suppressed) = [quiet EXCEPT !.suppressed = suppressed]
    BY DEF SetInputSuppressed
  <1> HIDE DEF quiet
  <1>3. MovesForward(r, [quiet EXCEPT !.suppressed = suppressed])
    BY <1>1 DEF RuntimeType, MovesForward
  <1> QED BY <1>2, <1>3, StaysForward

(* A tick hands the opening over to the title, and nothing back.           *)
LEMMA AdvanceForward ==
  ASSUME NEW r, RuntimeInv(r), NEW outcome \in TickOutcomes
  PROVE  MovesForward(r, HostAdvance(r, outcome))
  <1> DEFINE ticked == CoordinatorTick(r, outcome)
             next   == SynchronizeAfterRuntimeChange(ticked)
             runner == HostAdvance(r, outcome).runner
  <1>1. r \in RuntimeType
    BY DEF RuntimeInv
  <1>2. r.state = "amiga_opening" => r.kind = "amiga_opening"
    BY DEF RuntimeInv, StateFollowsSession, NativeSessionStateFor, Revoking
  <1>3. \/ ticked = r
        \/ ticked = [r EXCEPT !.opening = "handed_off", !.kind = "amiga_title_program_entry",
                              !.held = FALSE]
        \/ ticked = [r EXCEPT !.opening = "handed_off"]
        \/ ticked = [r EXCEPT !.opening = "accepted"]
    BY DEF CoordinatorTick
  <1>4. \/ HostAdvance(r, outcome) = r
        \/ HostAdvance(r, outcome) = [r EXCEPT !.runner = "running"]
        \/ /\ r.state = "amiga_opening"
           /\ \E runs \in {"stopped", next.runner} :
                HostAdvance(r, outcome) = [next EXCEPT !.runner = runs]
    BY DEF HostAdvance, AdvanceScheduler
  <1>5. ASSUME r.state = "amiga_opening" PROVE ticked \in RuntimeType /\ MovesForward(r, ticked)
    <2> HIDE DEF ticked
    <2>1. /\ ticked \in RuntimeType /\ ticked.active = r.active /\ ticked.sound = r.sound
          /\ ticked.kind \in {r.kind, "amiga_title_program_entry"}
      BY <1>1, <1>3 DEF RuntimeType, SessionKinds
    <2> QED BY <1>2, <1>5, <2>1, StageRank DEF MovesForward
  <1>6. ASSUME r.state = "amiga_opening" PROVE next \in RuntimeType /\ MovesForward(r, next)
    <2> HIDE DEF ticked
    <2>1. MovesForward(r, next)
      BY <1>5, <1>6, PublishesForward
    <2>2. next \in RuntimeType
      <3>1. NativeSessionStateFor(ticked) \in States
        BY <1>5, <1>6 DEF NativeSessionStateFor, RuntimeType, States, SessionKinds, NoSession
      <3> QED BY <1>5, <1>6, <3>1 DEF SynchronizeAfterRuntimeChange, RuntimeType
    <2> QED BY <2>1, <2>2
  <1> HIDE DEF next
  <1>7. ASSUME NEW runs, r.state = "amiga_opening"
        PROVE  MovesForward(r, [next EXCEPT !.runner = runs])
    BY <1>6, <1>7 DEF RuntimeType, MovesForward
  <1>8. MovesForward(r, [r EXCEPT !.runner = "running"]) /\ MovesForward(r, r)
    BY <1>1, StaysForward DEF RuntimeType
  <1> QED BY <1>4, <1>7, <1>8

LEMMA DriveForward ==
  ASSUME NEW r, RuntimeInv(r)
  PROVE  MovesForward(r, HostDrive(r)) /\ MovesForward(r, HostObserveStack(r))
  <1> DEFINE driven == CoordinatorDrive(r)
             seen   == CoordinatorObserveStack(r)
  <1>1. r \in RuntimeType
    BY DEF RuntimeInv
  <1>2. \/ driven = r
        \/ /\ r.kind = "dos_sound_driver_boundary"
           /\ driven = [r EXCEPT !.driver = "done", !.title = "waiting", !.kind = "dos_title"]
        \/ /\ r.kind = "amiga_title_program_entry"
           /\ driven = [r EXCEPT !.kind = "amiga_title_stage"]
    BY DEF CoordinatorDrive
  <1>3. seen = r \/ seen = [r EXCEPT !.driver = "title_exec_boundary"]
    BY DEF CoordinatorObserveStack
  <1>4. /\ HostDrive(r) = r \/ HostDrive(r) = SynchronizeAfterRuntimeChange(driven)
        /\ \/ HostObserveStack(r) = r
           \/ HostObserveStack(r) = SynchronizeAfterRuntimeChange(seen)
    BY DEF HostDrive, DriveActive, HostObserveStack, ObserveStack
  <1> HIDE DEF driven, seen
  <1>5. driven \in RuntimeType /\ MovesForward(r, driven)
    <2>1. /\ driven \in RuntimeType /\ driven.active = r.active /\ driven.sound = r.sound
          /\ \/ driven.kind = r.kind
             \/ r.kind = "dos_sound_driver_boundary" /\ driven.kind = "dos_title"
             \/ r.kind = "amiga_title_program_entry" /\ driven.kind = "amiga_title_stage"
      BY <1>1, <1>2 DEF RuntimeType, SessionKinds
    <2> QED BY <2>1, StageRank DEF MovesForward, AmigaKinds
  <1>6. seen \in RuntimeType /\ MovesForward(r, seen)
    BY <1>1, <1>3, StageRank DEF RuntimeType, MovesForward, SessionKinds, AmigaKinds
  <1> QED BY <1>4, <1>5, <1>6, PublishesForward, StaysForward

(* A launch starts another session or none: its serial is a new one.       *)
LEMMA LaunchIsFresh ==
  ASSUME NEW r, RuntimeInv(r), NEW rel \in Release \cup {NoRelease},
         NEW outcome \in AcquireOutcomes, r.serial # 0,
         Launch(r, rel, outcome).serial = r.serial
  PROVE  Launch(r, rel, outcome) = r
  <1> DEFINE quiet    == [r EXCEPT !.runner = "none"]
             admitted == AdmitRuntimeLaunch(quiet, rel, outcome)
  <1>1. r \in RuntimeType /\ r.serial = r.counter
    BY DEF RuntimeInv, OwnedByOneRelease, EmptyCoordinator
  <1>2. r.counter \in Nat /\ quiet \in RuntimeType /\ quiet.counter = r.counter
    BY <1>1, MaxSerialAssumption DEF RuntimeType
  <1>3. admitted.serial = 0 \/ admitted.serial = r.counter + 1
    <2> HIDE DEF quiet
    <2> DEFINE clean == ResetCoordinator(quiet)
    <2>1. clean.serial = 0 /\ clean \in RuntimeType /\ clean.counter = r.counter
      BY <1>2, ResetCoordinatorEmpties DEF EmptyCoordinator
    <2>2. \/ admitted = clean
          \/ admitted = [clean EXCEPT !.admission = "archive_rejected"]
          \/ admitted = [clean EXCEPT !.admission = "adapter_rejected"]
          \/ admitted.serial = quiet.counter + 1
      <3>1. CASE rel = NoRelease \/ outcome = "archive" \/ Refuses(quiet, rel, outcome)
        BY <3>1 DEF AdmitRuntimeLaunch, Acquire
      <3>2. CASE rel # NoRelease /\ outcome # "archive" /\ ~Refuses(quiet, rel, outcome)
        <4> HIDE DEF clean
        <4>1. admitted = [clean EXCEPT !.active = rel, !.admission = "active",
                            !.kind = InitialKind(rel),
                            !.counter = @ + 1, !.serial = quiet.counter + 1,
                            !.sound = IF AdapterOf[rel] = "millennium_dos" THEN "awaiting" ELSE "absent",
                            !.opening = IF AdapterOf[rel] = "deuteros_amiga" THEN "running" ELSE "absent"]
          BY <3>2 DEF AdmitRuntimeLaunch, Acquire, clean
        <4> QED BY <2>1, <4>1 DEF RuntimeType
      <3> QED BY <3>1, <3>2
    <2> HIDE DEF clean, admitted
    <2>3. [clean EXCEPT !.admission = "archive_rejected"].serial = 0
          /\ [clean EXCEPT !.admission = "adapter_rejected"].serial = 0
      BY <2>1 DEF RuntimeType
    <2> QED BY <1>2, <2>1, <2>2, <2>3
  <1>4. \/ Launch(r, rel, outcome) = r
        \/ Launch(r, rel, outcome).serial = admitted.serial
    BY DEF Launch, SynchronizeAfterRuntimeChange
  <1> HIDE DEF admitted
  <1> QED BY <1>1, <1>2, <1>3, <1>4

(* Within one session the published stages only move forward, a choice     *)
(* stays chosen and a hand-off stays handed off, whatever order the caller *)
(* mixes inputs, ticks, drives and revocations in.                         *)
THEOREM ForwardOnlyHolds == Spec => ForwardOnly
  <1>1. ASSUME HostInv, [Next]_vars, runtime.serial # 0, runtime'.serial = runtime.serial
        PROVE  MovesForward(runtime, runtime')
    <2>1. RuntimeInv(runtime)
      BY <1>1 DEF HostInv
    <2>2. CASE LaunchCandidate
      BY <1>1, <2>1, <2>2, LaunchIsFresh, StaysForward DEF LaunchCandidate, Update
    <2>3. CASE BeginRevocation
      <3>1. runtime' = runtime \/ runtime' = BeginReturnToMenu([runtime EXCEPT !.generation = @ + 1])
        BY <2>3 DEF BeginRevocation, BeginSourceRevocation, Update
      <3>2. /\ runtime'.active = runtime.active /\ runtime'.kind = runtime.kind
            /\ runtime'.sound = runtime.sound
        BY <2>1, <3>1 DEF BeginReturnToMenu, RuntimeInv, RuntimeType
      <3> QED BY <3>2, StaysForward
    <2>4. CASE FinishRevocation
      <3>1. runtime' = FinishSourceRevocation(runtime)
        BY <2>4 DEF FinishRevocation, Update
      <3>2. CASE Revoking(runtime)
        <4>1. runtime'.serial = 0
          BY <2>1, <3>1, <3>2 DEF FinishSourceRevocation, FinishReturnToMenu, ResetCoordinator,
             Revoking, RuntimeInv, RuntimeType
        <4> QED BY <1>1, <4>1
      <3>3. CASE ~Revoking(runtime)
        BY <3>1, <3>3, StaysForward DEF FinishSourceRevocation
      <3> QED BY <3>2, <3>3
    <2>5. CASE Suppress
      BY <2>1, <2>5, SuppressForward DEF Suppress, Update
    <2>6. CASE ObserveInput
      BY <2>1, <2>6, ObserveForward, StaysForward DEF ObserveInput, Update, HostObserve
    <2>7. CASE Advance
      BY <2>1, <2>7, AdvanceForward DEF Advance, Update
    <2>8. CASE DriveSession \/ ObserveParentStack
      BY <2>1, <2>8, DriveForward DEF DriveSession, ObserveParentStack, Update
    <2>9. CASE UNCHANGED vars
      BY <2>9, StaysForward DEF vars
    <2> QED BY <1>1, <2>2, <2>3, <2>4, <2>5, <2>6, <2>7, <2>8, <2>9 DEF Next
  <1> QED BY <1>1, HostInvariant, PTL DEF Spec, ForwardOnly, MovesForward
=============================================================================

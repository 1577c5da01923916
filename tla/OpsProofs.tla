------------------------------- MODULE OpsProofs -------------------------------
(***************************************************************************)
(* What the operations of the runtime and of the launcher's cards keep.    *)
(* The lemmas are about the operations as functions, so the host and the   *)
(* cards on their own and the shell that composes them cite the same ones. *)
(*                                                                         *)
(* Every operation of the runtime preserves RuntimeInv, for every set of   *)
(* releases, every capability table and every size of the counter.  Of the *)
(* launcher's, for any manifest and any releases found: the route stays    *)
(* one that the found releases offer (CardsOK), the focus stays on a card  *)
(* that exists (FocusOK), and a ready Custom is never carried to another   *)
(* identity (KeepsCustom).                                                 *)
(***************************************************************************)
EXTENDS RuntimeOps, LauncherOps, FiniteSetTheorems, TLAPS


(* What the coordinator's operations keep before the controller has caught *)
(* up with the session kind they publish.                                  *)
Unsynchronized(r) ==
  /\ r \in RuntimeType
  /\ OwnedByOneRelease(r)
  /\ HeldOnlyInOpenGate(r)
  /\ SchedulerHasSession(r)

(* The runtime starts in the menu with nothing admitted.                   *)
LEMMA InitRuntimeInv == RuntimeInv(InitRuntime)
  BY ReleaseAssumption, MaxSerialAssumption
  DEF RuntimeInv, InitRuntime, RuntimeType, OwnedByOneRelease, EmptyCoordinator,
      StateFollowsSession, HeldOnlyInOpenGate, SchedulerHasSession, NativeSessionStateFor,
      Revoking, States, SessionKinds, Admissions, NoSession, NoRelease

(* Synchronizing only moves the state, and outside the teardown it makes it *)
(* the published one.                                                      *)
LEMMA SynchronizeInv ==
  ASSUME NEW r, Unsynchronized(r)
  PROVE  RuntimeInv(SynchronizeAfterRuntimeChange(r))
  BY DEF Unsynchronized, RuntimeInv, SynchronizeAfterRuntimeChange, RuntimeType, OwnedByOneRelease, OwnedBy,
         EmptyCoordinator, StateFollowsSession, HeldOnlyInOpenGate, SchedulerHasSession,
         NativeSessionStateFor, Revoking, States, SessionKinds, Admissions, NoSession,
         NoRelease, DosKinds, AmigaKinds

----------------------------------------------------------------------------
(* Admission *)

(* A reset forgets the release and everything that came from it.           *)
LEMMA ResetCoordinatorEmpties ==
  ASSUME NEW r \in RuntimeType
  PROVE  /\ ResetCoordinator(r) \in RuntimeType
         /\ EmptyCoordinator(ResetCoordinator(r))
         /\ ResetCoordinator(r).admission = "unselected"
         /\ ResetCoordinator(r).runner = r.runner
         /\ ResetCoordinator(r).state = r.state
         /\ ResetCoordinator(r).counter = r.counter
         /\ ResetCoordinator(r).suppressed = r.suppressed
         /\ ResetCoordinator(r).generation = r.generation
  <1>1. 0 \in 0..MaxSerial
    BY MaxSerialAssumption
  <1> QED BY <1>1 DEF ResetCoordinator, RuntimeType, EmptyCoordinator, Admissions, NoSession,
                      NoRelease

(* The kind a fresh session starts in is one its adapter owns.             *)
LEMMA InitialKindOwned ==
  ASSUME NEW rel \in Release, AdapterOf[rel] # "preservation_only"
  PROVE  /\ InitialKind(rel) \in SessionKinds
         /\ (InitialKind(rel) \in DosKinds) <=> (AdapterOf[rel] = "millennium_dos")
         /\ (InitialKind(rel) \in AmigaKinds) <=> (AdapterOf[rel] = "deuteros_amiga")
         /\ (InitialKind(rel) = "bootstrap") <=> (AdapterOf[rel] = "bootstrap_only")
  <1>1. AdapterOf[rel] \in {"millennium_dos", "deuteros_amiga", "bootstrap_only"}
    BY AdapterAssumption DEF Adapters
  <1> QED BY <1>1 DEF InitialKind, SessionKinds, DosKinds, AmigaKinds

(* Acquiring never mixes two releases: it either admits the named one into *)
(* an emptied coordinator or leaves the coordinator empty.                 *)
LEMMA AcquireUnsynchronized ==
  ASSUME NEW r \in RuntimeType, r.runner = "none",
         NEW rel \in Release, NEW outcome \in AcquireOutcomes
  PROVE  /\ Unsynchronized(Acquire(r, rel, outcome))
         /\ Acquire(r, rel, outcome).runner = "none"
  <1> DEFINE clean == ResetCoordinator(r)
  <1>1. /\ clean \in RuntimeType /\ EmptyCoordinator(clean)
        /\ clean.runner = "none" /\ clean.counter = r.counter
    BY ResetCoordinatorEmpties
  <1> HIDE DEF clean
  <1>2. \A why \in {"archive_rejected", "adapter_rejected"} :
          /\ Unsynchronized([clean EXCEPT !.admission = why])
          /\ [clean EXCEPT !.admission = why].runner = "none"
    BY <1>1 DEF Unsynchronized, RuntimeType, OwnedByOneRelease, EmptyCoordinator, Admissions,
                HeldOnlyInOpenGate, SchedulerHasSession
  <1>3. CASE outcome = "archive"
    BY <1>2, <1>3 DEF Acquire, clean
  <1>4. CASE outcome # "archive" /\ Refuses(r, rel, outcome)
    BY <1>2, <1>4 DEF Acquire, clean
  <1>5. CASE outcome # "archive" /\ ~Refuses(r, rel, outcome)
    <2> DEFINE sound   == IF AdapterOf[rel] = "millennium_dos" THEN "awaiting" ELSE "absent"
               opening == IF AdapterOf[rel] = "deuteros_amiga" THEN "running" ELSE "absent"
               admitted ==
                 [clean EXCEPT !.active = rel, !.admission = "active",
                               !.kind = InitialKind(rel), !.counter = @ + 1,
                               !.serial = r.counter + 1, !.sound = sound,
                               !.opening = opening]
    <2>1. Acquire(r, rel, outcome) = admitted
      BY <1>5 DEF Acquire, clean
    <2>2. r.counter + 1 \in 0..MaxSerial /\ clean.counter + 1 = r.counter + 1
      BY <1>1, <1>5, MaxSerialAssumption DEF RuntimeType, Refuses
    <2> AdapterOf[rel] # "preservation_only"
      BY <1>5 DEF Refuses
    <2>3. admitted \in RuntimeType
      <3>1. InitialKind(rel) \in SessionKinds
        BY <1>5, InitialKindOwned
      <3>2. \A k \in SessionKinds :
              [clean EXCEPT !.active = rel, !.admission = "active", !.kind = k]
                \in RuntimeType
        BY <1>1 DEF RuntimeType, Admissions
      <3>3. \A q \in RuntimeType, n, m \in 0..MaxSerial,
               snd \in {"absent", "awaiting", "chosen"},
               opn \in {"absent", "running", "handed_off"} :
              [q EXCEPT !.counter = n, !.serial = m, !.sound = snd, !.opening = opn]
                \in RuntimeType
        BY DEF RuntimeType
      <3>4. sound \in {"absent", "awaiting", "chosen"}
        OBVIOUS
      <3>5. opening \in {"absent", "running", "handed_off"}
        OBVIOUS
      <3> HIDE DEF sound, opening
      <3> QED BY <2>2, <3>1, <3>2, <3>3, <3>4, <3>5
    <2>4. /\ admitted.admission = "active" /\ admitted.active = rel
          /\ admitted.kind = InitialKind(rel) /\ admitted.serial = admitted.counter
          /\ admitted.runner = "none" /\ admitted.held = FALSE
          /\ admitted.driver = "absent" /\ admitted.title = "absent"
          /\ admitted.sound = IF AdapterOf[rel] = "millennium_dos" THEN "awaiting" ELSE "absent"
          /\ admitted.opening = IF AdapterOf[rel] = "deuteros_amiga" THEN "running" ELSE "absent"
      BY <1>1, <2>2 DEF RuntimeType, EmptyCoordinator
    <2> HIDE DEF admitted
    <2>5. OwnedByOneRelease(admitted)
      BY <1>5, <2>4, InitialKindOwned DEF OwnedByOneRelease, OwnedBy
    <2> QED BY <2>1, <2>3, <2>4, <2>5
            DEF Unsynchronized, HeldOnlyInOpenGate, SchedulerHasSession
  <1> QED BY <1>3, <1>4, <1>5

(* A launch over any session, of any candidate, with any outcome.          *)
LEMMA LaunchInv ==
  ASSUME NEW r, RuntimeInv(r), NEW rel \in Release \cup {NoRelease},
         NEW outcome \in AcquireOutcomes
  PROVE  RuntimeInv(Launch(r, rel, outcome))
  <1> DEFINE idle == [r EXCEPT !.runner = "none"]
  <1>1. idle \in RuntimeType /\ idle.runner = "none"
    BY DEF RuntimeInv, RuntimeType
  <1> HIDE DEF idle
  <1>2. CASE Revoking(r)
    BY <1>2 DEF Launch
  <1>3. CASE ~Revoking(r)
    <2>1. Unsynchronized(AdmitRuntimeLaunch(idle, rel, outcome))
      <3>1. CASE rel = NoRelease
        <4>1. AdmitRuntimeLaunch(idle, rel, outcome) = ResetCoordinator(idle)
          BY <3>1 DEF AdmitRuntimeLaunch
        <4> QED BY <1>1, <4>1, ResetCoordinatorEmpties
                DEF Unsynchronized, OwnedByOneRelease, EmptyCoordinator, HeldOnlyInOpenGate,
                    SchedulerHasSession
      <3>2. CASE rel # NoRelease
        BY <1>1, <3>2, AcquireUnsynchronized DEF AdmitRuntimeLaunch
      <3> QED BY <3>1, <3>2
    <2> QED BY <1>3, <2>1, SynchronizeInv DEF Launch, idle
  <1> QED BY <1>2, <1>3

----------------------------------------------------------------------------
(* Host input *)

(* The sound choice and the title's console poll, whether or not the step  *)
(* after the latch succeeds, stay with the admitted DOS release.           *)
LEMMA ChooseSoundUnsynchronized ==
  ASSUME NEW r, RuntimeInv(r), r.kind = "dos_title", NEW succeeds \in BOOLEAN
  PROVE  Unsynchronized(ChooseSound(r, succeeds).runtime)
  <1>1. /\ r \in RuntimeType /\ r.admission = "active" /\ r.active \in Release
        /\ r.serial = r.counter /\ OwnedBy(r, AdapterOf[r.active])
        /\ AdapterOf[r.active] = "millennium_dos"
        /\ r.opening = "absent" /\ r.runner = "none" /\ r.held = FALSE
    BY DEF RuntimeInv, OwnedByOneRelease, EmptyCoordinator, OwnedBy, NoSession, DosKinds,
           AmigaKinds, HeldOnlyInOpenGate, SchedulerHasSession, RuntimeType
  <1>2. CASE r.sound # "awaiting"
    BY <1>2 DEF ChooseSound, RuntimeInv, Unsynchronized
  <1>3. CASE r.sound = "awaiting" /\ succeeds
    <2> DEFINE s == [r EXCEPT !.sound = "chosen", !.driver = "awaiting_stack",
                              !.kind = "dos_sound_driver_boundary"]
    <2>1. ChooseSound(r, succeeds).runtime = s
      BY <1>3 DEF ChooseSound
    <2>2. s \in RuntimeType
      BY <1>1 DEF RuntimeType, SessionKinds
    <2>3. OwnedByOneRelease(s)
      BY <1>1 DEF OwnedByOneRelease, OwnedBy, RuntimeType, DosKinds, AmigaKinds
    <2>4. s.held = FALSE /\ s.runner = "none"
      BY <1>1 DEF RuntimeType
    <2> QED BY <2>1, <2>2, <2>3, <2>4
            DEF Unsynchronized, HeldOnlyInOpenGate, SchedulerHasSession
  <1>4. CASE r.sound = "awaiting" /\ ~succeeds
    <2> DEFINE s == [r EXCEPT !.sound = "chosen"]
    <2>1. ChooseSound(r, succeeds).runtime = s
      BY <1>4 DEF ChooseSound
    <2>2. s \in RuntimeType
      BY <1>1 DEF RuntimeType
    <2>3. OwnedByOneRelease(s)
      BY <1>1 DEF OwnedByOneRelease, OwnedBy, RuntimeType, DosKinds, AmigaKinds
    <2>4. s.held = FALSE /\ s.runner = "none"
      BY <1>1 DEF RuntimeType
    <2> QED BY <2>1, <2>2, <2>3, <2>4
            DEF Unsynchronized, HeldOnlyInOpenGate, SchedulerHasSession
  <1> QED BY <1>2, <1>3, <1>4

LEMMA PollTitleConsoleUnsynchronized ==
  ASSUME NEW r, RuntimeInv(r), r.kind = "dos_title", NEW succeeds \in BOOLEAN
  PROVE  Unsynchronized(PollTitleConsole(r, succeeds).runtime)
  <1>1. /\ r \in RuntimeType /\ r.admission = "active" /\ r.active \in Release
        /\ r.serial = r.counter /\ OwnedBy(r, AdapterOf[r.active])
        /\ AdapterOf[r.active] = "millennium_dos"
        /\ r.opening = "absent" /\ r.runner = "none" /\ r.held = FALSE
    BY DEF RuntimeInv, OwnedByOneRelease, EmptyCoordinator, OwnedBy, NoSession, DosKinds,
           AmigaKinds, HeldOnlyInOpenGate, SchedulerHasSession, RuntimeType
  <1>2. CASE r.title # "waiting"
    BY <1>1, <1>2 DEF PollTitleConsole, RuntimeInv, Unsynchronized, RuntimeType
  <1>3. CASE r.title = "waiting" /\ succeeds
    <2> DEFINE s == [r EXCEPT !.title = "handed_off", !.kind = "dos_title_handoff_boundary"]
    <2>1. PollTitleConsole(r, succeeds).runtime = s
      BY <1>3 DEF PollTitleConsole
    <2>2. s \in RuntimeType
      BY <1>1 DEF RuntimeType, SessionKinds
    <2>3. OwnedByOneRelease(s)
      BY <1>1, <1>3 DEF OwnedByOneRelease, OwnedBy, RuntimeType, DosKinds, AmigaKinds
    <2>4. s.held = FALSE /\ s.runner = "none"
      BY <1>1 DEF RuntimeType
    <2> QED BY <2>1, <2>2, <2>3, <2>4
            DEF Unsynchronized, HeldOnlyInOpenGate, SchedulerHasSession
  <1>4. CASE r.title = "waiting" /\ ~succeeds
    <2> DEFINE s == [r EXCEPT !.title = "handed_off"]
    <2>1. PollTitleConsole(r, succeeds).runtime = s
      BY <1>4 DEF PollTitleConsole
    <2>2. s \in RuntimeType
      BY <1>1 DEF RuntimeType
    <2>3. OwnedByOneRelease(s)
      BY <1>1, <1>4 DEF OwnedByOneRelease, OwnedBy, RuntimeType, DosKinds, AmigaKinds
    <2>4. s.held = FALSE /\ s.runner = "none"
      BY <1>1 DEF RuntimeType
    <2> QED BY <2>1, <2>2, <2>3, <2>4
            DEF Unsynchronized, HeldOnlyInOpenGate, SchedulerHasSession
  <1> QED BY <1>2, <1>3, <1>4

(* An observation is safe once the gate has been asked: a held signal may  *)
(* only reach the coordinator with the gate open.                          *)
LEMMA CoordinatorObserveUnsynchronized ==
  ASSUME NEW r, RuntimeInv(r), NEW obs \in Observations, NEW succeeds \in BOOLEAN,
         obs = "held" => ~r.suppressed
  PROVE  /\ Unsynchronized(CoordinatorObserve(r, obs, succeeds).runtime)
         /\ CoordinatorObserve(r, obs, succeeds).runtime.suppressed = r.suppressed
         /\ obs = "released" => ~CoordinatorObserve(r, obs, succeeds).runtime.held
  <1>1. CASE r.kind = "amiga_opening" /\ obs \in {"held", "released"}
    <2> DEFINE s == [r EXCEPT !.held = (obs = "held")]
    <2>1. CoordinatorObserve(r, obs, succeeds).runtime = s
      BY <1>1 DEF CoordinatorObserve
    <2>2. /\ s \in RuntimeType /\ s.held = (obs = "held") /\ s.suppressed = r.suppressed
          /\ s.kind = r.kind /\ s.runner = r.runner /\ s.state = r.state
      BY DEF RuntimeInv, RuntimeType
    <2>3. OwnedByOneRelease(s)
      BY <1>1 DEF RuntimeInv, RuntimeType, OwnedByOneRelease, OwnedBy, EmptyCoordinator,
                  NoSession
    <2> HIDE DEF s
    <2> QED BY <1>1, <2>1, <2>2, <2>3
            DEF Unsynchronized, HeldOnlyInOpenGate, SchedulerHasSession, RuntimeInv, Revoking
  <1>2. CASE r.kind = "dos_title" /\ obs = "ascii_choice"
    <2>1. CoordinatorObserve(r, obs, succeeds).runtime = ChooseSound(r, succeeds).runtime
      BY <1>2 DEF CoordinatorObserve
    <2>2. ChooseSound(r, succeeds).runtime.suppressed = r.suppressed
      BY DEF ChooseSound, RuntimeInv, RuntimeType
    <2> QED BY <1>2, <2>1, <2>2, ChooseSoundUnsynchronized
  <1>3. CASE r.kind = "dos_title" /\ obs = "character_available"
    <2>1. CoordinatorObserve(r, obs, succeeds).runtime = PollTitleConsole(r, succeeds).runtime
      BY <1>3 DEF CoordinatorObserve
    <2>2. PollTitleConsole(r, succeeds).runtime.suppressed = r.suppressed
      BY DEF PollTitleConsole, RuntimeInv, RuntimeType
    <2> QED BY <1>3, <2>1, <2>2, PollTitleConsoleUnsynchronized
  <1>4. CASE /\ ~(r.kind = "amiga_opening" /\ obs \in {"held", "released"})
             /\ ~(r.kind = "dos_title" /\ obs = "ascii_choice")
             /\ ~(r.kind = "dos_title" /\ obs = "character_available")
    <2>1. CoordinatorObserve(r, obs, succeeds).runtime = r
      BY <1>4 DEF CoordinatorObserve
    <2>2. obs = "released" => ~r.held
      BY <1>4 DEF RuntimeInv, HeldOnlyInOpenGate
    <2> QED BY <2>1, <2>2 DEF RuntimeInv, Unsynchronized
  <1> QED BY <1>1, <1>2, <1>3, <1>4

(* The controller's input entry: rejected in the teardown, else observed   *)
(* and published.                                                          *)
LEMMA ControllerObserveInv ==
  ASSUME NEW r, RuntimeInv(r), NEW obs \in Observations, NEW succeeds \in BOOLEAN,
         obs = "held" => ~r.suppressed
  PROVE  RuntimeInv(ControllerObserve(r, obs, succeeds).runtime)
  <1>1. CASE Revoking(r)
    BY <1>1 DEF ControllerObserve
  <1>2. CASE ~Revoking(r)
    BY <1>2, CoordinatorObserveUnsynchronized, SynchronizeInv DEF ControllerObserve
  <1> QED BY <1>1, <1>2

LEMMA HostObserveInv ==
  ASSUME NEW r, RuntimeInv(r), NEW obs \in Observations, NEW succeeds \in BOOLEAN
  PROVE  RuntimeInv(HostObserve(r, obs, succeeds).runtime)
  BY ControllerObserveInv DEF HostObserve

(* Closing the gate cancels the hold before the gate would reject the      *)
(* cancellation; opening it changes nothing else.                          *)
LEMMA SetInputSuppressedInv ==
  ASSUME NEW r, RuntimeInv(r), NEW suppressed \in BOOLEAN
  PROVE  RuntimeInv(SetInputSuppressed(r, suppressed))
  <1> DEFINE quiet == IF suppressed THEN ControllerObserve(r, "released", TRUE).runtime ELSE r
  <1>1. RuntimeInv(quiet)
    BY ControllerObserveInv DEF Observations
  <1>2. suppressed => ~quiet.held \/ Revoking(quiet)
    <2>1. CASE Revoking(r)
      BY <2>1 DEF ControllerObserve
    <2>2. CASE ~Revoking(r)
      <3> DEFINE seen == CoordinatorObserve(r, "released", TRUE).runtime
      <3>1. Unsynchronized(seen) /\ ~seen.held
        BY CoordinatorObserveUnsynchronized DEF Observations
      <3>2. ControllerObserve(r, "released", TRUE).runtime = SynchronizeAfterRuntimeChange(seen)
        BY <2>2 DEF ControllerObserve
      <3> HIDE DEF seen
      <3>3. ~SynchronizeAfterRuntimeChange(seen).held
        BY <3>1 DEF SynchronizeAfterRuntimeChange, Unsynchronized, RuntimeType
      <3> QED BY <3>2, <3>3
    <2> QED BY <2>1, <2>2
  <1> HIDE DEF quiet
  <1>3. RuntimeInv([quiet EXCEPT !.suppressed = suppressed])
    <2> DEFINE q == [quiet EXCEPT !.suppressed = suppressed]
    <2>1. /\ q \in RuntimeType /\ q.suppressed = suppressed /\ q.held = quiet.held
          /\ q.kind = quiet.kind /\ q.state = quiet.state /\ q.runner = quiet.runner
          /\ q.admission = quiet.admission /\ q.active = quiet.active
          /\ q.serial = quiet.serial /\ q.counter = quiet.counter
          /\ q.sound = quiet.sound /\ q.driver = quiet.driver
          /\ q.title = quiet.title /\ q.opening = quiet.opening
      BY <1>1 DEF RuntimeInv, RuntimeType
    <2> HIDE DEF q
    <2>2. OwnedByOneRelease(q) /\ SchedulerHasSession(q) /\ StateFollowsSession(q)
      BY <1>1, <2>1 DEF RuntimeInv, OwnedByOneRelease, OwnedBy, EmptyCoordinator,
                        SchedulerHasSession, StateFollowsSession, NativeSessionStateFor, Revoking
    <2>3. HeldOnlyInOpenGate(q)
      BY <1>1, <1>2, <2>1 DEF RuntimeInv, HeldOnlyInOpenGate, Revoking
    <2> QED BY <2>1, <2>2, <2>3 DEF RuntimeInv, q
  <1> QED BY <1>3 DEF SetInputSuppressed, quiet

----------------------------------------------------------------------------
(* The opening's scheduler and the deterministic drivers *)

LEMMA CoordinatorTickUnsynchronized ==
  ASSUME NEW r, RuntimeInv(r), r.kind \in AmigaKinds, NEW outcome \in TickOutcomes
  PROVE  /\ Unsynchronized(CoordinatorTick(r, outcome))
         /\ CoordinatorTick(r, outcome).runner = r.runner
         /\ CoordinatorTick(r, outcome).kind \in AmigaKinds
         /\ CoordinatorTick(r, outcome).state = r.state
  <1>1. /\ r \in RuntimeType /\ r.admission = "active" /\ r.active \in Release
        /\ r.serial = r.counter /\ OwnedBy(r, AdapterOf[r.active])
        /\ AdapterOf[r.active] = "deuteros_amiga"
        /\ HeldOnlyInOpenGate(r) /\ SchedulerHasSession(r)
    BY DEF RuntimeInv, OwnedByOneRelease, EmptyCoordinator, OwnedBy, NoSession, AmigaKinds
  <1>2. CASE CoordinatorTick(r, outcome) = r
    BY <1>2 DEF RuntimeInv, Unsynchronized
  <1>3. CASE TitleReached(r, outcome) /\ outcome = "handoff"
    <2> DEFINE s == [r EXCEPT !.opening = "handed_off", !.kind = "amiga_title_program_entry",
                              !.held = FALSE]
    <2>1. CoordinatorTick(r, outcome) = s
      BY <1>3 DEF CoordinatorTick
    <2>2. s \in RuntimeType
      BY <1>1 DEF RuntimeType, SessionKinds
    <2>3. OwnedByOneRelease(s)
      BY <1>1 DEF OwnedByOneRelease, OwnedBy, RuntimeType, DosKinds, AmigaKinds
    <2>4. /\ s.held = FALSE /\ s.runner = r.runner /\ s.state = r.state
          /\ s.kind = "amiga_title_program_entry"
      BY <1>1 DEF RuntimeType
    <2> QED BY <1>1, <2>1, <2>2, <2>3, <2>4
            DEF Unsynchronized, HeldOnlyInOpenGate, SchedulerHasSession, AmigaKinds, Revoking
  <1>4. CASE /\ CoordinatorTick(r, outcome) # r
             /\ ~(TitleReached(r, outcome) /\ outcome = "handoff")
    <2> PICK to \in {"accepted", "handed_off"} :
               CoordinatorTick(r, outcome) = [r EXCEPT !.opening = to]
      BY <1>4 DEF CoordinatorTick
    <2> DEFINE s == [r EXCEPT !.opening = to]
    <2>1. CoordinatorTick(r, outcome) = s
      OBVIOUS
    <2>2. /\ s \in RuntimeType /\ s.held = r.held /\ s.runner = r.runner
          /\ s.state = r.state /\ s.kind = r.kind /\ s.suppressed = r.suppressed
      BY <1>1 DEF RuntimeType
    <2>3. OwnedByOneRelease(s)
      BY <1>1 DEF OwnedByOneRelease, OwnedBy, RuntimeType
    <2> QED BY <1>1, <2>1, <2>2, <2>3
            DEF Unsynchronized, HeldOnlyInOpenGate, SchedulerHasSession, Revoking
  <1> QED BY <1>2, <1>3, <1>4

(* Synchronizing never touches the scheduler.                              *)
LEMMA SynchronizeKeeps ==
  ASSUME NEW r \in RuntimeType
  PROVE  /\ SynchronizeAfterRuntimeChange(r).runner = r.runner
         /\ SynchronizeAfterRuntimeChange(r).kind = r.kind
         /\ Revoking(SynchronizeAfterRuntimeChange(r)) <=> Revoking(r)
         /\ SynchronizeAfterRuntimeChange(r).serial = r.serial
  BY DEF SynchronizeAfterRuntimeChange, RuntimeType, Revoking, NativeSessionStateFor, SessionKinds, NoSession,
         Admissions

(* Starting, running or stopping a scheduler beside an Amiga session.      *)
LEMMA SetRunnerInv ==
  ASSUME NEW r, RuntimeInv(r), r.kind \in AmigaKinds, ~Revoking(r),
         NEW runner \in {"none", "running", "stopped"}
  PROVE  RuntimeInv([r EXCEPT !.runner = runner])
  <1> DEFINE q == [r EXCEPT !.runner = runner]
  <1>1. /\ q \in RuntimeType /\ q.suppressed = r.suppressed /\ q.held = r.held
        /\ q.kind = r.kind /\ q.state = r.state
        /\ q.admission = r.admission /\ q.active = r.active
        /\ q.serial = r.serial /\ q.counter = r.counter
        /\ q.sound = r.sound /\ q.driver = r.driver
        /\ q.title = r.title /\ q.opening = r.opening
    BY DEF RuntimeInv, RuntimeType
  <1> HIDE DEF q
  <1>2. OwnedByOneRelease(q) /\ StateFollowsSession(q) /\ HeldOnlyInOpenGate(q)
    BY <1>1 DEF RuntimeInv, OwnedByOneRelease, OwnedBy, EmptyCoordinator, HeldOnlyInOpenGate,
                StateFollowsSession, NativeSessionStateFor, Revoking
  <1>3. SchedulerHasSession(q)
    BY <1>1 DEF SchedulerHasSession, Revoking
  <1> QED BY <1>1, <1>2, <1>3 DEF RuntimeInv, q

(* The published opening is a live Amiga session.                          *)
LEMMA OpeningState ==
  ASSUME NEW r, RuntimeInv(r), r.state = "amiga_opening"
  PROVE  r.kind = "amiga_opening" /\ r.kind \in AmigaKinds /\ ~Revoking(r)
  BY DEF RuntimeInv, StateFollowsSession, NativeSessionStateFor, Revoking, AmigaKinds

LEMMA HostAdvanceInv ==
  ASSUME NEW r, RuntimeInv(r), NEW outcome \in TickOutcomes
  PROVE  RuntimeInv(HostAdvance(r, outcome))
  <1>1. CASE r.state # "amiga_opening"
    BY <1>1 DEF HostAdvance
  <1>2. CASE r.state = "amiga_opening" /\ ~SchedulerActive(r)
    BY <1>2, OpeningState, SetRunnerInv DEF HostAdvance
  <1>3. CASE r.state = "amiga_opening" /\ SchedulerActive(r)
    <2> DEFINE t == CoordinatorTick(r, outcome)
               ticked == SynchronizeAfterRuntimeChange(t)
               stopped == outcome # "not_due" /\ (r.opening = "handed_off"
                                                  \/ TitleReached(r, outcome))
    <2>1. /\ Unsynchronized(t) /\ t.kind \in AmigaKinds /\ t.state = r.state
      BY <1>3, OpeningState, CoordinatorTickUnsynchronized
    <2> HIDE DEF t
    <2>2. /\ RuntimeInv(ticked) /\ ticked.kind \in AmigaKinds /\ ~Revoking(ticked)
      BY <1>3, <2>1, OpeningState, SynchronizeInv, SynchronizeKeeps
      DEF Unsynchronized, Revoking
    <2>3. HostAdvance(r, outcome) =
            [ticked EXCEPT !.runner = IF stopped THEN "stopped" ELSE @]
      BY <1>3 DEF HostAdvance, AdvanceScheduler, t
    <2> HIDE DEF ticked, stopped
    <2>4. ticked.runner \in {"none", "running", "stopped"}
      BY <2>2 DEF RuntimeInv, RuntimeType
    <2>5. /\ RuntimeInv([ticked EXCEPT !.runner = "stopped"])
          /\ RuntimeInv([ticked EXCEPT !.runner = ticked.runner])
      BY <2>2, <2>4, SetRunnerInv
    <2> QED BY <2>3, <2>5
  <1> QED BY <1>1, <1>2, <1>3

(* The drivers move the session along its recovered programs.              *)
LEMMA HostDriveInv ==
  ASSUME NEW r, RuntimeInv(r)
  PROVE  RuntimeInv(HostDrive(r))
  <1> DEFINE d == CoordinatorDrive(r)
  <1>1. Unsynchronized(d)
    <2>1. CASE r.kind = "dos_sound_driver_boundary" /\ r.driver = "title_exec_boundary"
      <3>1. d = [r EXCEPT !.driver = "done", !.title = "waiting", !.kind = "dos_title"]
        BY <2>1 DEF CoordinatorDrive
      <3>2. d \in RuntimeType /\ d.held = FALSE /\ d.runner = "none"
        BY <2>1, <3>1 DEF RuntimeInv, RuntimeType, SessionKinds, HeldOnlyInOpenGate,
                          SchedulerHasSession, AmigaKinds
      <3>3. OwnedByOneRelease(d)
        BY <2>1, <3>1 DEF RuntimeInv, OwnedByOneRelease, OwnedBy, EmptyCoordinator,
                          RuntimeType, DosKinds, AmigaKinds, NoSession
      <3> QED BY <3>2, <3>3 DEF Unsynchronized, HeldOnlyInOpenGate, SchedulerHasSession
    <2>2. CASE r.kind = "amiga_title_program_entry"
      <3>1. d = [r EXCEPT !.kind = "amiga_title_stage"]
        BY <2>2 DEF CoordinatorDrive
      <3>2. /\ d \in RuntimeType /\ d.held = FALSE /\ d.runner = r.runner
            /\ d.state = r.state /\ d.kind = "amiga_title_stage"
        BY <2>2, <3>1 DEF RuntimeInv, RuntimeType, SessionKinds, HeldOnlyInOpenGate
      <3>3. OwnedByOneRelease(d)
        BY <2>2, <3>1 DEF RuntimeInv, OwnedByOneRelease, OwnedBy, EmptyCoordinator,
                          RuntimeType, DosKinds, AmigaKinds, NoSession
      <3> QED BY <3>2, <3>3 DEF RuntimeInv, Unsynchronized, HeldOnlyInOpenGate,
                                SchedulerHasSession, AmigaKinds, Revoking
    <2>3. CASE /\ ~(/\ r.kind = "dos_sound_driver_boundary"
                    /\ r.driver = "title_exec_boundary")
               /\ r.kind # "amiga_title_program_entry"
      BY <2>3 DEF CoordinatorDrive, RuntimeInv, Unsynchronized
    <2> QED BY <2>1, <2>2, <2>3
  <1> HIDE DEF d
  <1>2. RuntimeInv(SynchronizeAfterRuntimeChange(d))
    BY <1>1, SynchronizeInv
  <1> QED BY <1>2 DEF HostDrive, DriveActive, d

(* The parent's stack word advances the loader inside its boundary.        *)
LEMMA HostObserveStackInv ==
  ASSUME NEW r, RuntimeInv(r)
  PROVE  RuntimeInv(HostObserveStack(r))
  <1> DEFINE d == CoordinatorObserveStack(r)
  <1>1. Unsynchronized(d)
    <2>1. CASE r.kind = "dos_sound_driver_boundary" /\ r.driver = "awaiting_stack"
      <3>1. d = [r EXCEPT !.driver = "title_exec_boundary"]
        BY <2>1 DEF CoordinatorObserveStack
      <3>2. d \in RuntimeType /\ d.held = FALSE /\ d.runner = "none"
        BY <2>1, <3>1 DEF RuntimeInv, RuntimeType, SessionKinds, HeldOnlyInOpenGate,
                          SchedulerHasSession, AmigaKinds
      <3>3. OwnedByOneRelease(d)
        BY <2>1, <3>1 DEF RuntimeInv, OwnedByOneRelease, OwnedBy, EmptyCoordinator,
                          RuntimeType, DosKinds, AmigaKinds, NoSession
      <3> QED BY <3>2, <3>3 DEF Unsynchronized, HeldOnlyInOpenGate, SchedulerHasSession
    <2>2. CASE ~(r.kind = "dos_sound_driver_boundary" /\ r.driver = "awaiting_stack")
      BY <2>2 DEF CoordinatorObserveStack, RuntimeInv, Unsynchronized
    <2> QED BY <2>1, <2>2
  <1> HIDE DEF d
  <1>2. RuntimeInv(SynchronizeAfterRuntimeChange(d))
    BY <1>1, SynchronizeInv
  <1> QED BY <1>2 DEF HostObserveStack, ObserveStack, d

----------------------------------------------------------------------------
(* Revocation *)

(* The first half stops what the source drives and changes the generation, *)
(* but leaves the session for whoever still reads it.                      *)
LEMMA BeginSourceRevocationInv ==
  ASSUME NEW r, RuntimeInv(r)
  PROVE  RuntimeInv(BeginSourceRevocation(r))
  <1>1. CASE Revoking(r)
    BY <1>1 DEF BeginSourceRevocation
  <1>2. CASE ~Revoking(r)
    <2> DEFINE q == BeginSourceRevocation(r)
    <2>1. q = [r EXCEPT !.generation = @ + 1, !.runner = "none",
                        !.state = "returning_to_menu"]
      BY <1>2 DEF BeginSourceRevocation, BeginReturnToMenu
    <2>2. r.generation + 1 \in Nat
      BY DEF RuntimeInv, RuntimeType
    <2>3. /\ q \in RuntimeType /\ q.runner = "none" /\ q.state = "returning_to_menu"
          /\ q.kind = r.kind /\ q.held = r.held
          /\ q.admission = r.admission /\ q.active = r.active
          /\ q.serial = r.serial /\ q.counter = r.counter
          /\ q.sound = r.sound /\ q.driver = r.driver
          /\ q.title = r.title /\ q.opening = r.opening
      BY <2>1, <2>2 DEF RuntimeInv, RuntimeType, States
    <2> HIDE DEF q
    <2>4. OwnedByOneRelease(q)
      BY <2>3 DEF RuntimeInv, OwnedByOneRelease, OwnedBy, EmptyCoordinator
    <2>5. StateFollowsSession(q) /\ HeldOnlyInOpenGate(q) /\ SchedulerHasSession(q)
      BY <2>3 DEF RuntimeInv, StateFollowsSession, HeldOnlyInOpenGate, SchedulerHasSession,
                  Revoking
    <2> QED BY <2>3, <2>4, <2>5 DEF RuntimeInv, q
  <1> QED BY <1>1, <1>2

(* The second half opens the gate, forgets the release and shows the menu. *)
LEMMA FinishSourceRevocationInv ==
  ASSUME NEW r, RuntimeInv(r)
  PROVE  RuntimeInv(FinishSourceRevocation(r))
  <1>1. CASE ~Revoking(r)
    BY <1>1 DEF FinishSourceRevocation
  <1>2. CASE Revoking(r)
    <2> DEFINE open == [r EXCEPT !.suppressed = FALSE]
               clean == ResetCoordinator(open)
               q == [clean EXCEPT !.state = "menu"]
    <2>1. open \in RuntimeType /\ Revoking(open) /\ open.runner = "none"
      BY <1>2 DEF RuntimeInv, RuntimeType, Revoking, SchedulerHasSession
    <2> HIDE DEF open
    <2>2. /\ clean \in RuntimeType /\ EmptyCoordinator(clean)
          /\ clean.admission = "unselected" /\ clean.runner = "none"
      BY <2>1, ResetCoordinatorEmpties
    <2> HIDE DEF clean
    <2>3. /\ q \in RuntimeType /\ EmptyCoordinator(q) /\ q.admission = "unselected"
          /\ q.state = "menu" /\ q.runner = "none"
      BY <2>2 DEF RuntimeType, EmptyCoordinator, States
    <2>4. FinishSourceRevocation(r) = q
      BY <1>2, <2>1 DEF FinishSourceRevocation, FinishReturnToMenu, open, clean
    <2> HIDE DEF q
    <2> QED BY <2>3, <2>4
            DEF RuntimeInv, OwnedByOneRelease, EmptyCoordinator, StateFollowsSession,
                NativeSessionStateFor, HeldOnlyInOpenGate, SchedulerHasSession, Revoking
  <1> QED BY <1>1, <1>2

----------------------------------------------------------------------------
(* What an operation other than a launch or a revocation keeps: the        *)
(* admitted release, its serial, the generation and the teardown; and in   *)
(* the teardown everything the outgoing source owns.                       *)
Keeps(r, q) ==
  /\ q.active = r.active /\ q.admission = r.admission
  /\ q.serial = r.serial /\ q.generation = r.generation
  /\ Revoking(q) <=> Revoking(r)
  /\ Revoking(r) => /\ q.kind = r.kind /\ q.held = r.held
                    /\ q.sound = r.sound /\ q.driver = r.driver
                    /\ q.title = r.title /\ q.opening = r.opening

LEMMA SynchronizeAfter ==
  ASSUME NEW r \in RuntimeType, NEW q \in RuntimeType, ~Revoking(r), ~Revoking(q),
         Keeps(r, q)
  PROVE  Keeps(r, SynchronizeAfterRuntimeChange(q))
  BY DEF Keeps, SynchronizeAfterRuntimeChange, Revoking, RuntimeType, NativeSessionStateFor, SessionKinds,
         NoSession, Admissions

LEMMA CoordinatorObserveKeeps ==
  ASSUME NEW r \in RuntimeType, ~Revoking(r), NEW obs, NEW succeeds \in BOOLEAN
  PROVE  LET q == CoordinatorObserve(r, obs, succeeds).runtime
         IN  Keeps(r, q) /\ q.runner = r.runner
  <1>1. LET q == ChooseSound(r, succeeds).runtime IN Keeps(r, q) /\ q.runner = r.runner
    BY DEF ChooseSound, Keeps, RuntimeType, Revoking
  <1>2. LET q == PollTitleConsole(r, succeeds).runtime IN Keeps(r, q) /\ q.runner = r.runner
    BY DEF PollTitleConsole, Keeps, RuntimeType, Revoking
  <1>3. LET q == [r EXCEPT !.held = (obs = "held")] IN Keeps(r, q) /\ q.runner = r.runner
    BY DEF Keeps, RuntimeType, Revoking
  <1>4. Keeps(r, r)
    BY DEF Keeps
  <1>5. \/ CoordinatorObserve(r, obs, succeeds).runtime = [r EXCEPT !.held = (obs = "held")]
        \/ CoordinatorObserve(r, obs, succeeds).runtime = ChooseSound(r, succeeds).runtime
        \/ CoordinatorObserve(r, obs, succeeds).runtime = PollTitleConsole(r, succeeds).runtime
        \/ CoordinatorObserve(r, obs, succeeds).runtime = r
    BY DEF CoordinatorObserve
  <1> QED BY <1>1, <1>2, <1>3, <1>4, <1>5

LEMMA ControllerObserveKeeps ==
  ASSUME NEW r, RuntimeInv(r), NEW obs \in Observations, NEW succeeds \in BOOLEAN,
         obs = "held" => ~r.suppressed
  PROVE  LET q == ControllerObserve(r, obs, succeeds).runtime
         IN  Keeps(r, q) /\ q.runner = r.runner
  <1>1. CASE Revoking(r)
    BY <1>1 DEF ControllerObserve, Keeps
  <1>2. CASE ~Revoking(r)
    <2> DEFINE seen == CoordinatorObserve(r, obs, succeeds).runtime
    <2>1. seen \in RuntimeType
      BY CoordinatorObserveUnsynchronized DEF Unsynchronized
    <2>2. Keeps(r, seen) /\ seen.runner = r.runner
      BY <1>2, CoordinatorObserveKeeps DEF RuntimeInv
    <2>3. ControllerObserve(r, obs, succeeds).runtime = SynchronizeAfterRuntimeChange(seen)
      BY <1>2 DEF ControllerObserve
    <2> HIDE DEF seen
    <2>4. ~Revoking(seen) /\ r \in RuntimeType
      BY <1>2, <2>2 DEF Keeps, RuntimeInv
    <2> QED BY <1>2, <2>1, <2>2, <2>3, <2>4, SynchronizeAfter, SynchronizeKeeps
  <1> QED BY <1>1, <1>2

LEMMA HostObserveKeeps ==
  ASSUME NEW r, RuntimeInv(r), NEW obs \in Observations, NEW succeeds \in BOOLEAN
  PROVE  LET q == HostObserve(r, obs, succeeds).runtime
         IN  Keeps(r, q) /\ q.runner = r.runner
  BY ControllerObserveKeeps DEF HostObserve, Keeps

LEMMA SetInputSuppressedKeeps ==
  ASSUME NEW r, RuntimeInv(r), NEW suppressed \in BOOLEAN
  PROVE  LET q == SetInputSuppressed(r, suppressed)
         IN  Keeps(r, q) /\ q.runner = r.runner
  <1> DEFINE quiet == IF suppressed THEN ControllerObserve(r, "released", TRUE).runtime ELSE r
  <1>1. RuntimeInv(quiet) /\ Keeps(r, quiet) /\ quiet.runner = r.runner
    BY ControllerObserveInv, ControllerObserveKeeps DEF Observations, Keeps
  <1> HIDE DEF quiet
  <1>2. LET q == [quiet EXCEPT !.suppressed = suppressed]
        IN  Keeps(r, q) /\ q.runner = r.runner
    BY <1>1 DEF Keeps, RuntimeInv, RuntimeType, Revoking
  <1> QED BY <1>2 DEF SetInputSuppressed, quiet, Keeps

(* A scheduler call starts or stops the scheduler of this session only.    *)
LEMMA HostAdvanceKeeps ==
  ASSUME NEW r, RuntimeInv(r), NEW outcome \in TickOutcomes
  PROVE  LET q == HostAdvance(r, outcome)
         IN  /\ Keeps(r, q)
             /\ q.runner = r.runner \/ q.runner = "running"
                \/ (r.runner = "running" /\ q.runner = "stopped")
  <1>0. r \in RuntimeType
    BY DEF RuntimeInv
  <1>1. CASE r.state # "amiga_opening"
    BY <1>1 DEF HostAdvance, Keeps
  <1>2. CASE r.state = "amiga_opening" /\ ~SchedulerActive(r)
    BY <1>0, <1>2 DEF HostAdvance, Keeps, RuntimeType, Revoking
  <1>3. CASE r.state = "amiga_opening" /\ SchedulerActive(r)
    <2> DEFINE t == CoordinatorTick(r, outcome)
               ticked == SynchronizeAfterRuntimeChange(t)
               stopped == outcome # "not_due" /\ (r.opening = "handed_off"
                                                  \/ TitleReached(r, outcome))
    <2>1. t \in RuntimeType /\ t.state = r.state /\ t.runner = r.runner
      BY <1>3, OpeningState, CoordinatorTickUnsynchronized DEF Unsynchronized
    <2>2. Keeps(r, t) /\ ~Revoking(r) /\ ~Revoking(t)
      BY <1>0, <1>3 DEF CoordinatorTick, Keeps, RuntimeType, Revoking
    <2>3. HostAdvance(r, outcome) =
            [ticked EXCEPT !.runner = IF stopped THEN "stopped" ELSE @]
      BY <1>3 DEF HostAdvance, AdvanceScheduler
    <2> HIDE DEF t
    <2>4. Keeps(r, ticked) /\ ticked.runner = r.runner /\ r.runner = "running"
      BY <1>0, <1>3, <2>1, <2>2, SynchronizeAfter, SynchronizeKeeps DEF SchedulerActive
    <2>5. ticked \in RuntimeType
      BY <1>3, OpeningState, CoordinatorTickUnsynchronized, SynchronizeInv DEF RuntimeInv, t
    <2> HIDE DEF ticked, stopped
    <2>6. LET q == [ticked EXCEPT !.runner = IF stopped THEN "stopped" ELSE @]
          IN  Keeps(r, q) /\ q.runner \in {"stopped", ticked.runner}
      BY <2>4, <2>5 DEF Keeps, RuntimeType, Revoking
    <2> QED BY <2>3, <2>4, <2>6
  <1> QED BY <1>1, <1>2, <1>3

LEMMA HostDriveKeeps ==
  ASSUME NEW r, RuntimeInv(r)
  PROVE  Keeps(r, HostDrive(r)) /\ HostDrive(r).runner = r.runner
  <1>1. CASE HostDrive(r) = r
    BY <1>1 DEF Keeps
  <1>2. CASE HostDrive(r) # r
    <2> DEFINE d == CoordinatorDrive(r)
    <2>1. HostDrive(r) = SynchronizeAfterRuntimeChange(d) /\ ~Revoking(r) /\ r \in RuntimeType
      BY <1>2 DEF HostDrive, DriveActive, RuntimeInv
    <2> DEFINE titled == [r EXCEPT !.driver = "done", !.title = "waiting",
                                   !.kind = "dos_title"]
               staged == [r EXCEPT !.kind = "amiga_title_stage"]
    <2>2. /\ titled \in RuntimeType /\ ~Revoking(titled)
          /\ Keeps(r, titled) /\ titled.runner = r.runner
      BY <2>1 DEF RuntimeType, SessionKinds, Keeps, Revoking
    <2>3. /\ staged \in RuntimeType /\ ~Revoking(staged)
          /\ Keeps(r, staged) /\ staged.runner = r.runner
      BY <2>1 DEF RuntimeType, SessionKinds, Keeps, Revoking
    <2>4. d \in {titled, staged, r}
      BY DEF CoordinatorDrive
    <2>5. Keeps(r, r)
      BY DEF Keeps
    <2> HIDE DEF titled, staged
    <2>6. d \in RuntimeType /\ ~Revoking(d) /\ Keeps(r, d) /\ d.runner = r.runner
      BY <2>1, <2>2, <2>3, <2>4, <2>5
    <2> HIDE DEF d
    <2> QED BY <2>1, <2>6, SynchronizeAfter, SynchronizeKeeps
  <1> QED BY <1>1, <1>2

LEMMA HostObserveStackKeeps ==
  ASSUME NEW r, RuntimeInv(r)
  PROVE  Keeps(r, HostObserveStack(r)) /\ HostObserveStack(r).runner = r.runner
  <1>1. CASE HostObserveStack(r) = r
    BY <1>1 DEF Keeps
  <1>2. CASE HostObserveStack(r) # r
    <2> DEFINE d == CoordinatorObserveStack(r)
    <2>1. HostObserveStack(r) = SynchronizeAfterRuntimeChange(d) /\ ~Revoking(r) /\ r \in RuntimeType
      BY <1>2 DEF HostObserveStack, ObserveStack, RuntimeInv
    <2>2. d \in RuntimeType /\ ~Revoking(d) /\ Keeps(r, d) /\ d.runner = r.runner
      BY <2>1 DEF CoordinatorObserveStack, RuntimeType, Keeps, Revoking
    <2> HIDE DEF d
    <2> QED BY <2>1, <2>2, SynchronizeAfter, SynchronizeKeeps
  <1> QED BY <1>1, <1>2

-----------------------------------------------------------------------------
(* The launcher's cards.                                                   *)
(* What the route names, the found releases offer.                         *)
RouteOK(l, found) ==
  /\ l \in LauncherType
  /\ l.page \in {"releases", "profiles"} => l.platform # NoPlatform
  /\ l.platform # NoPlatform => Identities(found, l.game, l.platform) # {}
  /\ l.sha # NoRelease => /\ l.sha \in Identities(found, l.game, l.platform)
                          /\ l.language = LanguageOf[l.sha]
                          /\ Launchable(l.sha)
  /\ l.page = "profiles" => ReleaseIsSelected(l)
  /\ l.ready => ~l.pending

(* The game is the one whose card has the focus, on whatever page.         *)
GameShown(l) == l.focus["games"] \in 0..1 /\ GameCards[l.focus["games"] + 1] = l.game

ProfileShown(l) == l.focus["profiles"] < 3

CardsOK(l, found) == RouteOK(l, found) /\ GameShown(l) /\ ProfileShown(l)

InPage(l, found) == CardCount(l, found) > 0 => l.focus[l.page] < CardCount(l, found)

FocusOK(l, found) ==
  /\ InPage(l, found)
  /\ l.page = "games" /\ l.platform # NoPlatform =>
       Supported(l.game)[l.focus["platforms"] + 1] = l.platform

KeepsCustom(l, next) == next.ready => l.ready /\ SourceIdentity(next) = SourceIdentity(l)

(* Neither the scanner nor the back button chooses for the user.           *)
NotSubstituted(l, next) ==
  /\ next.game = l.game
  /\ next.sha \in {l.sha, NoRelease}
  /\ l.platform # NoPlatform => next.platform = l.platform

(* Two routes that differ in their focus only.                             *)
SameRoute(l, next) ==
  /\ next \in LauncherType
  /\ next.page = l.page /\ next.game = l.game /\ next.platform = l.platform
  /\ next.language = l.language /\ next.sha = l.sha /\ next.explicit = l.explicit
  /\ next.presentation = l.presentation /\ next.ready = l.ready /\ next.pending = l.pending

----------------------------------------------------------------------------
(* What the found releases offer *)

LEMMA ReleaseIsNone == NoRelease \notin Release /\ IsFiniteSet(Release)
  BY ReleaseAssumption, ManifestAssumption DEF NoRelease

LEMMA IdentitiesFacts ==
  ASSUME NEW found, found \subseteq Release, NEW game, NEW platform
  PROVE  /\ Identities(found, game, platform) \subseteq Release
         /\ IsFiniteSet(Identities(found, game, platform))
         /\ Cardinality(Identities(found, game, platform)) \in Nat
         /\ Cardinality(Identities(found, game, platform)) = 0
              <=> Identities(found, game, platform) = {}
         /\ platform = NoPlatform => Identities(found, game, platform) = {}
         /\ NoRelease \notin Identities(found, game, platform)
  <1> DEFINE ids == Identities(found, game, platform)
  <1>1. ids \subseteq Release
    BY DEF Identities
  <1>2. IsFiniteSet(ids)
    BY <1>1, ReleaseIsNone, FS_Subset
  <1>3. Cardinality(ids) \in Nat /\ (Cardinality(ids) = 0 <=> ids = {})
    BY <1>2, FS_CardinalityType, FS_EmptySet
  <1>4. platform = NoPlatform => ids = {}
    BY <1>1, IdentityAssumption DEF Identities, NoPlatform, Platforms
  <1> QED BY <1>1, <1>2, <1>3, <1>4, ReleaseIsNone

(* More releases offer what fewer did.                                     *)
LEMMA RouteGrows ==
  ASSUME NEW l, NEW found, NEW more, found \subseteq more, RouteOK(l, found)
  PROVE  RouteOK(l, more)
  BY DEF RouteOK, Identities

LEMMA OnlyOneIn ==
  ASSUME NEW S, IsFiniteSet(S), NoRelease \notin S
  PROVE  /\ OnlyOne(S) \in S \cup {NoRelease}
         /\ OnlyOne(S) # NoRelease => S = {OnlyOne(S)}
  <1>1. CASE Cardinality(S) = 1
    <2>1. PICK r : S = {r}
      BY <1>1, FS_Singleton
    <2>2. OnlyOne(S) = r
      BY <1>1, <2>1 DEF OnlyOne
    <2> QED BY <2>1, <2>2
  <1>2. CASE Cardinality(S) # 1
    BY <1>2 DEF OnlyOne
  <1> QED BY <1>1, <1>2

(* The automatic choice is one that starts, if anything on the card does.  *)
LEMMA SelectShaIn ==
  ASSUME NEW found, found \subseteq Release, NEW game, NEW platform, NEW current,
         current \in Identities(found, game, platform) => Launchable(current)
  PROVE  LET ids == Identities(found, game, platform) IN
         /\ SelectSha(ids, current) \in ids \cup {NoRelease}
         /\ Selectable(found, game, platform) /\ SelectSha(ids, current) # NoRelease
              => Launchable(SelectSha(ids, current))
  <1> DEFINE ids     == Identities(found, game, platform)
             english == {r \in ids : LanguageOf[r] = "en"}
  <1>1. ids \subseteq Release /\ IsFiniteSet(ids) /\ NoRelease \notin ids
    BY IdentitiesFacts
  <1>2. english \subseteq ids /\ IsFiniteSet(english)
    BY <1>1, FS_Subset
  <1>3. OnlyOne(english) \in english \cup {NoRelease}
    BY <1>1, <1>2, OnlyOneIn
  <1>4. OnlyOne(ids) \in ids \cup {NoRelease} /\ (OnlyOne(ids) # NoRelease => ids = {OnlyOne(ids)})
    BY <1>1, OnlyOneIn
  <1>5. SelectSha(ids, current) = IF current \in ids THEN current
                                  ELSE IF OnlyOne(english) # NoRelease THEN OnlyOne(english)
                                  ELSE OnlyOne(ids)
    BY DEF SelectSha
  <1>6. SelectSha(ids, current) \in ids \cup {NoRelease}
    BY <1>2, <1>3, <1>4, <1>5
  <1>7. ASSUME Selectable(found, game, platform), SelectSha(ids, current) # NoRelease
        PROVE  Launchable(SelectSha(ids, current))
    <2>1. PICK s \in ids : Launchable(s)
      BY <1>7 DEF Selectable
    <2>2. CASE current \in ids
      BY <1>5, <2>2
    <2>3. CASE current \notin ids /\ OnlyOne(english) # NoRelease
      <3>1. SelectSha(ids, current) = OnlyOne(english) /\ OnlyOne(english) \in english
        BY <1>3, <1>5, <2>3
      <3> QED BY <1>1, <2>1, <3>1, PreservationAssumption DEF Identities
    <2>4. CASE current \notin ids /\ OnlyOne(english) = NoRelease
      <3>1. ids = {SelectSha(ids, current)}
        BY <1>4, <1>5, <1>7, <2>4
      <3> QED BY <2>1, <3>1
    <2> QED BY <2>2, <2>3, <2>4
  <1> QED BY <1>6, <1>7

(* A request is resolved to a release on its card that starts, or to none; *)
(* an identity that is found and starts resolves to itself.                *)
LEMMA ResolveIn ==
  ASSUME NEW found, found \subseteq Release, NEW game, NEW platform, NEW sha, NEW language
  PROVE  LET it == Resolve(found, game, platform, sha, language) IN
         /\ it # NoRelease => it \in Identities(found, game, platform) /\ Launchable(it)
         /\ it # NoRelease /\ sha # NoRelease => it = sha
         /\ /\ sha \in Identities(found, game, platform) /\ Launchable(sha)
            /\ language \in {NoLanguage, LanguageOf[sha]}
            => it = sha
  <1>1. sha \in Identities(found, game, platform) => sha # NoRelease
    BY IdentitiesFacts
  <1> QED BY <1>1 DEF Resolve

(* A card list has at most three cards.                                    *)
LEMMA FirstAndLast ==
  ASSUME NEW S, S \subseteq 1..3, S # {}
  PROVE  /\ (CHOOSE i \in S : \A j \in S : i <= j) \in S
         /\ (CHOOSE i \in S : \A j \in S : i >= j) \in S
  <1>1. S \subseteq {1, 2, 3}
    OBVIOUS
  <1>2. \E i \in S : \A j \in S : i <= j
    <2>1. CASE 1 \in S
      BY <1>1, <2>1
    <2>2. CASE 1 \notin S /\ 2 \in S
      BY <1>1, <2>2
    <2>3. CASE S = {3}
      BY <2>3
    <2> QED BY <1>1, <2>1, <2>2, <2>3
  <1>3. \E i \in S : \A j \in S : i >= j
    <2>1. CASE 3 \in S
      BY <1>1, <2>1
    <2>2. CASE 3 \notin S /\ 2 \in S
      BY <1>1, <2>2
    <2>3. CASE S = {1}
      BY <2>3
    <2> QED BY <1>1, <2>1, <2>2, <2>3
  <1> QED BY <1>2, <1>3

LEMMA FirstPlatformIn ==
  ASSUME NEW found, NEW game
  PROVE  LET it == FirstPlatform(found, game) IN
         it = NoPlatform \/ (it \in Platforms /\ Identities(found, game, it) # {})
  <1> DEFINE at == {i \in DOMAIN PlatformOrder : Identities(found, game, PlatformOrder[i]) # {}}
             first == CHOOSE i \in at : \A j \in at : i <= j
  <1>1. DOMAIN PlatformOrder = 1..3 /\ \A i \in 1..3 : PlatformOrder[i] \in Platforms
    BY DEF PlatformOrder, Platforms
  <1>2. CASE at = {}
    BY <1>2 DEF FirstPlatform
  <1>3. CASE at # {}
    <2>1. at \subseteq 1..3
      BY <1>1
    <2>2. first \in at
      <3> HIDE DEF at
      <3> QED BY <1>3, <2>1, FirstAndLast
    <2>3. FirstPlatform(found, game) = PlatformOrder[first]
      BY <1>3 DEF FirstPlatform
    <2> QED BY <1>1, <2>2, <2>3
  <1> QED BY <1>2, <1>3

LEMMA SelectPlatformIn ==
  ASSUME NEW found, NEW game, NEW current \in Platforms \cup {NoPlatform}
  PROVE  LET it == SelectPlatform(found, game, current) IN
         /\ it \in Platforms \cup {NoPlatform}
         /\ it # NoPlatform => Identities(found, game, it) # {}
         /\ current # NoPlatform /\ Identities(found, game, current) # {} => it = current
  BY FirstPlatformIn DEF SelectPlatform

(* A platform with releases of a game has a card for them.                 *)
LEMMA SupportedHas ==
  ASSUME NEW found, found \subseteq Release, NEW game \in Games, NEW platform,
         Identities(found, game, platform) # {}
  PROVE  \E i \in DOMAIN Supported(game) : Supported(game)[i] = platform
  <1>1. PICK r \in found : GameOf[r] = game /\ PlatformOf[r] = platform
    BY DEF Identities
  <1>2. platform \in Platforms /\ (game = "deuteros" => platform # "dos")
    BY <1>1, IdentityAssumption, ManifestAssumption
  <1>3. CASE game = "millennium"
    <2>1. /\ DOMAIN Supported(game) = 1..3 /\ Supported(game)[1] = "dos"
          /\ Supported(game)[2] = "amiga" /\ Supported(game)[3] = "atari_st"
      BY <1>3 DEF Supported
    <2> QED BY <1>2, <2>1 DEF Platforms
  <1>4. CASE game = "deuteros"
    <2>1. /\ DOMAIN Supported(game) = 1..2
          /\ Supported(game)[1] = "amiga" /\ Supported(game)[2] = "atari_st"
      BY <1>4 DEF Supported
    <2> QED BY <1>2, <1>4, <2>1 DEF Platforms
  <1> QED BY <1>3, <1>4 DEF Games

LEMMA SupportedFacts ==
  ASSUME NEW game \in Games
  PROVE  /\ Len(Supported(game)) \in {2, 3}
         /\ DOMAIN Supported(game) = 1..Len(Supported(game))
         /\ \A i \in DOMAIN Supported(game) : Supported(game)[i] \in Platforms
  <1>1. CASE game = "millennium"
    BY <1>1 DEF Supported, Platforms
  <1>2. CASE game = "deuteros"
    BY <1>2 DEF Supported, Platforms
  <1> QED BY <1>1, <1>2 DEF Games

LEMMA CountFacts ==
  ASSUME NEW l \in LauncherType, NEW found, found \subseteq Release
  PROVE  /\ CardCount(l, found) \in Nat
         /\ l.page = "games" => CardCount(l, found) = 2
         /\ l.page = "platforms" => CardCount(l, found) = Len(Supported(l.game))
         /\ l.page = "profiles" => CardCount(l, found) = 3
  <1>1. l.page \in Pages /\ l.game \in Games
    BY DEF LauncherType
  <1>2. Cardinality(Identities(found, l.game, l.platform)) \in Nat
    BY IdentitiesFacts
  <1>3. Len(Supported(l.game)) \in Nat /\ Len(GameCards) = 2 /\ Len(ProfileCards) = 3
    BY <1>1, SupportedFacts DEF GameCards, ProfileCards
  <1>4. CASE l.page = "games"
    BY <1>3, <1>4 DEF CardCount
  <1>5. CASE l.page = "platforms"
    BY <1>3, <1>5 DEF CardCount
  <1>6. CASE l.page = "releases"
    BY <1>2, <1>6 DEF CardCount
  <1>7. CASE l.page = "profiles"
    BY <1>3, <1>7 DEF CardCount
  <1> QED BY <1>1, <1>4, <1>5, <1>6, <1>7 DEF Pages

----------------------------------------------------------------------------
(* The focus *)

LEMMA SetFocusKeeps ==
  ASSUME NEW l \in LauncherType, NEW page \in Pages, NEW count \in Nat, NEW index \in Nat
  PROVE  LET next == SetFocus(l, page, count, index) IN
         /\ SameRoute(l, next)
         /\ count = 0 => next = l
         /\ count > 0 => /\ next.focus[page] < count
                         /\ index < count => next.focus[page] = index
         /\ \A other \in Pages : other # page => next.focus[other] = l.focus[other]
  <1>1. l.focus \in [Pages -> Nat]
    BY DEF LauncherType
  <1>2. CASE count = 0
    BY <1>2 DEF SetFocus, SameRoute
  <1>3. CASE count > 0
    <2> DEFINE to   == IF index < count THEN index ELSE count - 1
               next == [l EXCEPT !.focus[page] = to]
    <2>1. SetFocus(l, page, count, index) = next /\ to \in Nat /\ to < count
      BY <1>3 DEF SetFocus
    <2>2. next = [l EXCEPT !.focus = [l.focus EXCEPT ![page] = to]]
      BY DEF LauncherType
    <2>3. [l.focus EXCEPT ![page] = to] \in [Pages -> Nat]
      BY <1>1, <2>1
    <2>4. SameRoute(l, next) /\ next.focus = [l.focus EXCEPT ![page] = to]
      BY <2>2, <2>3 DEF SameRoute, LauncherType
    <2> QED BY <1>1, <1>3, <2>1, <2>4
  <1> QED BY <1>2, <1>3

LEMMA ResetFocusKeeps ==
  ASSUME NEW l \in LauncherType, NEW pages
  PROVE  LET next == ResetFocus(l, pages) IN
         /\ SameRoute(l, next)
         /\ \A page \in Pages : next.focus[page] = IF page \in pages THEN 0 ELSE l.focus[page]
  <1> DEFINE to == [page \in Pages |-> IF page \in pages THEN 0 ELSE l.focus[page]]
  <1>1. to \in [Pages -> Nat]
    BY DEF LauncherType
  <1>2. ResetFocus(l, pages) = [l EXCEPT !.focus = to]
    BY DEF ResetFocus
  <1> QED BY <1>1, <1>2 DEF SameRoute, LauncherType

LEMMA FocusSelectedKeeps ==
  ASSUME NEW l \in LauncherType, NEW found, found \subseteq Release,
         l.platform # NoPlatform => Identities(found, l.game, l.platform) # {}
  PROVE  LET next == FocusSelectedPlatform(l) IN
         /\ SameRoute(l, next)
         /\ \A other \in Pages : other # "platforms" => next.focus[other] = l.focus[other]
         /\ l.platform = NoPlatform => next = l
         /\ l.platform # NoPlatform =>
              /\ next.focus["platforms"] < Len(Supported(l.game))
              /\ Supported(l.game)[next.focus["platforms"] + 1] = l.platform
  <1> DEFINE cards == Supported(l.game)
             at    == {i \in DOMAIN cards : cards[i] = l.platform}
  <1>1. l.game \in Games
    BY DEF LauncherType
  <1>2. /\ Len(cards) \in {2, 3} /\ DOMAIN cards = 1..Len(cards)
        /\ \A i \in DOMAIN cards : cards[i] \in Platforms
    BY <1>1, SupportedFacts
  <1>3. CASE l.platform = NoPlatform
    <2>1. at = {}
      BY <1>2, <1>3 DEF NoPlatform, Platforms
    <2> QED BY <1>3, <2>1 DEF FocusSelectedPlatform, SameRoute
  <1>4. CASE l.platform # NoPlatform
    <2>1. \E i \in DOMAIN cards : cards[i] = l.platform
      BY <1>1, <1>4, SupportedHas
    <2>2. PICK i \in DOMAIN cards : i = (CHOOSE it \in at : TRUE) /\ cards[i] = l.platform
      BY <2>1
    <2>3. FocusSelectedPlatform(l) = SetFocus(l, "platforms", Len(cards), i - 1)
      BY <2>1, <2>2 DEF FocusSelectedPlatform
    <2>4. i - 1 \in Nat /\ i - 1 < Len(cards) /\ (i - 1) + 1 = i /\ Len(cards) \in Nat
      BY <1>2
    <2> HIDE DEF cards
    <2>5. /\ SameRoute(l, FocusSelectedPlatform(l))
          /\ FocusSelectedPlatform(l).focus["platforms"] = i - 1
          /\ \A other \in Pages : other # "platforms" =>
               FocusSelectedPlatform(l).focus[other] = l.focus[other]
      BY <2>3, <2>4, SetFocusKeeps DEF Pages
    <2> QED BY <1>4, <2>2, <2>4, <2>5 DEF cards
  <1> QED BY <1>3, <1>4

(* A change of the focus alone keeps the route and its Custom.             *)
LEMMA SameRouteKeeps ==
  ASSUME NEW l, NEW next, SameRoute(l, next), NEW found
  PROVE  /\ RouteOK(l, found) => RouteOK(next, found)
         /\ KeepsCustom(l, next) /\ NotSubstituted(l, next)
         /\ CardCount(next, found) = CardCount(l, found)
  BY DEF SameRoute, RouteOK, KeepsCustom, NotSubstituted, SourceIdentity, ReleaseIsSelected,
         CardCount


----------------------------------------------------------------------------
(* The route *)

LEMMA InvalidateKeeps ==
  ASSUME NEW l, NEW found, RouteOK(l, found)
  PROVE  LET next == InvalidateCustom(l) IN
         /\ RouteOK(next, found) /\ NotSubstituted(l, next)
         /\ ~next.ready /\ next.focus = l.focus /\ next.page = l.page
         /\ next.platform = l.platform /\ next.language = l.language /\ next.sha = l.sha
         /\ CardCount(next, found) = CardCount(l, found)
  <1> DEFINE next == InvalidateCustom(l)
  <1>1. next = [l EXCEPT !.ready = FALSE, !.pending = FALSE]
    BY DEF InvalidateCustom
  <1>2. l \in LauncherType
    BY DEF RouteOK
  <1>3. /\ next \in LauncherType /\ ~next.ready /\ next.focus = l.focus /\ next.page = l.page
        /\ next.game = l.game /\ next.platform = l.platform /\ next.language = l.language
        /\ next.sha = l.sha
    BY <1>1, <1>2 DEF LauncherType
  <1> HIDE DEF next
  <1>4. RouteOK(next, found) /\ NotSubstituted(l, next)
    BY <1>3 DEF RouteOK, NotSubstituted, ReleaseIsSelected
  <1>5. CardCount(next, found) = CardCount(l, found)
    BY <1>3 DEF CardCount
  <1> QED BY <1>3, <1>4, <1>5 DEF next

(* On the games page a platform is proposed, and what was chosen on        *)
(* another platform or for another game is forgotten.                      *)
LEMMA FocusGameKeeps ==
  ASSUME NEW l, NEW found, found \subseteq Release, NEW game \in Games,
         RouteOK(l, found), l.page = "games"
  PROVE  LET next == FocusGame(l, found, game) IN
         /\ RouteOK(next, found) /\ ~next.ready /\ next.page = "games"
         /\ next.game = game /\ next.focus = l.focus
         /\ game = l.game => NotSubstituted(l, next)
  <1> DEFINE platform == SelectPlatform(found, game, l.platform)
             kept     == IF game # l.game \/ platform # l.platform THEN ForgetRelease(l) ELSE l
             moved    == [kept EXCEPT !.game = game, !.platform = platform]
             next     == FocusGame(l, found, game)
  <1>1. l \in LauncherType
    BY DEF RouteOK
  <1>2. /\ platform \in Platforms \cup {NoPlatform}
        /\ platform # NoPlatform => Identities(found, game, platform) # {}
        /\ l.platform # NoPlatform /\ Identities(found, game, l.platform) # {} =>
             platform = l.platform
    BY <1>1, SelectPlatformIn DEF LauncherType
  <1>3. next = [moved EXCEPT !.ready = FALSE, !.pending = FALSE]
    BY DEF FocusGame, InvalidateCustom
  <1>4. game = l.game /\ l.platform # NoPlatform => platform = l.platform
    BY <1>2 DEF RouteOK
  <1> HIDE DEF platform
  <1>5. /\ kept \in LauncherType /\ kept.page = "games" /\ kept.focus = l.focus
        /\ kept.game = l.game /\ kept.platform = l.platform
        /\ kept.sha = IF game # l.game \/ platform # l.platform THEN NoRelease ELSE l.sha
        /\ game = l.game /\ platform = l.platform => kept = l
    BY <1>1 DEF ForgetRelease, LauncherType
  <1> HIDE DEF kept
  <1>6. /\ next \in LauncherType /\ ~next.ready /\ next.page = "games"
        /\ next.game = game /\ next.platform = platform /\ next.focus = l.focus
        /\ next.sha = kept.sha /\ next.language = kept.language
    BY <1>2, <1>3, <1>5 DEF LauncherType
  <1> HIDE DEF next
  <1>7. RouteOK(next, found)
    BY <1>2, <1>5, <1>6 DEF RouteOK
  <1> QED BY <1>4, <1>5, <1>6, <1>7 DEF NotSubstituted, next

(* Against what is found now, an automatic selection that is no longer the *)
(* only one goes; nothing else of a sound route changes.                   *)
LEMMA ReconcileKeeps ==
  ASSUME NEW l, NEW found, found \subseteq Release, RouteOK(l, found)
  PROVE  LET next == ReconcileReleases(l, found) IN
         /\ RouteOK(next, found) /\ NotSubstituted(l, next) /\ KeepsCustom(l, next)
         /\ next.focus = l.focus /\ next.page \in {l.page, "releases"}
  <1> DEFINE ids  == Identities(found, l.game, l.platform)
             next == ReconcileReleases(l, found)
             gone == /\ ids # {} /\ l.sha # NoRelease
                     /\ l.sha \in ids => ~l.explicit /\ ids # {l.sha}
  <1>1. l \in LauncherType
    BY DEF RouteOK
  <1>2. /\ ~(l.platform # NoPlatform /\ ids = {})
        /\ l.sha \in ids => l.language = LanguageOf[l.sha]
        /\ ids # {} => l.platform # NoPlatform
    BY IdentitiesFacts DEF RouteOK
  <1>3. CASE gone
    <2> DEFINE none == [ForgetRelease(l) EXCEPT !.page = "releases"]
    <2>1. next = InvalidateCustom(none)
      BY <1>2, <1>3 DEF ReconcileReleases
    <2>2. /\ none \in LauncherType /\ none.page = "releases" /\ none.focus = l.focus
          /\ none.game = l.game /\ none.platform = l.platform /\ none.sha = NoRelease
          /\ none.ready = l.ready /\ none.pending = l.pending
      BY <1>1 DEF ForgetRelease, LauncherType, Pages, NoLanguage, NoRelease
    <2> HIDE DEF none
    <2>3. RouteOK(none, found)
      BY <1>2, <1>3, <2>2 DEF RouteOK
    <2>4. RouteOK(next, found) /\ NotSubstituted(none, next) /\ ~next.ready
          /\ next.focus = none.focus /\ next.page = none.page
      BY <2>1, <2>3, InvalidateKeeps
    <2> QED BY <2>2, <2>4 DEF NotSubstituted, KeepsCustom
  <1>4. CASE ~gone
    <2>1. next = l
      BY <1>2, <1>4 DEF ReconcileReleases
    <2> QED BY <2>1 DEF NotSubstituted, KeepsCustom
  <1> QED BY <1>3, <1>4


LEMMA KeepsAreTransitive ==
  ASSUME NEW a, NEW b, NEW c
  PROVE  /\ KeepsCustom(a, b) /\ KeepsCustom(b, c) => KeepsCustom(a, c)
         /\ NotSubstituted(a, b) /\ NotSubstituted(b, c) => NotSubstituted(a, c)
         /\ KeepsCustom(a, a) /\ NotSubstituted(a, a)
  BY DEF KeepsCustom, NotSubstituted

(* The controller against the releases found by now: from any sound route, *)
(* whatever game card has the focus on the games page.                     *)
LEMMA CardsSynchronized ==
  ASSUME NEW l, NEW found, found \subseteq Release, RouteOK(l, found), ProfileShown(l),
         l.page # "games" => GameShown(l)
  PROVE  LET next == Synchronize(l, found) IN
         /\ CardsOK(next, found) /\ FocusOK(next, found)
         /\ KeepsCustom(l, next) /\ next.page \in {l.page, "releases"}
         /\ GameShown(l) => NotSubstituted(l, next)
         /\ l.focus["platforms"] = 0 => next.focus["platforms"] < Len(Supported(next.game))
  <1> DEFINE focused == SetFocus(l, "games", Len(GameCards), l.focus["games"])
             game    == GameCards[focused.focus["games"] + 1]
             routed  == IF focused.page = "games" THEN FocusGame(focused, found, game)
                        ELSE focused
             valid   == ReconcileReleases(routed, found)
             placed  == FocusSelectedPlatform(valid)
             next    == SetFocus(placed, placed.page, CardCount(placed, found),
                                 placed.focus[placed.page])
  <1>1. l \in LauncherType /\ l.focus \in [Pages -> Nat]
    BY DEF RouteOK, LauncherType
  <1>2. Len(GameCards) = 2 /\ GameCards[1] = "millennium" /\ GameCards[2] = "deuteros"
    BY DEF GameCards
  <1>3. /\ SameRoute(l, focused) /\ focused.focus["games"] < 2
        /\ l.focus["games"] < 2 => focused.focus["games"] = l.focus["games"]
        /\ \A other \in Pages : other # "games" => focused.focus[other] = l.focus[other]
    BY <1>1, <1>2, SetFocusKeeps DEF Pages
  <1>4. RouteOK(focused, found) /\ KeepsCustom(l, focused) /\ NotSubstituted(l, focused)
    BY <1>3, SameRouteKeeps
  <1>5. focused.focus \in [Pages -> Nat] /\ focused.page = l.page /\ focused.game = l.game
    BY <1>3 DEF SameRoute, LauncherType
  <1>6. focused.focus["games"] \in 0..1 /\ game \in Games
    BY <1>2, <1>3, <1>5 DEF Games, Pages
  <1>7. GameShown(l) => game = l.game
    BY <1>3 DEF GameShown
  <1>8. ProfileShown(focused)
    BY <1>3 DEF ProfileShown, Pages
  <1> HIDE DEF focused
  <1>9. /\ RouteOK(routed, found) /\ KeepsCustom(focused, routed)
        /\ routed.page = l.page /\ routed.focus = focused.focus /\ routed.game = game
        /\ GameShown(l) => NotSubstituted(focused, routed)
    <2>1. CASE l.page = "games"
      <3>1. routed = FocusGame(focused, found, game)
        BY <1>5, <2>1
      <3>2. /\ RouteOK(routed, found) /\ ~routed.ready /\ routed.page = "games"
            /\ routed.game = game /\ routed.focus = focused.focus
            /\ game = focused.game => NotSubstituted(focused, routed)
        BY <1>4, <1>5, <1>6, <2>1, <3>1, FocusGameKeeps
      <3> QED BY <1>5, <1>7, <2>1, <3>2 DEF KeepsCustom
    <2>2. CASE l.page # "games"
      <3>1. routed = focused /\ game = l.game
        BY <1>5, <1>7, <2>2
      <3> QED BY <1>4, <1>5, <3>1, KeepsAreTransitive
    <2> QED BY <2>1, <2>2
  <1> HIDE DEF routed, game
  <1>10. /\ RouteOK(valid, found) /\ NotSubstituted(routed, valid) /\ KeepsCustom(routed, valid)
         /\ valid.focus = focused.focus /\ valid.page \in {l.page, "releases"}
    BY <1>9, ReconcileKeeps
  <1> HIDE DEF valid
  <1>11. /\ valid \in LauncherType
         /\ valid.platform # NoPlatform => Identities(found, valid.game, valid.platform) # {}
    BY <1>10 DEF RouteOK
  <1>12. /\ SameRoute(valid, placed)
         /\ \A other \in Pages : other # "platforms" => placed.focus[other] = valid.focus[other]
         /\ valid.platform = NoPlatform => placed = valid
         /\ valid.platform # NoPlatform =>
              /\ placed.focus["platforms"] < Len(Supported(valid.game))
              /\ Supported(valid.game)[placed.focus["platforms"] + 1] = valid.platform
    BY <1>11, FocusSelectedKeeps
  <1> HIDE DEF placed
  <1>13. /\ placed \in LauncherType /\ placed.page \in Pages /\ placed.focus \in [Pages -> Nat]
         /\ placed.page = valid.page /\ placed.game = valid.game
         /\ placed.platform = valid.platform
    BY <1>11, <1>12 DEF SameRoute, LauncherType
  <1>14. CardCount(placed, found) \in Nat
    BY <1>13, CountFacts
  <1>15. /\ SameRoute(placed, next)
         /\ CardCount(placed, found) = 0 => next = placed
         /\ CardCount(placed, found) > 0 =>
              /\ next.focus[placed.page] < CardCount(placed, found)
              /\ placed.focus[placed.page] < CardCount(placed, found) =>
                   next.focus[placed.page] = placed.focus[placed.page]
         /\ \A other \in Pages : other # placed.page => next.focus[other] = placed.focus[other]
    BY <1>13, <1>14, SetFocusKeeps
  <1> HIDE DEF next
  <1>16. /\ next \in LauncherType /\ next.focus \in [Pages -> Nat] /\ next.page = placed.page
         /\ next.game = placed.game /\ next.platform = placed.platform
    BY <1>15 DEF SameRoute, LauncherType
  <1>17. /\ RouteOK(placed, found) /\ KeepsCustom(valid, placed) /\ NotSubstituted(valid, placed)
         /\ RouteOK(next, found) /\ KeepsCustom(placed, next) /\ NotSubstituted(placed, next)
         /\ CardCount(next, found) = CardCount(placed, found)
    BY <1>10, <1>12, <1>15, SameRouteKeeps
  <1>18. KeepsCustom(l, next) /\ (GameShown(l) => NotSubstituted(l, next))
    BY <1>4, <1>9, <1>10, <1>17, KeepsAreTransitive
  <1>19. placed.focus["games"] < 2 /\ placed.focus["profiles"] < 3
    BY <1>3, <1>8, <1>10, <1>12 DEF ProfileShown, Pages
  <1>20. next.focus["games"] = placed.focus["games"]
    <2>1. CASE placed.page = "games"
      <3>1. CardCount(placed, found) = 2
        BY <1>13, <2>1, CountFacts
      <3> QED BY <1>15, <1>19, <2>1, <3>1
    <2>2. CASE placed.page # "games"
      BY <1>15, <2>2 DEF Pages
    <2> QED BY <2>1, <2>2
  <1>21. next.focus["profiles"] < 3
    <2>1. CASE placed.page = "profiles"
      <3>1. CardCount(placed, found) = 3
        BY <1>13, <2>1, CountFacts
      <3> QED BY <1>15, <2>1, <3>1
    <2>2. CASE placed.page # "profiles"
      BY <1>15, <1>19, <2>2 DEF Pages
    <2> QED BY <2>1, <2>2
  <1>22. next.game = game
    BY <1>9, <1>10, <1>13, <1>16 DEF NotSubstituted
  <1>23. CardsOK(next, found)
    <2>1. next.focus["games"] = focused.focus["games"]
      BY <1>10, <1>12, <1>20 DEF Pages
    <2>2. GameShown(next)
      BY <1>6, <1>22, <2>1 DEF GameShown, game
    <2> QED BY <1>17, <1>21, <2>2 DEF CardsOK, ProfileShown
  <1>24. FocusOK(next, found)
    <2>1. next.page = "games" /\ next.platform # NoPlatform =>
            Supported(next.game)[next.focus["platforms"] + 1] = next.platform
      BY <1>12, <1>13, <1>15, <1>16 DEF Pages
    <2> QED BY <1>15, <1>16, <1>17, <2>1 DEF FocusOK, InPage
  <1>25. ASSUME l.focus["platforms"] = 0
         PROVE  next.focus["platforms"] < Len(Supported(next.game))
    <2> DEFINE n == Len(Supported(next.game))
    <2>1. n \in {2, 3}
      BY <1>16, SupportedFacts DEF LauncherType
    <2>2. valid.focus["platforms"] = 0
      BY <1>3, <1>10, <1>25 DEF Pages
    <2>3. /\ valid.platform = NoPlatform => placed.focus["platforms"] = 0
          /\ valid.platform # NoPlatform => placed.focus["platforms"] < n
      BY <1>12, <1>13, <1>16, <2>2
    <2>4. placed.page = "platforms" => CardCount(placed, found) = n
      BY <1>13, <1>16, CountFacts
    <2> HIDE DEF n
    <2>5. CASE placed.page = "platforms"
      <3>1. next.focus[placed.page] < n
        BY <1>15, <2>1, <2>4, <2>5
      <3> QED BY <2>5, <3>1 DEF n
    <2>6. CASE placed.page # "platforms"
      <3>1. next.focus["platforms"] = placed.focus["platforms"]
        BY <1>15, <2>6 DEF Pages
      <3>2. next.focus["platforms"] < n
        BY <2>1, <2>3, <3>1
      <3> QED BY <3>2 DEF n
    <2> QED BY <2>5, <2>6
  <1>26. Synchronize(l, found) = next
    BY DEF Synchronize, next, placed, valid, routed, game, focused
  <1>27. next.page \in {l.page, "releases"}
    BY <1>10, <1>13, <1>16
  <1> QED BY <1>18, <1>23, <1>24, <1>25, <1>26, <1>27


----------------------------------------------------------------------------
(* What the event loop adds *)

(* A change of the focus that leaves the game card and fits the page.      *)
LEMMA SameCards ==
  ASSUME NEW l, NEW next, NEW found, CardsOK(l, found), SameRoute(l, next),
         next.focus["games"] = l.focus["games"], next.focus["profiles"] < 3
  PROVE  CardsOK(next, found)
  <1>1. RouteOK(next, found)
    BY SameRouteKeeps DEF CardsOK
  <1>2. GameShown(next)
    BY DEF CardsOK, GameShown, SameRoute
  <1> QED BY <1>1, <1>2 DEF CardsOK, ProfileShown

LEMMA ResetFocusCards ==
  ASSUME NEW l, NEW found, found \subseteq Release, CardsOK(l, found), InPage(l, found),
         NEW pages \in SUBSET (Pages \ {"games"})
  PROVE  LET next == ResetFocus(l, pages) IN
         /\ CardsOK(next, found) /\ InPage(next, found) /\ SameRoute(l, next)
         /\ \A page \in pages : next.focus[page] = 0
  <1> DEFINE next == ResetFocus(l, pages)
  <1>1. l \in LauncherType
    BY DEF CardsOK, RouteOK
  <1>2. /\ SameRoute(l, next)
        /\ \A page \in Pages : next.focus[page] = IF page \in pages THEN 0 ELSE l.focus[page]
    BY <1>1, ResetFocusKeeps
  <1> HIDE DEF next
  <1>3. next.focus["games"] = l.focus["games"] /\ next.focus["profiles"] < 3
    BY <1>2 DEF CardsOK, ProfileShown, Pages
  <1>4. CardsOK(next, found)
    BY <1>2, <1>3, SameCards
  <1>5. InPage(next, found)
    <2>1. CardCount(next, found) = CardCount(l, found) /\ next.page = l.page /\ l.page \in Pages
      BY <1>1, <1>2, SameRouteKeeps DEF SameRoute, LauncherType
    <2>2. CardCount(l, found) \in Nat
      BY <1>1, CountFacts
    <2> QED BY <1>2, <2>1, <2>2 DEF InPage
  <1> QED BY <1>2, <1>4, <1>5 DEF next

LEMMA AfterGameChangeCards ==
  ASSUME NEW l, NEW found, found \subseteq Release, CardsOK(l, found), InPage(l, found)
  PROVE  LET next == AfterGameChange(l) IN
         /\ CardsOK(next, found) /\ InPage(next, found) /\ SameRoute(l, next)
         /\ next.focus["platforms"] = 0
  BY ResetFocusCards DEF AfterGameChange, Pages

LEMMA FocusSelectedCards ==
  ASSUME NEW l, NEW found, found \subseteq Release, CardsOK(l, found), InPage(l, found)
  PROVE  LET next == FocusSelectedPlatform(l) IN
         CardsOK(next, found) /\ FocusOK(next, found) /\ SameRoute(l, next)
  <1> DEFINE next == FocusSelectedPlatform(l)
             n    == Len(Supported(l.game))
  <1>1. l \in LauncherType /\ l.page \in Pages
    BY DEF CardsOK, RouteOK, LauncherType
  <1>2. /\ SameRoute(l, next)
        /\ \A other \in Pages : other # "platforms" => next.focus[other] = l.focus[other]
        /\ l.platform = NoPlatform => next = l
        /\ l.platform # NoPlatform => /\ next.focus["platforms"] < n
                                      /\ Supported(l.game)[next.focus["platforms"] + 1] = l.platform
    BY <1>1, FocusSelectedKeeps DEF CardsOK, RouteOK
  <1> HIDE DEF next
  <1>3. CardsOK(next, found)
    BY <1>2, SameCards DEF CardsOK, ProfileShown, Pages
  <1>4. CardCount(next, found) = CardCount(l, found) /\ next.page = l.page
        /\ next.game = l.game /\ next.platform = l.platform
    BY <1>2, SameRouteKeeps DEF SameRoute
  <1>5. InPage(next, found)
    <2>1. CASE l.page # "platforms" \/ l.platform = NoPlatform
      BY <1>1, <1>2, <1>4, <2>1 DEF InPage
    <2>2. CASE l.page = "platforms" /\ l.platform # NoPlatform
      <3>1. CardCount(l, found) = n
        BY <1>1, <2>2, CountFacts
      <3> QED BY <1>2, <1>4, <2>2, <3>1 DEF InPage
    <2> QED BY <2>1, <2>2
  <1>6. FocusOK(next, found)
    BY <1>2, <1>4, <1>5 DEF FocusOK
  <1> QED BY <1>2, <1>3, <1>6 DEF next

LEMMA OnGamesCards ==
  ASSUME NEW l, NEW found, found \subseteq Release, CardsOK(l, found), InPage(l, found)
  PROVE  LET next == OnGames(l) IN
         CardsOK(next, found) /\ FocusOK(next, found) /\ SameRoute(l, next)
  <1>1. CASE l.page = "games"
    BY <1>1, FocusSelectedCards DEF OnGames
  <1>2. CASE l.page # "games"
    BY <1>2 DEF OnGames, FocusOK, SameRoute, CardsOK, RouteOK
  <1> QED BY <1>1, <1>2

LEMMA FocusMenuCardKeeps ==
  ASSUME NEW l, NEW found, found \subseteq Release, RouteOK(l, found), ProfileShown(l),
         l.page # "games" => GameShown(l)
  PROVE  LET next == FocusMenuCard(l, found) IN
         /\ CardsOK(next, found) /\ FocusOK(next, found)
         /\ KeepsCustom(l, next) /\ (GameShown(l) => NotSubstituted(l, next))
  <1> DEFINE carded == SetFocus(l, "games", Len(GameCards), l.focus["games"])
             synced == Synchronize(carded, found)
             reset  == IF synced.platform = NoPlatform THEN AfterGameChange(synced) ELSE synced
             next   == FocusSelectedPlatform(reset)
  <1>1. l \in LauncherType /\ l.focus \in [Pages -> Nat] /\ Len(GameCards) = 2
    BY DEF RouteOK, LauncherType, GameCards
  <1>2. /\ SameRoute(l, carded) /\ carded.focus["profiles"] = l.focus["profiles"]
        /\ l.focus["games"] < 2 => carded.focus["games"] = l.focus["games"]
    BY <1>1, SetFocusKeeps DEF Pages
  <1> HIDE DEF carded
  <1>3. /\ RouteOK(carded, found) /\ KeepsCustom(l, carded) /\ NotSubstituted(l, carded)
        /\ ProfileShown(carded) /\ carded.page = l.page
        /\ GameShown(l) => GameShown(carded)
    BY <1>2, SameRouteKeeps DEF ProfileShown, GameShown, SameRoute
  <1>4. /\ CardsOK(synced, found) /\ FocusOK(synced, found) /\ KeepsCustom(carded, synced)
        /\ GameShown(carded) => NotSubstituted(carded, synced)
    BY <1>3, CardsSynchronized
  <1> HIDE DEF synced
  <1>5. CardsOK(reset, found) /\ InPage(reset, found) /\ SameRoute(synced, reset)
    BY <1>4, AfterGameChangeCards DEF FocusOK, SameRoute, CardsOK, RouteOK
  <1> HIDE DEF reset
  <1>6. CardsOK(next, found) /\ FocusOK(next, found) /\ SameRoute(reset, next)
    BY <1>5, FocusSelectedCards
  <1> HIDE DEF next
  <1>7. /\ KeepsCustom(synced, reset) /\ NotSubstituted(synced, reset)
        /\ KeepsCustom(reset, next) /\ NotSubstituted(reset, next)
    BY <1>5, <1>6, SameRouteKeeps
  <1>8. KeepsCustom(l, next) /\ (GameShown(l) => NotSubstituted(l, next))
    BY <1>3, <1>4, <1>7, KeepsAreTransitive
  <1>9. FocusMenuCard(l, found) = next
    BY DEF FocusMenuCard, next, reset, synced, carded
  <1> QED BY <1>6, <1>8, <1>9

(* A new data source leaves no release and no Custom.                      *)
LEMMA ReplaceDataKeeps ==
  ASSUME NEW l, NEW found, CardsOK(l, found)
  PROVE  LET next == ReplaceData(l) IN
         /\ CardsOK(next, {}) /\ FocusOK(next, {}) /\ KeepsCustom(l, next)
  <1> DEFINE game   == GameCards[l.focus["games"] + 1]
             at     == CHOOSE i \in DOMAIN GameCards : GameCards[i] = game
             empty  == [ForgetRelease(l) EXCEPT !.page = "games", !.game = game,
                                                !.platform = NoPlatform]
             plain  == ChooseOriginal(empty)
             carded == [plain EXCEPT !.focus["games"] = at - 1]
             reset  == AfterGameChange(carded)
  <1>1. l \in LauncherType /\ l.focus \in [Pages -> Nat] /\ game = l.game /\ l.game \in Games
    BY DEF CardsOK, RouteOK, GameShown, LauncherType
  <1>2. at \in 1..2
    <2>1. DOMAIN GameCards = 1..2 /\ GameCards[1] = "millennium" /\ GameCards[2] = "deuteros"
      BY DEF GameCards
    <2>2. \E i \in DOMAIN GameCards : GameCards[i] = game
      BY <1>1, <2>1 DEF Games
    <2> QED BY <2>1, <2>2
  <1> HIDE DEF at
  <1>3. empty = [l EXCEPT !.language = NoLanguage, !.sha = NoRelease, !.explicit = FALSE,
                          !.page = "games", !.game = game, !.platform = NoPlatform]
    BY DEF ForgetRelease
  <1>4. /\ empty \in LauncherType /\ empty.page = "games" /\ empty.platform = NoPlatform
        /\ empty.sha = NoRelease /\ empty.focus = l.focus
    BY <1>1, <1>3 DEF LauncherType, Pages
  <1> HIDE DEF empty
  <1>5. plain = [empty EXCEPT !.presentation = "original", !.ready = FALSE, !.pending = FALSE]
    BY DEF ChooseOriginal, InvalidateCustom
  <1>6. /\ plain \in LauncherType /\ plain.page = "games" /\ plain.platform = NoPlatform
        /\ plain.sha = NoRelease /\ ~plain.ready /\ plain.focus = l.focus
    BY <1>4, <1>5 DEF LauncherType
  <1> HIDE DEF plain
  <1>7. /\ carded \in LauncherType /\ carded.page = "games" /\ carded.platform = NoPlatform
        /\ carded.sha = NoRelease /\ ~carded.ready
    <2> DEFINE f == [l.focus EXCEPT !["games"] = at - 1]
    <2>3. at - 1 \in Nat /\ l.focus \in [Pages -> Nat]
      BY <1>1, <1>2
    <2>1. f \in [Pages -> Nat]
      BY <2>3
    <2>2. carded = [plain EXCEPT !.focus = f]
      BY <1>6
    <2> HIDE DEF f
    <2> QED BY <1>6, <2>1, <2>2 DEF LauncherType
  <1> HIDE DEF carded
  <1>8. SameRoute(carded, reset) /\ reset.focus["profiles"] = 0
    BY <1>7, ResetFocusKeeps DEF AfterGameChange, Pages
  <1> HIDE DEF reset
  <1>9. RouteOK(reset, {}) /\ ProfileShown(reset) /\ reset.page = "games" /\ ~reset.ready
    BY <1>7, <1>8 DEF RouteOK, ProfileShown, SameRoute
  <1>10. LET next == FocusMenuCard(reset, {}) IN
         CardsOK(next, {}) /\ FocusOK(next, {}) /\ KeepsCustom(reset, next)
    BY <1>9, FocusMenuCardKeeps
  <1>11. ReplaceData(l) = FocusMenuCard(reset, {})
    BY DEF ReplaceData, ResetForData, reset, carded, plain, empty, at
  <1> QED BY <1>9, <1>10, <1>11 DEF KeepsCustom


----------------------------------------------------------------------------
(* Moving over the cards *)

(* The platform focus is moved to a card that exists.                      *)
LEMMA MovePlatformKeeps ==
  ASSUME NEW l, NEW found, found \subseteq Release, CardsOK(l, found), InPage(l, found),
         l.page = "platforms", NEW direction \in {-1, 1}
  PROVE  LET next == MovePlatformFocus(l, found, direction) IN
         CardsOK(next, found) /\ InPage(next, found) /\ SameRoute(l, next)
  <1> DEFINE cards    == Supported(l.game)
             n        == Len(cards)
             current  == IF l.focus["platforms"] < n THEN l.focus["platforms"] ELSE n - 1
             at(step) == (current + n + direction * (step % n)) % n
             hits     == {step \in 1..n : Selectable(found, l.game, cards[at(step) + 1])}
             least    == CHOOSE step \in hits : \A other \in hits : step <= other
  <1>1. l \in LauncherType /\ n \in {2, 3} /\ l.focus["platforms"] \in Nat
    BY SupportedFacts DEF CardsOK, RouteOK, LauncherType, Pages
  <1>2. CASE hits = {}
    BY <1>1, <1>2 DEF MovePlatformFocus, SameRoute, LauncherType
  <1>3. CASE hits # {}
    <2>1. MovePlatformFocus(l, found, direction) = SetFocus(l, "platforms", n, at(least))
      BY <1>3 DEF MovePlatformFocus
    <2>2. hits \subseteq 1..n /\ 1..n \subseteq 1..3
      <3>1. hits \subseteq 1..n
        OBVIOUS
      <3> HIDE DEF hits, n
      <3> QED BY <1>1, <3>1
    <2>3. least \in 1..3
      <3> HIDE DEF hits
      <3> QED BY <1>3, <2>2, FirstAndLast
    <2> HIDE DEF least, hits
    <2>4. at(least) \in Nat
      <3>5. n \in {2, 3}
        BY <1>1
      <3> HIDE DEF n
      <3>1. current \in Nat /\ current < n
        BY <1>1, <3>5
      <3> HIDE DEF current
      <3>2. least % n \in 0..2 /\ n \in Nat \ {0}
        BY <2>3, <3>5
      <3>3. CASE direction = 1
        BY <3>1, <3>2, <3>3
      <3>4. CASE direction = -1
        BY <3>5, <3>1, <3>2, <3>4
      <3> QED BY <3>3, <3>4
    <2> DEFINE to == at(least)
    <2>5. to \in Nat
      BY <2>4
    <2> HIDE DEF at, to
    <2> DEFINE next == SetFocus(l, "platforms", n, to)
    <2>6. /\ SameRoute(l, next) /\ next.focus["platforms"] < n
          /\ \A other \in Pages : other # "platforms" => next.focus[other] = l.focus[other]
      <3> HIDE DEF n
      <3> QED BY <1>1, <2>5, SetFocusKeeps DEF Pages
    <2>7. MovePlatformFocus(l, found, direction) = next
      BY <2>1 DEF to
    <2> HIDE DEF next
    <2>8. CardsOK(next, found)
      BY <2>6, SameCards DEF CardsOK, ProfileShown, Pages
    <2>9. InPage(next, found)
      <3>1. CardCount(next, found) = n /\ next.page = "platforms"
        BY <1>1, <2>6, SameRouteKeeps, CountFacts DEF SameRoute
      <3> QED BY <2>6, <3>1 DEF InPage
    <2> QED BY <2>6, <2>7, <2>8, <2>9
  <1> QED BY <1>2, <1>3

LEMMA EdgePlatformKeeps ==
  ASSUME NEW l, NEW found, found \subseteq Release, CardsOK(l, found), InPage(l, found),
         l.page = "platforms", NEW first \in BOOLEAN
  PROVE  LET next == EdgePlatformFocus(l, found, first) IN
         CardsOK(next, found) /\ InPage(next, found) /\ SameRoute(l, next)
  <1> DEFINE cards == Supported(l.game)
             n     == Len(cards)
             hits  == {i \in DOMAIN cards : Selectable(found, l.game, cards[i])}
             edge  == CHOOSE i \in hits : \A j \in hits : IF first THEN i <= j ELSE i >= j
  <1>1. l \in LauncherType /\ n \in {2, 3} /\ DOMAIN cards = 1..n
    BY SupportedFacts DEF CardsOK, RouteOK, LauncherType
  <1>2. CASE hits = {}
    BY <1>1, <1>2 DEF EdgePlatformFocus, SameRoute, LauncherType
  <1>3. CASE hits # {}
    <2>1. EdgePlatformFocus(l, found, first) = SetFocus(l, "platforms", n, edge - 1)
      BY <1>3 DEF EdgePlatformFocus
    <2>2. hits \subseteq 1..3
      <3>1. hits \subseteq DOMAIN cards
        OBVIOUS
      <3> HIDE DEF hits, n, cards
      <3> QED BY <1>1, <3>1
    <2>3. edge \in 1..3
      <3> HIDE DEF hits
      <3>1. CASE first
        <4>1. edge = CHOOSE i \in hits : \A j \in hits : i <= j
          BY <3>1
        <4> QED BY <1>3, <2>2, <4>1, FirstAndLast
      <3>2. CASE ~first
        <4>1. edge = CHOOSE i \in hits : \A j \in hits : i >= j
          BY <3>2
        <4> QED BY <1>3, <2>2, <4>1, FirstAndLast
      <3> QED BY <3>1, <3>2
    <2> HIDE DEF edge, hits
    <2> DEFINE to   == edge - 1
               next == SetFocus(l, "platforms", n, to)
    <2>4. to \in Nat
      BY <2>3
    <2> HIDE DEF to
    <2>5. /\ SameRoute(l, next) /\ next.focus["platforms"] < n
          /\ \A other \in Pages : other # "platforms" => next.focus[other] = l.focus[other]
      <3>1. n \in Nat /\ n > 0
        BY <1>1
      <3> HIDE DEF n
      <3> QED BY <1>1, <2>4, <3>1, SetFocusKeeps DEF Pages
    <2>6. EdgePlatformFocus(l, found, first) = next
      BY <2>1 DEF to
    <2> HIDE DEF next
    <2>7. CardsOK(next, found)
      BY <2>5, SameCards DEF CardsOK, ProfileShown, Pages
    <2>8. InPage(next, found)
      <3>1. CardCount(next, found) = n /\ next.page = "platforms"
        BY <1>1, <2>5, SameRouteKeeps, CountFacts DEF SameRoute
      <3> QED BY <2>5, <3>1 DEF InPage
    <2> QED BY <2>5, <2>6, <2>7, <2>8
  <1> QED BY <1>2, <1>3


LEMMA AfterFocusKeeps ==
  ASSUME NEW l, NEW moved, NEW found, found \subseteq Release, RouteOK(l, found),
         SameRoute(l, moved), ProfileShown(moved),
         l.page # "games" => CardsOK(moved, found) /\ InPage(moved, found)
  PROVE  LET next == AfterFocus(moved, found, l.page) IN
         CardsOK(next, found) /\ InPage(next, found) /\ KeepsCustom(l, next)
  <1>1. /\ RouteOK(moved, found) /\ KeepsCustom(l, moved) /\ moved.page = l.page
        /\ l.page \in Pages
    BY SameRouteKeeps DEF SameRoute, RouteOK, LauncherType
  <1>2. CASE l.page = "games"
    <2> DEFINE next == Synchronize(moved, found)
    <2>1. CardsOK(next, found) /\ FocusOK(next, found) /\ KeepsCustom(moved, next)
      BY <1>1, <1>2, CardsSynchronized
    <2> HIDE DEF next
    <2>2. AfterFocus(moved, found, l.page) = next
      BY <1>2 DEF AfterFocus, next
    <2> QED BY <1>1, <2>1, <2>2, KeepsAreTransitive DEF FocusOK
  <1>3. CASE l.page = "profiles"
    <2> DEFINE next == InvalidateCustom(moved)
    <2>1. /\ RouteOK(next, found) /\ NotSubstituted(moved, next) /\ ~next.ready
          /\ next.focus = moved.focus /\ next.page = moved.page
          /\ CardCount(next, found) = CardCount(moved, found)
      BY <1>1, InvalidateKeeps
    <2> HIDE DEF next
    <2>2. AfterFocus(moved, found, l.page) = next
      BY <1>3 DEF AfterFocus, next
    <2> QED BY <1>3, <2>1, <2>2 DEF CardsOK, GameShown, ProfileShown, InPage, KeepsCustom,
                                    NotSubstituted
  <1>4. CASE l.page \in {"platforms", "releases"}
    <2>1. AfterFocus(moved, found, l.page) = moved
      BY <1>4 DEF AfterFocus
    <2> QED BY <1>1, <1>4, <2>1
  <1> QED BY <1>1, <1>2, <1>3, <1>4 DEF Pages

(* A focus set within the page, on any page but the games.                 *)
LEMMA SetFocusCards ==
  ASSUME NEW l, NEW found, found \subseteq Release, CardsOK(l, found), NEW index \in Nat
  PROVE  LET next == SetFocus(l, l.page, CardCount(l, found), index) IN
         /\ SameRoute(l, next) /\ ProfileShown(next) /\ InPage(next, found)
         /\ l.page # "games" => CardsOK(next, found)
         /\ InPage(l, found) /\ index = l.focus[l.page] =>
              CardsOK(next, found) /\ next.focus[l.page] = l.focus[l.page]
  <1> DEFINE n    == CardCount(l, found)
             next == SetFocus(l, l.page, n, index)
  <1>1. l \in LauncherType /\ l.page \in Pages /\ n \in Nat /\ (l.page = "profiles" => n = 3)
    BY CountFacts DEF CardsOK, RouteOK, LauncherType
  <1> HIDE DEF n
  <1>2. /\ SameRoute(l, next) /\ (n = 0 => next = l)
        /\ n > 0 => next.focus[l.page] < n /\ (index < n => next.focus[l.page] = index)
        /\ \A other \in Pages : other # l.page => next.focus[other] = l.focus[other]
    BY <1>1, SetFocusKeeps
  <1> HIDE DEF next
  <1>3. ProfileShown(next)
    BY <1>1, <1>2 DEF CardsOK, ProfileShown, Pages
  <1>4. InPage(next, found)
    <2>1. CardCount(next, found) = n /\ next.page = l.page
      BY <1>2, SameRouteKeeps DEF SameRoute, n
    <2> QED BY <1>2, <2>1 DEF InPage
  <1>5. ASSUME l.page # "games" PROVE CardsOK(next, found)
    BY <1>2, <1>3, <1>5, SameCards DEF ProfileShown, Pages
  <1>6. ASSUME InPage(l, found), index = l.focus[l.page]
        PROVE  CardsOK(next, found) /\ next.focus[l.page] = l.focus[l.page]
    <2>1. next.focus[l.page] = l.focus[l.page]
      BY <1>1, <1>2, <1>6 DEF InPage, n
    <2>2. next.focus["games"] = l.focus["games"]
      BY <1>2, <2>1 DEF Pages
    <2> QED BY <1>2, <1>3, <2>1, <2>2, SameCards DEF ProfileShown
  <1> QED BY <1>2, <1>3, <1>4, <1>5, <1>6 DEF next, n

LEMMA MoveKeeps ==
  ASSUME NEW l, NEW found, found \subseteq Release, CardsOK(l, found), InPage(l, found),
         NEW direction \in {-1, 1}
  PROVE  LET next == Move(l, found, direction) IN
         CardsOK(next, found) /\ InPage(next, found) /\ KeepsCustom(l, next)
  <1> DEFINE n     == CardCount(l, found)
             index == IF l.focus[l.page] < n THEN l.focus[l.page] ELSE n - 1
             to    == (index + n + direction) % n
             moved == CASE l.page = "platforms" -> MovePlatformFocus(l, found, direction)
                        [] l.page # "platforms" /\ n = 0 -> l
                        [] OTHER -> SetFocus(l, l.page, n, to)
  <1>1. l \in LauncherType /\ RouteOK(l, found) /\ n \in Nat /\ l.focus[l.page] \in Nat
    BY CountFacts DEF CardsOK, RouteOK, LauncherType
  <1>2. /\ SameRoute(l, moved) /\ ProfileShown(moved)
        /\ l.page # "games" => CardsOK(moved, found) /\ InPage(moved, found)
    <2>1. CASE l.page = "platforms"
      <3>1. moved = MovePlatformFocus(l, found, direction)
        BY <2>1
      <3> HIDE DEF moved
      <3> QED BY <2>1, <3>1, MovePlatformKeeps DEF CardsOK
    <2>2. CASE l.page # "platforms" /\ n = 0
      <3>1. moved = l
        BY <2>2
      <3> QED BY <1>1, <3>1 DEF SameRoute, CardsOK
    <2>3. CASE l.page # "platforms" /\ n # 0
      <3>1. moved = SetFocus(l, l.page, n, to)
        BY <2>3
      <3> HIDE DEF moved
      <3>2. to \in Nat
        <4> HIDE DEF n
        <4>1. index \in Nat
          BY <1>1, <2>3
        <4> QED BY <1>1, <2>3, <4>1
      <3> HIDE DEF to
      <3> QED BY <3>1, <3>2, SetFocusCards
    <2> QED BY <2>1, <2>2, <2>3
  <1>3. Move(l, found, direction) = AfterFocus(moved, found, l.page)
    BY DEF Move
  <1> HIDE DEF moved
  <1> QED BY <1>1, <1>2, <1>3, AfterFocusKeeps

LEMMA EdgeKeeps ==
  ASSUME NEW l, NEW found, found \subseteq Release, CardsOK(l, found), InPage(l, found),
         NEW first \in BOOLEAN
  PROVE  LET next == Edge(l, found, first) IN
         CardsOK(next, found) /\ InPage(next, found) /\ KeepsCustom(l, next)
  <1> DEFINE n     == CardCount(l, found)
             to    == IF first THEN 0 ELSE n - 1
             moved == CASE l.page = "platforms" -> EdgePlatformFocus(l, found, first)
                        [] l.page # "platforms" /\ n = 0 -> l
                        [] OTHER -> SetFocus(l, l.page, n, to)
  <1>1. l \in LauncherType /\ RouteOK(l, found) /\ n \in Nat
    BY CountFacts DEF CardsOK, RouteOK
  <1>2. /\ SameRoute(l, moved) /\ ProfileShown(moved)
        /\ l.page # "games" => CardsOK(moved, found) /\ InPage(moved, found)
    <2>1. CASE l.page = "platforms"
      <3>1. moved = EdgePlatformFocus(l, found, first)
        BY <2>1
      <3> HIDE DEF moved
      <3> QED BY <2>1, <3>1, EdgePlatformKeeps DEF CardsOK
    <2>2. CASE l.page # "platforms" /\ n = 0
      <3>1. moved = l
        BY <2>2
      <3> QED BY <1>1, <3>1 DEF SameRoute, CardsOK
    <2>3. CASE l.page # "platforms" /\ n # 0
      <3>1. moved = SetFocus(l, l.page, n, to)
        BY <2>3
      <3> HIDE DEF moved
      <3>2. to \in Nat
        BY <1>1, <2>3
      <3> HIDE DEF to
      <3> QED BY <3>1, <3>2, SetFocusCards
    <2> QED BY <2>1, <2>2, <2>3
  <1>3. Edge(l, found, first) = AfterFocus(moved, found, l.page)
    BY DEF Edge
  <1> HIDE DEF moved
  <1> QED BY <1>1, <1>2, <1>3, AfterFocusKeeps

(* What an event over the cards keeps.                                     *)
EventKeeps(l, next, found) ==
  CardsOK(next, found) /\ FocusOK(next, found) /\ KeepsCustom(l, next)

LEMMA MoveCardsKeeps ==
  ASSUME NEW l, NEW found, found \subseteq Release, CardsOK(l, found), FocusOK(l, found),
         NEW direction \in {-1, 1}
  PROVE  EventKeeps(l, MoveCards(l, found, direction), found)
  <1> DEFINE moved == Move(l, found, direction)
             reset == IF moved.page = "games" /\ moved.platform = NoPlatform
                      THEN AfterGameChange(moved) ELSE moved
             next  == OnGames(reset)
  <1>1. CardsOK(moved, found) /\ InPage(moved, found) /\ KeepsCustom(l, moved)
    BY MoveKeeps DEF FocusOK
  <1> HIDE DEF moved
  <1>2. CardsOK(reset, found) /\ InPage(reset, found) /\ SameRoute(moved, reset)
    BY <1>1, AfterGameChangeCards DEF SameRoute, CardsOK, RouteOK
  <1> HIDE DEF reset
  <1>3. CardsOK(next, found) /\ FocusOK(next, found) /\ SameRoute(reset, next)
    BY <1>2, OnGamesCards
  <1> HIDE DEF next
  <1>4. KeepsCustom(l, next)
    BY <1>1, <1>2, <1>3, SameRouteKeeps, KeepsAreTransitive
  <1>5. MoveCards(l, found, direction) = next
    BY DEF MoveCards, next, reset, moved
  <1> QED BY <1>3, <1>4, <1>5 DEF EventKeeps

LEMMA EdgeCardsKeeps ==
  ASSUME NEW l, NEW found, found \subseteq Release, CardsOK(l, found), FocusOK(l, found),
         NEW first \in BOOLEAN
  PROVE  EventKeeps(l, EdgeCards(l, found, first), found)
  <1> DEFINE moved == Edge(l, found, first)
             next  == OnGames(moved)
  <1>1. CardsOK(moved, found) /\ InPage(moved, found) /\ KeepsCustom(l, moved)
    BY EdgeKeeps DEF FocusOK
  <1> HIDE DEF moved
  <1>2. CardsOK(next, found) /\ FocusOK(next, found) /\ SameRoute(moved, next)
    BY <1>1, OnGamesCards
  <1> HIDE DEF next
  <1>3. KeepsCustom(l, next)
    BY <1>1, <1>2, SameRouteKeeps, KeepsAreTransitive
  <1>4. EdgeCards(l, found, first) = next
    BY DEF EdgeCards, next, moved
  <1> QED BY <1>2, <1>3, <1>4 DEF EventKeeps

LEMMA BackCardsKeeps ==
  ASSUME NEW l, NEW found, found \subseteq Release, CardsOK(l, found), l.page # "games"
  PROVE  EventKeeps(l, BackCards(l, found), found)
  <1> DEFINE several == Cardinality(Identities(found, l.game, l.platform)) > 1
             page    == CASE l.page = "profiles" /\ several -> "releases"
                          [] l.page = "profiles" /\ ~several -> "platforms"
                          [] l.page = "releases" -> "platforms"
                          [] OTHER -> "games"
             paged   == [l EXCEPT !.page = page]
             routed  == RouteBack(l, found)
             synced  == Synchronize(routed, found)
             next    == OnGames(synced)
  <1>1. l \in LauncherType /\ RouteOK(l, found)
    BY DEF CardsOK, RouteOK
  <1>2. page \in {"releases", "platforms", "games"} /\ (page = "releases" => l.page = "profiles")
    OBVIOUS
  <1> HIDE DEF page
  <1>3. /\ paged \in LauncherType /\ paged.page = page /\ paged.game = l.game
        /\ paged.platform = l.platform /\ paged.language = l.language /\ paged.sha = l.sha
        /\ paged.focus = l.focus /\ paged.ready = l.ready /\ paged.pending = l.pending
    BY <1>1, <1>2 DEF LauncherType, Pages
  <1> HIDE DEF paged
  <1>4. RouteOK(paged, found)
    BY <1>1, <1>2, <1>3 DEF RouteOK
  <1>5. routed = InvalidateCustom(paged)
    BY DEF RouteBack, paged, page
  <1>6. /\ RouteOK(routed, found) /\ NotSubstituted(paged, routed) /\ ~routed.ready
        /\ routed.focus = paged.focus
    BY <1>4, <1>5, InvalidateKeeps
  <1> HIDE DEF routed
  <1>7. ProfileShown(routed) /\ GameShown(routed)
    BY <1>3, <1>6 DEF CardsOK, ProfileShown, GameShown, NotSubstituted
  <1>8. CardsOK(synced, found) /\ FocusOK(synced, found) /\ KeepsCustom(routed, synced)
    BY <1>6, <1>7, CardsSynchronized
  <1> HIDE DEF synced
  <1>9. CardsOK(next, found) /\ FocusOK(next, found) /\ SameRoute(synced, next)
    BY <1>8, OnGamesCards DEF FocusOK
  <1> HIDE DEF next
  <1>10. KeepsCustom(l, next)
    BY <1>6, <1>8, <1>9 DEF KeepsCustom, SameRoute
  <1>11. BackCards(l, found) = next
    BY DEF BackCards, Back, next, synced, routed
  <1> QED BY <1>9, <1>10, <1>11 DEF EventKeeps


----------------------------------------------------------------------------
(* Activating a card *)

(* Entering a platform selects nothing, or one release on its card that    *)
(* starts.                                                                 *)
LEMMA ChoosePlatformKeeps ==
  ASSUME NEW l, NEW found, found \subseteq Release, CardsOK(l, found),
         NEW platform \in Platforms, Selectable(found, l.game, platform)
  PROVE  LET next == ChoosePlatform(l, found, platform) IN
         /\ CardsOK(next, found) /\ ~next.ready /\ next.focus = l.focus
         /\ next.page \in {"releases", "profiles"}
  <1> DEFINE ids      == Identities(found, l.game, platform)
             scoped   == IF l.platform = platform THEN l ELSE ForgetRelease(l)
             sha      == SelectSha(ids, scoped.sha)
             resolved == Resolve(found, l.game, platform, sha, NoLanguage)
             language == IF resolved = NoRelease THEN NoLanguage ELSE LanguageOf[resolved]
             page     == IF sha = NoRelease THEN "releases" ELSE "profiles"
             chosen   == [scoped EXCEPT !.platform = platform, !.sha = sha,
                                        !.language = language, !.page = page]
             next     == ChoosePlatform(l, found, platform)
  <1>1. l \in LauncherType /\ RouteOK(l, found)
    BY DEF CardsOK, RouteOK
  <1>2. ids # {} /\ platform # NoPlatform
    BY DEF Selectable, Platforms, NoPlatform
  <1>3. /\ scoped \in LauncherType /\ scoped.game = l.game /\ scoped.focus = l.focus
        /\ scoped.sha \in ids => Launchable(scoped.sha)
    <2>1. CASE l.platform = platform
      BY <1>1, <2>1, IdentitiesFacts DEF RouteOK
    <2>2. CASE l.platform # platform
      <3>1. scoped = [l EXCEPT !.language = NoLanguage, !.sha = NoRelease, !.explicit = FALSE]
        BY <2>2 DEF ForgetRelease
      <3> HIDE DEF scoped, ids
      <3>2. /\ scoped \in LauncherType /\ scoped.game = l.game /\ scoped.focus = l.focus
            /\ scoped.sha = NoRelease
        BY <1>1, <3>1 DEF LauncherType
      <3> QED BY <3>2, IdentitiesFacts DEF ids
    <2> QED BY <2>1, <2>2
  <1> HIDE DEF scoped
  <1>4. sha \in ids \cup {NoRelease} /\ (sha # NoRelease => Launchable(sha))
    BY <1>3, SelectShaIn
  <1>5. ids \subseteq Release /\ NoRelease \notin ids
    BY IdentitiesFacts
  <1>6. /\ resolved # NoRelease => resolved \in ids
        /\ sha # NoRelease => resolved = sha
    BY <1>4, ResolveIn
  <1> HIDE DEF resolved, sha
  <1>7. /\ language \in Languages \cup {NoLanguage}
        /\ sha # NoRelease => language = LanguageOf[sha] /\ language # NoLanguage
    BY <1>4, <1>5, <1>6, IdentityAssumption DEF Languages, NoLanguage
  <1>8. page \in {"releases", "profiles"} /\ (page = "profiles" <=> sha # NoRelease)
    OBVIOUS
  <1> HIDE DEF language, page, ids
  <1>9. /\ chosen \in LauncherType /\ chosen.platform = platform /\ chosen.sha = sha
        /\ chosen.language = language /\ chosen.page = page /\ chosen.game = l.game
        /\ chosen.focus = l.focus
    BY <1>3, <1>4, <1>5, <1>7, <1>8 DEF LauncherType, Pages
  <1>10. next = [chosen EXCEPT !.ready = FALSE, !.pending = FALSE]
    BY DEF ChoosePlatform, InvalidateCustom, chosen, page, language, resolved, sha, scoped, ids
  <1> HIDE DEF chosen, next
  <1>11. /\ next \in LauncherType /\ next.platform = platform /\ next.sha = sha
         /\ next.language = language /\ next.page = page /\ next.game = l.game
         /\ next.focus = l.focus /\ ~next.ready
    BY <1>9, <1>10 DEF LauncherType
  <1>12. RouteOK(next, found)
    BY <1>2, <1>4, <1>7, <1>8, <1>11 DEF RouteOK, ReleaseIsSelected, ids
  <1> QED BY <1>8, <1>11, <1>12 DEF CardsOK, GameShown, ProfileShown, next

LEMMA ChooseReleaseKeeps ==
  ASSUME NEW l, NEW found, found \subseteq Release, CardsOK(l, found), NEW r,
         ChooseRelease(l, found, r) # l
  PROVE  LET next == ChooseRelease(l, found, r) IN
         /\ CardsOK(next, found) /\ ~next.ready /\ next.focus = l.focus
         /\ next.page = "profiles"
  <1> DEFINE it     == Resolve(found, l.game, l.platform, r, NoLanguage)
             chosen == [l EXCEPT !.sha = it, !.language = LanguageOf[it], !.explicit = TRUE,
                                 !.page = "profiles"]
             next   == ChooseRelease(l, found, r)
  <1>1. l \in LauncherType /\ RouteOK(l, found)
    BY DEF CardsOK, RouteOK
  <1>2. l.platform # NoPlatform /\ it # NoRelease /\ next = InvalidateCustom(chosen)
    BY DEF ChooseRelease
  <1>3. it \in Identities(found, l.game, l.platform) /\ Launchable(it)
    BY <1>2, ResolveIn
  <1>4. it \in Release /\ LanguageOf[it] \in Languages
    BY <1>3, IdentitiesFacts, IdentityAssumption
  <1> HIDE DEF it
  <1>5. /\ chosen \in LauncherType /\ chosen.sha = it /\ chosen.language = LanguageOf[it]
        /\ chosen.page = "profiles" /\ chosen.game = l.game /\ chosen.platform = l.platform
        /\ chosen.focus = l.focus /\ chosen.ready = l.ready /\ chosen.pending = l.pending
    BY <1>1, <1>4 DEF LauncherType, Pages
  <1> HIDE DEF chosen, next
  <1>6. RouteOK(chosen, found)
    BY <1>1, <1>2, <1>3, <1>4, <1>5 DEF RouteOK, ReleaseIsSelected, Languages, NoLanguage
  <1>7. /\ RouteOK(next, found) /\ NotSubstituted(chosen, next) /\ ~next.ready
        /\ next.focus = chosen.focus /\ next.page = chosen.page
    BY <1>2, <1>6, InvalidateKeeps
  <1> QED BY <1>5, <1>7 DEF CardsOK, GameShown, ProfileShown, NotSubstituted, next

Profiled(l, presentation, pending) ==
  [l EXCEPT !.presentation = presentation, !.ready = FALSE, !.pending = pending]

(* A profile card keeps the release: only the presentation and Custom's    *)
(* gate may change, and a Custom becomes ready by no card.                 *)
LEMMA ProfileKeeps ==
  ASSUME NEW l, NEW found, CardsOK(l, found),
         NEW presentation \in {"original", "modern"}, NEW pending \in BOOLEAN
  PROVE  LET next == Profiled(l, presentation, pending) IN
         /\ CardsOK(next, found) /\ ~next.ready /\ next.focus = l.focus /\ next.page = l.page
         /\ NotSubstituted(l, next) /\ next.sha = l.sha /\ next.language = l.language
         /\ next.platform = l.platform
  <1> DEFINE next == Profiled(l, presentation, pending)
  <1>1. l \in LauncherType /\ RouteOK(l, found)
    BY DEF CardsOK, RouteOK
  <1>2. /\ next \in LauncherType /\ ~next.ready /\ next.focus = l.focus /\ next.page = l.page
        /\ next.game = l.game /\ next.platform = l.platform /\ next.sha = l.sha
        /\ next.language = l.language
    BY <1>1 DEF Profiled, LauncherType
  <1> HIDE DEF next
  <1>3. RouteOK(next, found)
    BY <1>1, <1>2 DEF RouteOK, ReleaseIsSelected
  <1> QED BY <1>2, <1>3 DEF CardsOK, GameShown, ProfileShown, NotSubstituted, next

LEMMA ConfirmCustomKeeps ==
  ASSUME NEW l, NEW found, CardsOK(l, found)
  PROVE  LET next == ConfirmCustom(l) IN
         /\ CardsOK(next, found) /\ next.focus = l.focus /\ next.page = l.page
         /\ NotSubstituted(l, next) /\ next.sha = l.sha /\ next.language = l.language
         /\ next.platform = l.platform /\ next.ready
  <1> DEFINE next == ConfirmCustom(l)
  <1>1. l \in LauncherType /\ RouteOK(l, found)
    BY DEF CardsOK, RouteOK
  <1>2. next = [l EXCEPT !.presentation = "modern", !.ready = TRUE, !.pending = FALSE]
    BY DEF ConfirmCustom
  <1>3. /\ next \in LauncherType /\ next.ready /\ ~next.pending /\ next.focus = l.focus
        /\ next.page = l.page /\ next.game = l.game /\ next.platform = l.platform
        /\ next.sha = l.sha /\ next.language = l.language
    BY <1>1, <1>2 DEF LauncherType
  <1> HIDE DEF next
  <1>4. RouteOK(next, found)
    BY <1>1, <1>3 DEF RouteOK, ReleaseIsSelected
  <1> QED BY <1>3, <1>4 DEF CardsOK, GameShown, ProfileShown, NotSubstituted, next


(* The release a sound route launches is the one it shows.                 *)
LEMMA LaunchResolves ==
  ASSUME NEW l, NEW found, found \subseteq Release, CardsOK(l, found), CanLaunch(l)
  PROVE  ResolveLaunch(l, found) = l.sha /\ l.sha # NoRelease
  <1>1. l.sha # NoRelease
    BY DEF CanLaunch, ReleaseIsSelected
  <1>2. /\ l.sha \in Identities(found, l.game, l.platform)
        /\ l.language = LanguageOf[l.sha] /\ Launchable(l.sha)
    BY <1>1 DEF CardsOK, RouteOK
  <1> QED BY <1>1, <1>2, ResolveIn DEF ResolveLaunch

(* What an activated card does: a launch is of the release shown.          *)
ActivationKeeps(l, result, found) ==
  /\ result = [launcher |-> result.launcher, effect |-> result.effect]
  /\ EventKeeps(l, result.launcher, found)
  /\ result.effect \in Effects
  /\ result.effect = "launch" => /\ CanLaunch(result.launcher)
                                 /\ result.launcher.sha = l.sha

LEMMA LaunchIfKeeps ==
  ASSUME NEW l, NEW next, NEW found, EventKeeps(l, next, found), next.sha = l.sha
  PROVE  ActivationKeeps(l, LaunchIf(next), found)
  <1>1. LaunchIf(next).launcher = next
    BY DEF LaunchIf
  <1>2. LaunchIf(next).effect = IF CanLaunch(next) THEN "launch" ELSE "none"
    BY DEF LaunchIf
  <1>3. LaunchIf(next) = [launcher |-> LaunchIf(next).launcher, effect |-> LaunchIf(next).effect]
    BY DEF LaunchIf
  <1> QED BY <1>1, <1>2, <1>3 DEF ActivationKeeps, Effects

(* The same cards under a focus that still fits.                           *)
LEMMA FocusStays ==
  ASSUME NEW l, NEW next, NEW found, FocusOK(l, found), CardsOK(l, found), l.page # "games",
         next.focus = l.focus, next.page = l.page, next.game = l.game,
         next.platform = l.platform
  PROVE  FocusOK(next, found)
  <1>1. CardCount(next, found) = CardCount(l, found)
    BY DEF CardCount
  <1> QED BY <1>1 DEF FocusOK, InPage

LEMMA ActivateProfileKeeps ==
  ASSUME NEW l, NEW found, found \subseteq Release, CardsOK(l, found), FocusOK(l, found),
         l.page = "profiles"
  PROVE  ActivationKeeps(l, ActivateProfile(l), found)
  <1>1. l \in LauncherType /\ l.focus["profiles"] \in 0..2
    BY DEF CardsOK, RouteOK, ProfileShown, LauncherType, Pages
  <1> DEFINE card == ProfileCards[l.focus["profiles"] + 1]
  <1>2. ASSUME NEW p \in {"original", "modern"}, NEW on \in BOOLEAN
        PROVE  EventKeeps(l, Profiled(l, p, on), found) /\ Profiled(l, p, on).sha = l.sha
    <2> DEFINE next == Profiled(l, p, on)
    <2>1. /\ CardsOK(next, found) /\ ~next.ready /\ next.focus = l.focus /\ next.page = l.page
          /\ NotSubstituted(l, next) /\ next.sha = l.sha /\ next.platform = l.platform
      BY <1>2, ProfileKeeps
    <2> HIDE DEF next
    <2>2. FocusOK(next, found)
      BY <2>1, FocusStays DEF NotSubstituted
    <2>3. EventKeeps(l, next, found) /\ next.sha = l.sha
      BY <2>1, <2>2 DEF EventKeeps, KeepsCustom
    <2> QED BY <2>3 DEF next
  <1>3. /\ ChooseOriginal(l) = Profiled(l, "original", FALSE) /\ ChooseModern(l) = Profiled(l, "modern", FALSE)
        /\ BeginCustom(l) = Profiled(l, "modern", TRUE)
    BY DEF ChooseOriginal, ChooseModern, BeginCustom, InvalidateCustom, Profiled
  <1>4. CASE card = "original"
    <2>1. ActivateProfile(l) = LaunchIf(ChooseOriginal(l))
      BY <1>4 DEF ActivateProfile
    <2>2. EventKeeps(l, Profiled(l, "original", FALSE), found) /\ Profiled(l, "original", FALSE).sha = l.sha
      BY <1>2
    <2>3. EventKeeps(l, ChooseOriginal(l), found) /\ ChooseOriginal(l).sha = l.sha
      BY <1>3, <2>2
    <2> QED BY <2>1, <2>3, LaunchIfKeeps
  <1>5. CASE card = "modern"
    <2>1. ActivateProfile(l) = LaunchIf(ChooseModern(l))
      BY <1>5 DEF ActivateProfile
    <2>2. EventKeeps(l, Profiled(l, "modern", FALSE), found) /\ Profiled(l, "modern", FALSE).sha = l.sha
      BY <1>2
    <2>3. EventKeeps(l, ChooseModern(l), found) /\ ChooseModern(l).sha = l.sha
      BY <1>3, <2>2
    <2> QED BY <2>1, <2>3, LaunchIfKeeps
  <1>6. CASE card = "custom" /\ l.ready
    <2>1. ActivateProfile(l) = LaunchIf(l)
      BY <1>6 DEF ActivateProfile
    <2> QED BY <2>1, LaunchIfKeeps, KeepsAreTransitive DEF EventKeeps
  <1>7. CASE card \notin {"original", "modern"} /\ ~(card = "custom" /\ l.ready)
    <2>1. ActivateProfile(l) = [launcher |-> BeginCustom(l), effect |-> "open_custom_settings"]
      BY <1>7 DEF ActivateProfile
    <2>2. EventKeeps(l, BeginCustom(l), found)
      BY <1>2, <1>3
    <2> QED BY <2>1, <2>2 DEF ActivationKeeps, Effects
  <1> QED BY <1>4, <1>5, <1>6, <1>7

LEMMA QuietKeeps ==
  ASSUME NEW l, NEW next, NEW found, EventKeeps(l, next, found)
  PROVE  ActivationKeeps(l, [launcher |-> next, effect |-> "none"], found)
  BY DEF ActivationKeeps, Effects

LEMMA ActivateGameKeeps ==
  ASSUME NEW l, NEW found, found \subseteq Release, CardsOK(l, found), FocusOK(l, found),
         l.page = "games"
  PROVE  ActivationKeeps(l, Activate(l, found), found)
  <1> DEFINE reset  == AfterGameChange(l)
             synced == Synchronize(reset, found)
             next   == [synced EXCEPT !.page = "platforms"]
  <1>1. CardsOK(reset, found) /\ SameRoute(l, reset) /\ reset.focus["platforms"] = 0
    BY AfterGameChangeCards DEF FocusOK
  <1> HIDE DEF reset
  <1>2. /\ CardsOK(synced, found) /\ KeepsCustom(reset, synced)
        /\ synced.focus["platforms"] < Len(Supported(synced.game))
    BY <1>1, CardsSynchronized DEF CardsOK
  <1> HIDE DEF synced
  <1>3. /\ next \in LauncherType /\ next.page = "platforms" /\ next.game = synced.game
        /\ next.platform = synced.platform /\ next.language = synced.language
        /\ next.sha = synced.sha /\ next.focus = synced.focus /\ next.ready = synced.ready
        /\ next.pending = synced.pending
    BY <1>2 DEF CardsOK, RouteOK, LauncherType, Pages
  <1>4. Activate(l, found) = [launcher |-> next, effect |-> "none"]
    BY DEF Activate, next, synced, reset
  <1> HIDE DEF next
  <1>5. CardsOK(next, found)
    BY <1>2, <1>3 DEF CardsOK, RouteOK, GameShown, ProfileShown
  <1>6. FocusOK(next, found)
    BY <1>2, <1>3, CountFacts DEF FocusOK, InPage
  <1>7. KeepsCustom(l, next)
    BY <1>1, <1>2, <1>3 DEF KeepsCustom, SameRoute, SourceIdentity
  <1> QED BY <1>4, <1>5, <1>6, <1>7, QuietKeeps DEF EventKeeps

LEMMA ActivatePlatformKeeps ==
  ASSUME NEW l, NEW found, found \subseteq Release, CardsOK(l, found), FocusOK(l, found),
         l.page = "platforms"
  PROVE  ActivationKeeps(l, Activate(l, found), found)
  <1> DEFINE bound  == SetFocus(l, l.page, CardCount(l, found), l.focus[l.page])
             card   == Supported(l.game)[bound.focus["platforms"] + 1]
             chosen == ChoosePlatform(bound, found, card)
             next   == AfterPlatformChange(chosen)
  <1>1. l \in LauncherType /\ l.focus \in [Pages -> Nat] /\ l.game \in Games
        /\ CardCount(l, found) = Len(Supported(l.game))
    BY CountFacts DEF CardsOK, RouteOK, LauncherType
  <1>2. /\ SameRoute(l, bound) /\ CardsOK(bound, found) /\ InPage(bound, found)
        /\ bound.focus["platforms"] = l.focus["platforms"]
    BY <1>1, SetFocusCards DEF FocusOK, Pages
  <1>3. KeepsCustom(l, bound) /\ CardCount(bound, found) = CardCount(l, found)
        /\ bound.page = "platforms" /\ bound.game = l.game
    BY <1>2, SameRouteKeeps DEF SameRoute
  <1>4. Activate(l, found) =
          [launcher |-> IF Selectable(found, l.game, card) THEN next ELSE bound,
           effect   |-> "none"]
    BY DEF Activate
  <1>5. card \in Platforms
    <2> DEFINE n == Len(Supported(l.game))
    <2>1. /\ n \in {2, 3} /\ DOMAIN Supported(l.game) = 1..n
          /\ \A i \in DOMAIN Supported(l.game) : Supported(l.game)[i] \in Platforms
      BY <1>1, SupportedFacts
    <2>2. CardCount(bound, found) = n
      BY <1>1, <1>3
    <2> HIDE DEF n
    <2>3. bound.focus["platforms"] < n /\ bound.focus["platforms"] \in Nat
      BY <1>1, <1>2, <1>3, <2>1, <2>2 DEF InPage, Pages
    <2> QED BY <2>1, <2>3
  <1> HIDE DEF bound
  <1>6. CASE ~Selectable(found, l.game, card)
    <2>1. EventKeeps(l, bound, found)
      BY <1>2, <1>3 DEF EventKeeps, FocusOK
    <2> QED BY <1>4, <1>6, <2>1, QuietKeeps
  <1>7. CASE Selectable(found, l.game, card)
    <2> HIDE DEF card
    <2>1. /\ CardsOK(chosen, found) /\ ~chosen.ready
          /\ chosen.page \in {"releases", "profiles"}
      BY <1>2, <1>3, <1>5, <1>7, ChoosePlatformKeeps
    <2> HIDE DEF chosen
    <2>2. /\ SameRoute(chosen, next) /\ next.focus["releases"] = 0 /\ next.focus["profiles"] = 0
          /\ next.focus["games"] = chosen.focus["games"]
      BY <2>1, ResetFocusKeeps DEF AfterPlatformChange, CardsOK, RouteOK, Pages
    <2> HIDE DEF next
    <2>3. CardsOK(next, found)
      BY <2>1, <2>2, SameCards
    <2>4. FocusOK(next, found) /\ ~next.ready
      BY <2>1, <2>2 DEF FocusOK, InPage, SameRoute
    <2>5. EventKeeps(l, next, found)
      BY <2>3, <2>4 DEF EventKeeps, KeepsCustom
    <2> QED BY <1>4, <1>7, <2>5, QuietKeeps
  <1> QED BY <1>6, <1>7

LEMMA ActivateReleaseKeeps ==
  ASSUME NEW l, NEW found, found \subseteq Release, CardsOK(l, found), FocusOK(l, found),
         l.page = "releases"
  PROVE  ActivationKeeps(l, Activate(l, found), found)
  <1> DEFINE ids   == Identities(found, l.game, l.platform)
             bound == SetFocus(l, l.page, CardCount(l, found), l.focus[l.page])
             card  == NthIdentity(ids, bound.focus["releases"])
             next  == ChooseRelease(bound, found, card)
  <1>1. l \in LauncherType /\ l.focus \in [Pages -> Nat] /\ l.platform # NoPlatform /\ ids # {}
    BY DEF CardsOK, RouteOK, LauncherType
  <1>2. SameRoute(l, bound) /\ CardsOK(bound, found) /\ InPage(bound, found)
    BY <1>1, SetFocusCards DEF FocusOK, Pages
  <1>3. KeepsCustom(l, bound) /\ bound.page = "releases"
    BY <1>2, SameRouteKeeps DEF SameRoute
  <1>4. Activate(l, found) = [launcher |-> next, effect |-> "none"]
    BY <1>1 DEF Activate
  <1> HIDE DEF bound
  <1>5. EventKeeps(l, next, found)
    <2>1. CASE next = bound
      BY <1>2, <1>3, <2>1 DEF EventKeeps, FocusOK
    <2>2. CASE next # bound
      <3> HIDE DEF card
      <3>1. /\ CardsOK(next, found) /\ ~next.ready /\ next.page = "profiles"
        BY <1>2, <2>2, ChooseReleaseKeeps
      <3> HIDE DEF next
      <3>2. FocusOK(next, found)
        <4>1. CardCount(next, found) = 3
          BY <3>1, CountFacts DEF CardsOK, RouteOK
        <4> QED BY <3>1, <4>1 DEF FocusOK, InPage, CardsOK, ProfileShown
      <3> QED BY <3>1, <3>2 DEF EventKeeps, KeepsCustom
    <2> QED BY <2>1, <2>2
  <1> QED BY <1>4, <1>5, QuietKeeps

LEMMA ActivateKeeps ==
  ASSUME NEW l, NEW found, found \subseteq Release, CardsOK(l, found), FocusOK(l, found)
  PROVE  ActivationKeeps(l, Activate(l, found), found)
  <1>1. l \in LauncherType /\ l.focus \in [Pages -> Nat] /\ l.page \in Pages
    BY DEF CardsOK, RouteOK, LauncherType
  <1>2. CASE l.page = "profiles"
    <2> DEFINE bound == SetFocus(l, l.page, CardCount(l, found), l.focus[l.page])
    <2>1. SameRoute(l, bound) /\ CardsOK(bound, found) /\ InPage(bound, found)
      BY <1>1, <1>2, SetFocusCards DEF FocusOK
    <2>2. Activate(l, found) = ActivateProfile(bound)
      BY <1>2 DEF Activate
    <2> HIDE DEF bound
    <2>3. KeepsCustom(l, bound) /\ bound.page = "profiles" /\ bound.sha = l.sha
      BY <1>2, <2>1, SameRouteKeeps DEF SameRoute
    <2>4. FocusOK(bound, found)
      BY <2>1, <2>3 DEF FocusOK
    <2>5. ActivationKeeps(bound, ActivateProfile(bound), found)
      BY <2>1, <2>3, <2>4, ActivateProfileKeeps
    <2> QED BY <2>2, <2>3, <2>5, KeepsAreTransitive DEF ActivationKeeps, EventKeeps
  <1> QED BY <1>1, <1>2, ActivateGameKeeps, ActivatePlatformKeeps, ActivateReleaseKeeps
          DEF Pages

(* A pointer's card is focused first, and on the games page synchronized.  *)
LEMMA ActivateCardKeeps ==
  ASSUME NEW l, NEW found, found \subseteq Release, CardsOK(l, found), FocusOK(l, found),
         NEW index \in Nat
  PROVE  LET result == ActivateCard(l, found, index) IN
         /\ result = [launcher |-> result.launcher, effect |-> result.effect]
         /\ EventKeeps(l, result.launcher, found)
         /\ result.effect \in Effects
         /\ result.effect = "launch" => CanLaunch(result.launcher)
  <1> DEFINE hit    == SetFocus(l, l.page, CardCount(l, found), index)
             at     == IF l.page = "games" THEN Synchronize(hit, found) ELSE hit
             result == Activate(at, found)
  <1>1. CASE index >= CardCount(l, found)
    <2>1. ActivateCard(l, found, index) = [launcher |-> l, effect |-> "none"]
      BY <1>1 DEF ActivateCard
    <2> QED BY <2>1, QuietKeeps, KeepsAreTransitive DEF ActivationKeeps, EventKeeps
  <1>2. CASE ~(index >= CardCount(l, found))
    <2>1. ActivateCard(l, found, index) = result
      BY <1>2 DEF ActivateCard
    <2>2. /\ SameRoute(l, hit) /\ ProfileShown(hit) /\ InPage(hit, found)
          /\ l.page # "games" => CardsOK(hit, found)
      BY SetFocusCards
    <2> HIDE DEF hit
    <2>3. RouteOK(hit, found) /\ KeepsCustom(l, hit) /\ hit.page = l.page
      BY <2>2, SameRouteKeeps DEF CardsOK, SameRoute
    <2>4. CardsOK(at, found) /\ FocusOK(at, found) /\ KeepsCustom(hit, at)
      <3>1. CASE l.page = "games"
        BY <2>2, <2>3, <3>1, CardsSynchronized
      <3>2. CASE l.page # "games"
        BY <2>2, <2>3, <3>2, KeepsAreTransitive DEF FocusOK
      <3> QED BY <3>1, <3>2
    <2> HIDE DEF at
    <2>5. ActivationKeeps(at, result, found)
      BY <2>4, ActivateKeeps
    <2> HIDE DEF result
    <2> QED BY <2>1, <2>3, <2>4, <2>5, KeepsAreTransitive DEF ActivationKeeps, EventKeeps
  <1> QED BY <1>1, <1>2
=============================================================================

------------------------------- MODULE RuntimeOps -------------------------------
(***************************************************************************)
(* The operations of the native runtime as functions on its state.         *)
(*                                                                         *)
(* One record stands for the three objects that the program nests and that *)
(* live and die together: ReleaseRuntimeCoordinator (the admitted release  *)
(* and its session), NativeSessionController (the lifecycle state and the  *)
(* opening's scheduler) and RuntimeHost (generation and input gate).  The  *)
(* operations are functions, not actions, because the shell calls several  *)
(* of them inside one event handler.                                       *)
(***************************************************************************)
EXTENDS Releases

CONSTANT MaxSerial      \* the largest value of the runtime generation counter

ASSUME MaxSerialAssumption == MaxSerial \in Nat

(* RuntimeSessionKind, up to the kinds no host input or scheduler reaches: *)
(* the Amiga and Atari bootstrap previews are one kind.                    *)
SessionKinds ==
  { "dos_title", "dos_sound_driver_boundary", "dos_title_handoff_boundary",
    "bootstrap", "amiga_opening", "amiga_title_program_entry", "amiga_title_stage" }

NoSession == "no_session"

States == SessionKinds \cup {"menu", "admission_rejected", "returning_to_menu"}

Admissions == { "unselected", "active", "identity_rejected", "archive_rejected",
                "adapter_rejected" }

Dispositions == {"rejected", "ignored", "observed", "boundary_reached"}

(* What acquiring a resolved release can come to.  "archive" is a file that *)
(* changed since the scan; "adapter" any later check or parser that fails. *)
AcquireOutcomes == {"admitted", "archive", "adapter"}

(* A choice byte that names a driver, another byte, console availability,  *)
(* and the two values of the opening's held signal.                        *)
Observations == {"ascii_choice", "ascii_other", "character_available", "held", "released"}

RuntimeType ==
  [ state      : States,
    generation : Nat,
    suppressed : BOOLEAN,
    runner     : {"none", "running", "stopped"},
    active     : Release \cup {NoRelease},
    admission  : Admissions,
    counter    : 0..MaxSerial,
    serial     : 0..MaxSerial,
    kind       : SessionKinds \cup {NoSession},
    held       : BOOLEAN,
    sound      : {"absent", "awaiting", "chosen"},
    driver     : {"absent", "awaiting_stack", "title_exec_boundary", "done"},
    title      : {"absent", "waiting", "handed_off"},
    opening    : {"absent", "running", "accepted", "handed_off"} ]

InitRuntime ==
  [ state |-> "menu", generation |-> 0, suppressed |-> FALSE, runner |-> "none",
    active |-> NoRelease, admission |-> "unselected", counter |-> 0, serial |-> 0,
    kind |-> NoSession, held |-> FALSE, sound |-> "absent", driver |-> "absent",
    title |-> "absent", opening |-> "absent" ]

----------------------------------------------------------------------------
(* ReleaseRuntimeCoordinator *)

(* Mutant: a reset that forgets the release but not its child objects.     *)
ResetKeepingChildren(r) ==
  [r EXCEPT !.active = NoRelease, !.admission = "unselected", !.serial = 0,
            !.kind = NoSession, !.held = FALSE]

ResetCoordinator(r) ==
  [r EXCEPT !.active = NoRelease, !.admission = "unselected", !.serial = 0,
            !.kind = NoSession, !.held = FALSE, !.sound = "absent", !.driver = "absent",
            !.title = "absent", !.opening = "absent"]

InitialKind(rel) ==
  CASE AdapterOf[rel] = "millennium_dos" -> "dos_title"
    [] AdapterOf[rel] = "deuteros_amiga" -> "amiga_opening"
    [] OTHER                             -> "bootstrap"

(* Mutant: the counter is advanced without looking at its limit.           *)
RefusesNoLimit(r, rel, outcome) ==
  outcome = "adapter" \/ AdapterOf[rel] = "preservation_only"

(* The gates behind an opened archive.  The capability table refuses       *)
(* preservation media, and an exhausted counter refuses everything: it     *)
(* never wraps to the generation of an earlier session.                    *)
Refuses(r, rel, outcome) ==
  \/ outcome = "adapter"
  \/ AdapterOf[rel] = "preservation_only"
  \/ r.counter = MaxSerial

(* acquire() resets first, so every refusal leaves no trace of the         *)
(* preceding release.                                                      *)
Acquire(r, rel, outcome) ==
  LET clean == ResetCoordinator(r) IN
  IF outcome = "archive" THEN [clean EXCEPT !.admission = "archive_rejected"]
  ELSE IF Refuses(r, rel, outcome) THEN [clean EXCEPT !.admission = "adapter_rejected"]
  ELSE [clean EXCEPT !.active = rel, !.admission = "active", !.kind = InitialKind(rel),
                     !.counter = @ + 1, !.serial = r.counter + 1,
                     !.sound = IF AdapterOf[rel] = "millennium_dos" THEN "awaiting" ELSE "absent",
                     !.opening = IF AdapterOf[rel] = "deuteros_amiga" THEN "running" ELSE "absent"]

(* admit_runtime_launch: a candidate that no longer resolves resets too.   *)
AdmitRuntimeLaunch(r, rel, outcome) ==
  IF rel = NoRelease THEN ResetCoordinator(r) ELSE Acquire(r, rel, outcome)

(* Mutant: a failed load reopens the choice, even one made long before.    *)
ChooseSoundAgain(r, loads) ==
  IF r.sound = "absent" THEN [runtime |-> r, disposition |-> "rejected"]
  ELSE IF loads
  THEN [runtime |-> [r EXCEPT !.sound = "chosen", !.driver = "awaiting_stack",
                              !.kind = "dos_sound_driver_boundary"],
        disposition |-> "boundary_reached"]
  ELSE [runtime |-> [r EXCEPT !.sound = "awaiting"], disposition |-> "rejected"]

(* The literal sound choice.  The choice latches before the driver load is *)
(* begun, and a load that fails restores the session kind only.            *)
ChooseSound(r, loads) ==
  IF r.sound # "awaiting" THEN [runtime |-> r, disposition |-> IF r.sound = "absent"
                                                              THEN "rejected" ELSE "ignored"]
  ELSE IF loads
  THEN [runtime |-> [r EXCEPT !.sound = "chosen", !.driver = "awaiting_stack",
                              !.kind = "dos_sound_driver_boundary"],
        disposition |-> "boundary_reached"]
  ELSE [runtime |-> [r EXCEPT !.sound = "chosen"], disposition |-> "rejected"]

(* The console poll of TITLES.EXE.  The hand-off latches before the title- *)
(* to-game session is prepared; a preparation that fails keeps the kind.   *)
PollTitleConsole(r, prepares) ==
  IF r.title = "absent" THEN [runtime |-> r, disposition |-> "rejected"]
  ELSE IF r.title = "handed_off" THEN [runtime |-> r, disposition |-> "ignored"]
  ELSE IF prepares
  THEN [runtime |-> [r EXCEPT !.title = "handed_off", !.kind = "dos_title_handoff_boundary"],
        disposition |-> "boundary_reached"]
  ELSE [runtime |-> [r EXCEPT !.title = "handed_off"], disposition |-> "rejected"]

CoordinatorObserve(r, obs, succeeds) ==
  CASE r.kind = "amiga_opening" /\ obs \in {"held", "released"} ->
         [runtime |-> [r EXCEPT !.held = (obs = "held")], disposition |-> "observed"]
    [] r.kind = "dos_title" /\ obs = "ascii_choice" -> ChooseSound(r, succeeds)
    [] r.kind = "dos_title" /\ obs = "ascii_other" ->
         [runtime |-> r, disposition |-> IF r.sound = "absent" THEN "rejected" ELSE "ignored"]
    [] r.kind = "dos_title" /\ obs = "character_available" -> PollTitleConsole(r, succeeds)
    [] OTHER -> [runtime |-> r, disposition |-> "rejected"]

(* One pass of the deterministic drivers.  The English loader stops for    *)
(* the parent's stack word; past it the title child is entered.  The Amiga *)
(* driver runs the reconstructed $13000 entry into the title stage.        *)
CoordinatorDrive(r) ==
  CASE r.kind = "dos_sound_driver_boundary" /\ r.driver = "title_exec_boundary" ->
         [r EXCEPT !.driver = "done", !.title = "waiting", !.kind = "dos_title"]
    [] r.kind = "amiga_title_program_entry" -> [r EXCEPT !.kind = "amiga_title_stage"]
    [] OTHER -> r

(* The one external result the loader waits for.                           *)
CoordinatorObserveStack(r) ==
  IF r.kind = "dos_sound_driver_boundary" /\ r.driver = "awaiting_stack"
  THEN [r EXCEPT !.driver = "title_exec_boundary"] ELSE r

(* tick_deuteros_amiga_opening, several calls in a row.  The opening's $14  *)
(* resumes on a held signal ("accepted"), and only past it is the title    *)
(* reached, in the same call or a later one.  "stuck" reaches it too, but  *)
(* the publication of the title stage fails after the opening has already  *)
(* handed off, so this tick and every later one return nothing.            *)
TickOutcomes == {"not_due", "advanced", "accepted", "handoff", "stuck"}

TitleReached(r, outcome) ==
  /\ r.opening = "accepted" \/ (r.opening = "running" /\ r.held)
  /\ outcome \in {"handoff", "stuck"}

CoordinatorTick(r, outcome) ==
  IF TitleReached(r, outcome)
  THEN IF outcome = "handoff"
       THEN [r EXCEPT !.opening = "handed_off", !.kind = "amiga_title_program_entry",
                      !.held = FALSE]
       ELSE [r EXCEPT !.opening = "handed_off"]
  ELSE IF outcome = "accepted" /\ r.opening = "running" /\ r.held
  THEN [r EXCEPT !.opening = "accepted"] ELSE r

----------------------------------------------------------------------------
(* NativeSessionController *)

NativeSessionStateFor(r) ==
  IF r.kind = NoSession
  THEN IF r.admission = "unselected" THEN "menu" ELSE "admission_rejected"
  ELSE IF r.admission # "active" THEN "admission_rejected" ELSE r.kind

SynchronizeAfterRuntimeChange(r) ==
  IF r.state = "returning_to_menu" THEN r ELSE [r EXCEPT !.state = NativeSessionStateFor(r)]

Revoking(r) == r.state = "returning_to_menu"

IsLive(r) == r.state \notin {"menu", "admission_rejected", "returning_to_menu"}

(* launch_direct and launch_menu                                           *)
Launch(r, rel, outcome) ==
  IF Revoking(r) THEN r
  ELSE SynchronizeAfterRuntimeChange(
         AdmitRuntimeLaunch([r EXCEPT !.runner = "none"], rel, outcome))

(* Mutant: input is not refused during the teardown.                       *)
ControllerObserveAlways(r, obs, succeeds) ==
  LET seen == CoordinatorObserve(r, obs, succeeds)
  IN [runtime |-> SynchronizeAfterRuntimeChange(seen.runtime), disposition |-> seen.disposition]

ControllerObserve(r, obs, succeeds) ==
  IF Revoking(r) THEN [runtime |-> r, disposition |-> "rejected"]
  ELSE LET seen == CoordinatorObserve(r, obs, succeeds)
       IN [runtime |-> SynchronizeAfterRuntimeChange(seen.runtime), disposition |-> seen.disposition]

SchedulerActive(r) == r.state = "amiga_opening" /\ r.runner = "running"

(* Mutant: a tick moves the session and leaves the state behind.           *)
AdvanceUnsynchronized(r, outcome) ==
  LET stopped == outcome # "not_due" /\ (r.opening = "handed_off" \/ TitleReached(r, outcome))
  IN [CoordinatorTick(r, outcome) EXCEPT !.runner = IF stopped THEN "stopped" ELSE @]

(* The runner stops on a tick that returns nothing and on the hand-off.    *)
AdvanceScheduler(r, outcome) ==
  LET ticked  == SynchronizeAfterRuntimeChange(CoordinatorTick(r, outcome))
      stopped == outcome # "not_due" /\ (r.opening = "handed_off" \/ TitleReached(r, outcome))
  IN [ticked EXCEPT !.runner = IF stopped THEN "stopped" ELSE @]

BeginReturnToMenu(r) == [r EXCEPT !.runner = "none", !.state = "returning_to_menu"]

FinishReturnToMenu(r) ==
  IF Revoking(r) THEN [ResetCoordinator(r) EXCEPT !.state = "menu"] ELSE r

(* Only these lifecycle states have a deterministic driver.                *)
DriveActive(r) ==
  IF r.state \in {"dos_sound_driver_boundary", "dos_title", "amiga_title_stage",
                  "amiga_title_program_entry"}
  THEN SynchronizeAfterRuntimeChange(CoordinatorDrive(r)) ELSE r

ObserveStack(r) ==
  IF r.state = "dos_sound_driver_boundary"
  THEN SynchronizeAfterRuntimeChange(CoordinatorObserveStack(r)) ELSE r

----------------------------------------------------------------------------
(* RuntimeHost *)

(* Mutant: a second begin invalidates the caller's copy once more.         *)
BeginRevocationTwice(r) == BeginReturnToMenu([r EXCEPT !.generation = @ + 1])

BeginSourceRevocation(r) ==
  IF Revoking(r) THEN r
  ELSE BeginReturnToMenu([r EXCEPT !.generation = @ + 1])

FinishSourceRevocation(r) ==
  IF Revoking(r) THEN FinishReturnToMenu([r EXCEPT !.suppressed = FALSE]) ELSE r

(* Mutant: the gate closes without cancelling what is held.                *)
SuppressWithoutRelease(r, suppressed) == [r EXCEPT !.suppressed = suppressed]

(* Closing the gate first cancels a held signal; the order matters, for    *)
(* the gate would reject the cancellation.                                 *)
SetInputSuppressed(r, suppressed) ==
  IF suppressed = r.suppressed THEN r
  ELSE LET quiet == IF suppressed THEN ControllerObserve(r, "released", TRUE).runtime ELSE r
       IN [quiet EXCEPT !.suppressed = suppressed]

HostObserve(r, obs, succeeds) ==
  IF r.suppressed THEN [runtime |-> r, disposition |-> "rejected"]
  ELSE ControllerObserve(r, obs, succeeds)

(* advance(): a missing or stopped scheduler is started again and, having  *)
(* just been anchored at this very instant, has no tick due.               *)
HostAdvance(r, outcome) ==
  IF r.state # "amiga_opening" THEN r
  ELSE IF SchedulerActive(r) THEN AdvanceScheduler(r, outcome)
  ELSE [r EXCEPT !.runner = "running"]

HostDrive(r) == IF Revoking(r) THEN r ELSE DriveActive(r)

HostObserveStack(r) == IF Revoking(r) THEN r ELSE ObserveStack(r)

(* requires_revocation_for: the active identity differs from the cards'.   *)
RequiresRevocationFor(r, source) == r.active # NoRelease /\ r.active # source

----------------------------------------------------------------------------
(* What every operation preserves, stated on the record so that both the   *)
(* host on its own and the shell that composes operations can claim it.    *)

DosKinds == {"dos_title", "dos_sound_driver_boundary", "dos_title_handoff_boundary"}
AmigaKinds == {"amiga_opening", "amiga_title_program_entry", "amiga_title_stage"}

(* Everything a coordinator holds comes from one admitted release: after   *)
(* any order of launches, refusals and resets, no session kind, choice or  *)
(* child object of an earlier release is left beside the current one.      *)
EmptyCoordinator(r) ==
  /\ r.active = NoRelease /\ r.kind = NoSession /\ r.serial = 0 /\ ~r.held
  /\ r.sound = "absent" /\ r.driver = "absent"
  /\ r.title = "absent" /\ r.opening = "absent"

OwnedBy(r, adapter) ==
  /\ adapter # "preservation_only"
  /\ (r.kind \in DosKinds) <=> (adapter = "millennium_dos")
  /\ (r.kind \in AmigaKinds) <=> (adapter = "deuteros_amiga")
  /\ (r.kind = "bootstrap") <=> (adapter = "bootstrap_only")
  /\ (r.opening # "absent") <=> (adapter = "deuteros_amiga")
  /\ (r.sound # "absent") <=> (adapter = "millennium_dos")
  /\ (r.driver # "absent") => (r.sound = "chosen")
  /\ (r.title # "absent") => (r.sound = "chosen")

OwnedByOneRelease(r) ==
  IF r.admission = "active"
  THEN r.active \in Release /\ r.serial = r.counter /\ OwnedBy(r, AdapterOf[r.active])
  ELSE EmptyCoordinator(r)

(* The lifecycle state that gates every call agrees with the session the   *)
(* coordinator publishes; a tick, an input or a drive that moves the       *)
(* session moves the state in the same call.                               *)
StateFollowsSession(r) == Revoking(r) \/ r.state = NativeSessionStateFor(r)

(* A held signal never outlives what made it legal: it is set only in the  *)
(* opening and, outside the teardown, only with the gate open.             *)
HeldOnlyInOpenGate(r) ==
  r.held => /\ r.kind = "amiga_opening"
            /\ ~r.suppressed \/ Revoking(r)

(* A scheduler exists only beside an Amiga session, never in the teardown. *)
SchedulerHasSession(r) == r.runner # "none" => ~Revoking(r) /\ r.kind \in AmigaKinds

RuntimeInv(r) ==
  /\ r \in RuntimeType
  /\ OwnedByOneRelease(r)
  /\ StateFollowsSession(r)
  /\ HeldOnlyInOpenGate(r)
  /\ SchedulerHasSession(r)
=============================================================================

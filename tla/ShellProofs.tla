------------------------------ MODULE ShellProofs ------------------------------
(***************************************************************************)
(* The event loop composes host calls: it suppresses input, revokes and    *)
(* launches inside one event, over whatever the cards, the scanner and the *)
(* dialogs did before.  For every set of releases, buttons and dialogs,    *)
(* these sequences keep the runtime consistent and leave nothing presented *)
(* that does not belong to the live session.                               *)
(***************************************************************************)
EXTENDS Shell, OpsProofs

(* What the loop's lambdas keep about their state.                         *)
FrontOK(f) ==
  /\ f = [runtime |-> f.runtime, presented |-> f.presented, typing |-> f.typing,
          pack |-> f.pack]
  /\ RuntimeInv(f.runtime)
  /\ f.presented # NoRelease => f.presented = f.runtime.active

----------------------------------------------------------------------------
(* The lambdas *)

(* A runtime that keeps its release may replace the one in front.          *)
LEMMA ReplaceRuntime ==
  ASSUME NEW f, FrontOK(f), NEW r, RuntimeInv(r), r.active = f.runtime.active
  PROVE  FrontOK([f EXCEPT !.runtime = r])
  BY DEF FrontOK

LEMMA SetTyping ==
  ASSUME NEW f, FrontOK(f), NEW typing
  PROVE  FrontOK([f EXCEPT !.typing = typing])
  BY DEF FrontOK

LEMMA ReplaceTyping ==
  ASSUME NEW f, FrontOK(f), NEW r, RuntimeInv(r), r.active = f.runtime.active, NEW typing
  PROVE  FrontOK([f EXCEPT !.runtime = r, !.typing = typing])
  <1> DEFINE g == [f EXCEPT !.runtime = r]
  <1>1. FrontOK(g)
    BY ReplaceRuntime
  <1>2. [f EXCEPT !.runtime = r, !.typing = typing] = [g EXCEPT !.typing = typing]
    OBVIOUS
  <1> HIDE DEF g
  <1> QED BY <1>1, <1>2, SetTyping

LEMMA SetPresented ==
  ASSUME NEW f, FrontOK(f), NEW presented, presented = f.runtime.active
  PROVE  FrontOK([f EXCEPT !.presented = presented])
  <1> DEFINE g == [f EXCEPT !.presented = presented]
  <1>1. /\ g = [runtime |-> g.runtime, presented |-> g.presented, typing |-> g.typing,
                pack |-> g.pack]
        /\ g.runtime = f.runtime /\ g.presented = presented
    BY DEF FrontOK
  <1> HIDE DEF g
  <1> QED BY <1>1 DEF FrontOK

LEMMA ReplacePresented ==
  ASSUME NEW f, FrontOK(f), NEW r, RuntimeInv(r), r.active = f.runtime.active
  PROVE  FrontOK([f EXCEPT !.runtime = r, !.presented = f.runtime.active])
  <1> DEFINE g == [f EXCEPT !.runtime = r]
  <1>1. FrontOK(g) /\ g.runtime.active = f.runtime.active
    BY ReplaceRuntime DEF FrontOK
  <1>2. [f EXCEPT !.runtime = r, !.presented = f.runtime.active] =
          [g EXCEPT !.presented = f.runtime.active]
    OBVIOUS
  <1> HIDE DEF g
  <1> QED BY <1>1, <1>2, SetPresented

LEMMA ForgetGeneration ==
  ASSUME NEW r, RuntimeInv(r)
  PROVE  RuntimeInv([r EXCEPT !.generation = 0])
  BY DEF RuntimeInv, RuntimeType, OwnedByOneRelease, OwnedBy, EmptyCoordinator,
         StateFollowsSession, NativeSessionStateFor, HeldOnlyInOpenGate,
         SchedulerHasSession, Revoking

LEMMA SuppressInFront ==
  ASSUME NEW f, FrontOK(f), NEW suppressed \in BOOLEAN
  PROVE  FrontOK([f EXCEPT !.runtime = SetInputSuppressed(@, suppressed)])
  <1>1. RuntimeInv(f.runtime)
    BY DEF FrontOK
  <1>2. RuntimeInv(SetInputSuppressed(f.runtime, suppressed))
    BY <1>1, SetInputSuppressedInv
  <1>3. SetInputSuppressed(f.runtime, suppressed).active = f.runtime.active
    BY <1>1, SetInputSuppressedKeeps DEF Keeps
  <1> QED BY <1>2, <1>3, ReplaceRuntime

LEMMA ResetDeuterosRuntimeOK ==
  ASSUME NEW f, FrontOK(f)
  PROVE  FrontOK(ResetDeuterosRuntime(f)) /\ ResetDeuterosRuntime(f).presented = NoRelease
  <1> DEFINE q == [f EXCEPT !.runtime = SetInputSuppressed(@, TRUE)]
  <1>1. FrontOK(q)
    BY SuppressInFront
  <1>2. ResetDeuterosRuntime(f) = [q EXCEPT !.presented = NoRelease]
    BY DEF ResetDeuterosRuntime, FrontOK
  <1> HIDE DEF q
  <1> QED BY <1>1, <1>2 DEF FrontOK

LEMMA SetPack ==
  ASSUME NEW f, FrontOK(f), NEW pack
  PROVE  /\ FrontOK([f EXCEPT !.pack = pack])
         /\ [f EXCEPT !.pack = pack].presented = f.presented
         /\ [f EXCEPT !.pack = pack].runtime = f.runtime
  BY DEF FrontOK

(* The full reset leaves nothing presented, whatever it starts from.       *)
LEMMA ResetActiveRuntimeOK ==
  ASSUME NEW f, FrontOK(f)
  PROVE  FrontOK(ResetActiveRuntime(f)) /\ ResetActiveRuntime(f).presented = NoRelease
  <1> DEFINE quiet    == ResetDeuterosRuntime([f EXCEPT !.typing = FALSE])
             finished == FinishSourceRevocation(BeginSourceRevocation(quiet.runtime))
  <1>1. FrontOK(quiet) /\ quiet.presented = NoRelease
    BY SetTyping, ResetDeuterosRuntimeOK
  <1>2. ResetActiveRuntime(f) = [quiet EXCEPT !.runtime = [finished EXCEPT !.generation = 0]]
    BY DEF ResetActiveRuntime
  <1> HIDE DEF quiet
  <1>3. RuntimeInv(quiet.runtime)
    BY <1>1 DEF FrontOK
  <1>4. RuntimeInv(finished)
    BY <1>3, BeginSourceRevocationInv, FinishSourceRevocationInv
  <1> HIDE DEF finished
  <1>5. RuntimeInv([finished EXCEPT !.generation = 0])
    BY <1>4, ForgetGeneration
  <1> QED BY <1>1, <1>2, <1>5 DEF FrontOK

LEMMA ApplyLauncherNavigationOK ==
  ASSUME NEW f, FrontOK(f), NEW before, NEW after
  PROVE  FrontOK(ApplyLauncherNavigation(f, before, after))
  <1> DEFINE cleared == ClearModernPackAdmission(f)
  <1>1. FrontOK(cleared)
    BY SetPack DEF ClearModernPackAdmission
  <1>2. \/ ApplyLauncherNavigation(f, before, after) = f
        \/ ApplyLauncherNavigation(f, before, after) = cleared
        \/ ApplyLauncherNavigation(f, before, after) = ResetActiveRuntime(cleared)
    BY DEF ApplyLauncherNavigation
  <1> HIDE DEF cleared
  <1>3. FrontOK(ResetActiveRuntime(cleared))
    BY <1>1, ResetActiveRuntimeOK
  <1> QED BY <1>1, <1>2, <1>3

(* A request resolves to a release that was found, or to none.             *)
LEMMA ResolveLaunchRange ==
  ASSUME NEW l, found \subseteq Release
  PROVE  ResolveLaunch(l, found) \in Release \cup {NoRelease}
  BY DEF ResolveLaunch, Resolve, Identities, NoRelease, NoRelease

LEMMA LaunchedOK ==
  ASSUME NEW f, FrontOK(f), found \subseteq Release, NEW l,
         NEW outcome \in AcquireOutcomes, NEW valid \in BOOLEAN, NEW starts \in BOOLEAN
  PROVE  FrontOK(Launched(f, l, outcome, valid, starts))
  <1> DEFINE reset    == ResetActiveRuntime(f)
             rel      == ResolveLaunch(l, found)
             admitted == [reset EXCEPT !.runtime = Launch(@, rel, outcome)]
             packed   == IF l.presentation = "modern" /\ admitted.pack.release # NoRelease
                         THEN AdmitModernPack(admitted, admitted.runtime.active, valid)
                         ELSE admitted
  <1>1. FrontOK(reset) /\ reset.presented = NoRelease /\ RuntimeInv(reset.runtime)
    BY ResetActiveRuntimeOK DEF FrontOK
  <1>2. rel \in Release \cup {NoRelease}
    BY ResolveLaunchRange
  <1>3. Launched(f, l, outcome, valid, starts) =
          IF admitted.runtime.active = NoRelease THEN admitted
          ELSE IF l.game = "deuteros" THEN StartDeuteros(packed)
          ELSE StartMillenniumTitle(packed, starts)
    BY DEF Launched
  <1> HIDE DEF reset, rel
  <1>4. RuntimeInv(Launch(reset.runtime, rel, outcome))
    BY <1>1, <1>2, LaunchInv
  <1>5. FrontOK(admitted) /\ admitted.presented = NoRelease
    BY <1>1, <1>4 DEF FrontOK
  <1> HIDE DEF admitted
  <1>6. FrontOK(packed) /\ packed.presented = NoRelease /\ RuntimeInv(packed.runtime)
    BY <1>5, SetPack DEF AdmitModernPack, FrontOK
  <1> HIDE DEF packed
  <1>7. FrontOK(StartMillenniumTitle(packed, starts))
    <2> DEFINE asks == packed.runtime.kind = "dos_title" /\ starts
    <2>1. StartMillenniumTitle(packed, starts) =
            [packed EXCEPT !.presented = packed.runtime.active, !.typing = asks]
      BY DEF StartMillenniumTitle
    <2> HIDE DEF asks
    <2> QED BY <1>6, <2>1 DEF FrontOK
  <1>8. FrontOK(StartDeuteros(packed))
    <2> DEFINE quiet == ResetDeuterosRuntime([packed EXCEPT !.typing = FALSE])
    <2>0. FrontOK([packed EXCEPT !.typing = FALSE])
      BY <1>6, SetTyping
    <2>1. FrontOK(quiet) /\ RuntimeInv(quiet.runtime)
      <3>1. FrontOK(quiet)
        BY <2>0, ResetDeuterosRuntimeOK
      <3> HIDE DEF quiet
      <3> QED BY <3>1 DEF FrontOK
    <2>2. quiet.runtime = SetInputSuppressed(packed.runtime, TRUE)
      BY <1>6 DEF ResetDeuterosRuntime, FrontOK
    <2>3. quiet.runtime.active = packed.runtime.active
      BY <1>6, <2>2, SetInputSuppressedKeeps DEF Keeps
    <2>4. StartDeuteros(packed) =
            [quiet EXCEPT !.presented = packed.runtime.active,
                          !.runtime = HostAdvance(@, "not_due")]
      BY DEF StartDeuteros
    <2> HIDE DEF quiet
    <2>5. /\ RuntimeInv(HostAdvance(quiet.runtime, "not_due"))
          /\ HostAdvance(quiet.runtime, "not_due").active = quiet.runtime.active
      BY <2>1, HostAdvanceInv, HostAdvanceKeeps DEF Keeps, TickOutcomes
    <2> QED BY <2>1, <2>3, <2>4, <2>5 DEF FrontOK
  <1> QED BY <1>3, <1>5, <1>7, <1>8

(* One observation of the recovered input, through the gate.               *)
LEMMA ObserveInFront ==
  ASSUME NEW f, FrontOK(f), NEW obs \in Observations, NEW succeeds \in BOOLEAN
  PROVE  /\ RuntimeInv(HostObserve(f.runtime, obs, succeeds).runtime)
         /\ HostObserve(f.runtime, obs, succeeds).runtime.active = f.runtime.active
         /\ FrontOK([f EXCEPT !.runtime = HostObserve(@, obs, succeeds).runtime])
  <1>1. RuntimeInv(f.runtime)
    BY DEF FrontOK
  <1>2. /\ RuntimeInv(HostObserve(f.runtime, obs, succeeds).runtime)
        /\ HostObserve(f.runtime, obs, succeeds).runtime.active = f.runtime.active
    BY <1>1, HostObserveInv, HostObserveKeeps DEF Keeps
  <1> QED BY <1>2, ReplaceRuntime

LEMMA ForwardOK ==
  ASSUME NEW f, FrontOK(f), NEW device, NEW obs \in Observations
  PROVE  FrontOK(Forward(f, device, obs))
  BY ObserveInFront DEF Forward

----------------------------------------------------------------------------
(* What the loop owes the cards.  The strengthened invariant adds that no  *)
(* teardown is left half done between two events, and why a fire button    *)
(* read in the title is one that is down: until the settings have been     *)
(* open over it, a fresh opening hears nothing and gets nowhere.           *)

FrontFor(f, l, shown) ==
  /\ FrontOK(f)
  /\ ~Revoking(f.runtime)
  /\ f.typing \in BOOLEAN
  /\ f.pack \in [admission : {"unselected", "ready", "rejected"},
                 release   : Release \cup {NoRelease}]
  /\ f.runtime.active # NoRelease => shown = "launching" /\ f.runtime.active = Source(l)
  /\ f.typing => /\ shown = "launching" /\ l.game = "millennium"
                 /\ f.runtime.kind = "dos_title"
  /\ f.pack.release # NoRelease => f.pack.release = Source(l)
  /\ (f.pack.admission = "ready") <=> (f.pack.release # NoRelease)

(* An opening that was not heard yet.                                      *)
Unheard(r) == r.suppressed /\ r.kind = "amiga_opening" /\ r.opening = "running"

GateOK(r, open, l, buttons) ==
  r.active # NoRelease =>
    /\ open => r.suppressed /\ (l.game = "deuteros" => buttons.recorded = {})
    /\ r.kind \in AmigaKinds => Unheard(r) \/ buttons.recorded \subseteq buttons.pressed

LoopInv ==
  /\ FrontFor(front, launcher, screen)
  /\ GateOK(runtime, settings, launcher, fire)
  /\ CardsOK(launcher, found) /\ FocusOK(launcher, found) /\ found \subseteq Release
  /\ scanning \in BOOLEAN /\ settings \in BOOLEAN
  /\ screen \in {"menu", "launching"} /\ requested \in {"original", "modern"}
  /\ dialogs \in DialogsType
  /\ fire = [pressed |-> fire.pressed, recorded |-> fire.recorded]
  /\ fire.pressed \subseteq Devices /\ fire.recorded \subseteq Devices

----------------------------------------------------------------------------
(* The host calls, on what the loop compares                               *)

LEMMA SynchronizeState ==
  ASSUME NEW r \in RuntimeType
  PROVE  LET q == SynchronizeAfterRuntimeChange(r) IN
         /\ q.kind = r.kind /\ q.opening = r.opening /\ q.suppressed = r.suppressed
         /\ q.held = r.held
  BY DEF SynchronizeAfterRuntimeChange, RuntimeType

(* The held signal moves nothing but itself.                               *)
LEMMA HoldFacts ==
  ASSUME NEW r, RuntimeInv(r), NEW obs \in {"held", "released"}
  PROVE  LET q == ControllerObserve(r, obs, TRUE).runtime IN
         q.kind = r.kind /\ q.opening = r.opening /\ q.suppressed = r.suppressed
  <1> DEFINE seen == CoordinatorObserve(r, obs, TRUE).runtime
  <1>1. r \in RuntimeType
    BY DEF RuntimeInv
  <1>2. seen = r \/ seen = [r EXCEPT !.held = (obs = "held")]
    BY DEF CoordinatorObserve
  <1> HIDE DEF seen
  <1>3. /\ seen \in RuntimeType /\ seen.kind = r.kind /\ seen.opening = r.opening
        /\ seen.suppressed = r.suppressed
    BY <1>1, <1>2 DEF RuntimeType
  <1>4. ControllerObserve(r, obs, TRUE).runtime \in {r, SynchronizeAfterRuntimeChange(seen)}
    BY DEF ControllerObserve, seen
  <1> QED BY <1>3, <1>4, SynchronizeState

LEMMA HostHoldFacts ==
  ASSUME NEW r, RuntimeInv(r), NEW obs \in {"held", "released"}
  PROVE  LET q == HostObserve(r, obs, TRUE).runtime IN
         q.kind = r.kind /\ q.opening = r.opening /\ q.suppressed = r.suppressed
  BY HoldFacts DEF HostObserve

LEMMA SuppressFacts ==
  ASSUME NEW r, RuntimeInv(r), NEW suppressed \in BOOLEAN
  PROVE  LET q == SetInputSuppressed(r, suppressed) IN
         q.kind = r.kind /\ q.opening = r.opening /\ q.suppressed = suppressed
  <1> DEFINE quiet == IF suppressed THEN ControllerObserve(r, "released", TRUE).runtime ELSE r
  <1>1. quiet.kind = r.kind /\ quiet.opening = r.opening
    BY HoldFacts
  <1>2. quiet \in RuntimeType
    BY ControllerObserveInv DEF Observations, RuntimeInv
  <1>3. \/ SetInputSuppressed(r, suppressed) = r /\ suppressed = r.suppressed
        \/ SetInputSuppressed(r, suppressed) = [quiet EXCEPT !.suppressed = suppressed]
    BY DEF SetInputSuppressed
  <1> HIDE DEF quiet
  <1>4. LET q == [quiet EXCEPT !.suppressed = suppressed] IN
        q.kind = quiet.kind /\ q.opening = quiet.opening /\ q.suppressed = suppressed
    BY <1>2 DEF RuntimeType
  <1> QED BY <1>1, <1>3, <1>4

(* A character leaves the session asking, or reaches its boundary.         *)
LEMMA TypeFacts ==
  ASSUME NEW r, RuntimeInv(r), r.kind = "dos_title",
         NEW obs \in {"ascii_choice", "ascii_other"}, NEW succeeds \in BOOLEAN
  PROVE  LET seen == HostObserve(r, obs, succeeds) IN
         /\ seen.runtime.suppressed = r.suppressed
         /\ seen.disposition # "boundary_reached" => seen.runtime.kind = "dos_title"
  <1> DEFINE seen == CoordinatorObserve(r, obs, succeeds)
  <1>1. r \in RuntimeType
    BY DEF RuntimeInv
  <1>2. \/ seen.runtime = r
        \/ seen.runtime = [r EXCEPT !.sound = "chosen"]
        \/ /\ seen.runtime = [r EXCEPT !.sound = "chosen", !.driver = "awaiting_stack",
                                        !.kind = "dos_sound_driver_boundary"]
           /\ seen.disposition = "boundary_reached"
    BY DEF CoordinatorObserve, ChooseSound
  <1> HIDE DEF seen
  <1>3. /\ seen.runtime \in RuntimeType /\ seen.runtime.suppressed = r.suppressed
        /\ seen.disposition # "boundary_reached" => seen.runtime.kind = "dos_title"
    BY <1>1, <1>2 DEF RuntimeType, SessionKinds
  <1>4. \/ HostObserve(r, obs, succeeds).runtime = r
        \/ HostObserve(r, obs, succeeds) =
             [runtime |-> SynchronizeAfterRuntimeChange(seen.runtime),
              disposition |-> seen.disposition]
    BY DEF HostObserve, ControllerObserve, seen
  <1> QED BY <1>3, <1>4, SynchronizeState

LEMMA DriveFacts ==
  ASSUME NEW r, RuntimeInv(r)
  PROVE  LET q == HostDrive(r) IN
         /\ q.suppressed = r.suppressed
         /\ r.kind \in {"dos_title", "amiga_opening"} => q.kind = r.kind
         /\ q.opening = r.opening
  <1> DEFINE d == CoordinatorDrive(r)
  <1>1. r \in RuntimeType
    BY DEF RuntimeInv
  <1>2. \/ d = r
        \/ /\ d = [r EXCEPT !.driver = "done", !.title = "waiting", !.kind = "dos_title"]
           /\ r.kind = "dos_sound_driver_boundary"
        \/ /\ d = [r EXCEPT !.kind = "amiga_title_stage"]
           /\ r.kind = "amiga_title_program_entry"
    BY DEF CoordinatorDrive
  <1> HIDE DEF d
  <1>3. /\ d \in RuntimeType /\ d.suppressed = r.suppressed /\ d.opening = r.opening
        /\ r.kind \in {"dos_title", "amiga_opening"} => d.kind = r.kind
    BY <1>1, <1>2 DEF RuntimeType, SessionKinds
  <1>4. HostDrive(r) \in {r, SynchronizeAfterRuntimeChange(d)}
    BY DEF HostDrive, DriveActive, d
  <1> QED BY <1>3, <1>4, SynchronizeState

(* An opening that hears nothing goes on running.                          *)
LEMMA AdvanceFacts ==
  ASSUME NEW r, RuntimeInv(r), ~Revoking(r), NEW outcome \in TickOutcomes
  PROVE  LET q == HostAdvance(r, outcome) IN
         q.suppressed = r.suppressed /\ (Unheard(r) => Unheard(q))
  <1> DEFINE t == CoordinatorTick(r, outcome)
             s == SynchronizeAfterRuntimeChange(t)
  <1>1. r \in RuntimeType /\ (Unheard(r) => ~r.held)
    BY DEF RuntimeInv, HeldOnlyInOpenGate, Unheard
  <1>2. \/ t = r
        \/ /\ r.held \/ r.opening # "running"
           /\ \/ t = [r EXCEPT !.opening = "handed_off", !.kind = "amiga_title_program_entry",
                                !.held = FALSE]
              \/ t = [r EXCEPT !.opening = "handed_off"]
              \/ t = [r EXCEPT !.opening = "accepted"]
    BY DEF CoordinatorTick, TitleReached
  <1>3. \/ HostAdvance(r, outcome) = r
        \/ HostAdvance(r, outcome) = [r EXCEPT !.runner = "running"]
        \/ HostAdvance(r, outcome) = [s EXCEPT !.runner = "stopped"]
        \/ HostAdvance(r, outcome) = [s EXCEPT !.runner = s.runner]
    BY DEF HostAdvance, AdvanceScheduler
  <1> HIDE DEF t
  <1>4. t \in RuntimeType /\ t.suppressed = r.suppressed /\ (Unheard(r) => Unheard(t))
    BY <1>1, <1>2 DEF RuntimeType, SessionKinds, Unheard
  <1>5. s.suppressed = r.suppressed /\ (Unheard(r) => Unheard(s))
    BY <1>4, SynchronizeState DEF Unheard
  <1>6. s \in RuntimeType
    BY <1>4, SynchronizeState DEF SynchronizeAfterRuntimeChange, RuntimeType, States,
       NativeSessionStateFor, NoSession
  <1> HIDE DEF s
  <1>7. ASSUME NEW runner
        PROVE  LET q == [s EXCEPT !.runner = runner] IN
               q.suppressed = s.suppressed /\ (Unheard(s) => Unheard(q))
    BY <1>6 DEF RuntimeType, Unheard
  <1>8. LET q == [r EXCEPT !.runner = "running"] IN
        q.suppressed = r.suppressed /\ (Unheard(r) => Unheard(q))
    BY <1>1 DEF RuntimeType, Unheard
  <1> QED BY <1>3, <1>5, <1>7, <1>8

----------------------------------------------------------------------------
(* The lambdas, on what the loop owes the cards                            *)

LEMMA SourceOf ==
  ASSUME NEW l, Source(l) # NoRelease
  PROVE  Source(l) = l.sha /\ l.game = GameOf[l.sha]
  BY DEF Source, SourceIdentity

LEMMA SameSource ==
  ASSUME NEW l, NEW m, SourceIdentity(l) = SourceIdentity(m)
  PROVE  Source(l) = Source(m) /\ l.game = m.game
  <1>1. l.game = m.game /\ l.sha = m.sha
    BY DEF SourceIdentity
  <1> QED BY <1>1 DEF Source

LEMMA AmigaShown ==
  ASSUME NEW r, RuntimeInv(r), r.active # NoRelease, NEW l, r.active = Source(l),
         r.kind \in AmigaKinds
  PROVE  l.game = "deuteros"
  <1>1. r.active \in Release /\ AdapterOf[r.active] = "deuteros_amiga"
    BY DEF RuntimeInv, OwnedByOneRelease, OwnedBy, EmptyCoordinator
  <1>2. GameOf[r.active] = "deuteros"
    BY <1>1, OpeningAssumption
  <1> QED BY <1>2, SourceOf

(* A session keeps its adapter, so its kinds stay on one machine.          *)
LEMMA KindsStay ==
  ASSUME NEW r, NEW q, RuntimeInv(r), RuntimeInv(q), q.active = r.active, r.active # NoRelease
  PROVE  q.kind \in AmigaKinds <=> r.kind \in AmigaKinds
  BY DEF RuntimeInv, OwnedByOneRelease, OwnedBy, EmptyCoordinator

LEMMA FrontFields ==
  ASSUME NEW f, f = [runtime |-> f.runtime, presented |-> f.presented, typing |-> f.typing,
                     pack |-> f.pack],
         NEW r
  PROVE  [f EXCEPT !.runtime = r] =
           [f EXCEPT !.runtime = r, !.typing = f.typing, !.presented = f.presented]
  OBVIOUS

(* A host call that keeps the session, and what it may change beside it.   *)
LEMMA FrontKeeps ==
  ASSUME NEW f, NEW l, NEW shown, FrontFor(f, l, shown), NEW r, RuntimeInv(r),
         Keeps(f.runtime, r), NEW typing \in BOOLEAN, typing => f.typing /\ r.kind = "dos_title",
         NEW presented, presented # NoRelease => presented = f.runtime.active
  PROVE  FrontFor([f EXCEPT !.runtime = r, !.typing = typing, !.presented = presented], l, shown)
  <1> DEFINE q == [f EXCEPT !.runtime = r, !.typing = typing, !.presented = presented]
  <1>0. f = [runtime |-> f.runtime, presented |-> f.presented, typing |-> f.typing,
             pack |-> f.pack]
    BY DEF FrontFor, FrontOK
  <1>1. q = [runtime |-> r, presented |-> presented, typing |-> typing, pack |-> f.pack]
    <2> DEFINE a == [f EXCEPT !.runtime = r]
               b == [a EXCEPT !.typing = typing]
               c == [b EXCEPT !.presented = presented]
    <2>1. a = [runtime |-> r, presented |-> f.presented, typing |-> f.typing, pack |-> f.pack]
      BY <1>0
    <2>2. q = c
      OBVIOUS
    <2> HIDE DEF a, q
    <2>3. b = [runtime |-> r, presented |-> f.presented, typing |-> typing, pack |-> f.pack]
      BY <2>1
    <2> HIDE DEF b
    <2> QED BY <2>2, <2>3
  <1> HIDE DEF q
  <1>a. q.runtime = r /\ q.presented = presented /\ q.typing = typing /\ q.pack = f.pack
    BY <1>1
  <1>2. r.active = f.runtime.active /\ ~Revoking(r)
    BY DEF Keeps, FrontFor
  <1>3. FrontOK(q)
    BY <1>1, <1>a, <1>2 DEF FrontOK
  <1>4. FrontFor(q, l, shown)
    BY <1>a, <1>2, <1>3 DEF FrontFor
  <1> QED BY <1>4 DEF q

LEMMA RuntimeKeeps ==
  ASSUME NEW f, NEW l, NEW shown, FrontFor(f, l, shown), NEW r, RuntimeInv(r),
         Keeps(f.runtime, r), f.typing => r.kind = "dos_title"
  PROVE  FrontFor([f EXCEPT !.runtime = r], l, shown)
  <1> DEFINE q == [f EXCEPT !.runtime = r, !.typing = f.typing, !.presented = f.presented]
  <1>0. f = [runtime |-> f.runtime, presented |-> f.presented, typing |-> f.typing,
             pack |-> f.pack]
    BY DEF FrontFor, FrontOK
  <1>1. [f EXCEPT !.runtime = r] = q
    BY <1>0, FrontFields, Zenon
  <1>2. f.typing \in BOOLEAN /\ (f.presented # NoRelease => f.presented = f.runtime.active)
    BY DEF FrontFor, FrontOK
  <1>3. FrontFor(q, l, shown)
    BY <1>2, FrontKeeps
  <1> QED BY <1>1, <1>3

LEMMA EmptyRuntime ==
  ASSUME NEW r, RuntimeInv(r), r.active = NoRelease
  PROVE  r.kind = NoSession /\ r.kind \notin AmigaKinds \cup {"dos_title"}
  BY ReleaseIsNone DEF RuntimeInv, OwnedByOneRelease, EmptyCoordinator, NoSession, AmigaKinds

(* The full reset leaves an idle runtime and the pack as it was.           *)
LEMMA ResetFacts ==
  ASSUME NEW f, FrontOK(f)
  PROVE  LET q == ResetActiveRuntime(f) IN
         /\ FrontOK(q) /\ q.typing = FALSE /\ q.pack = f.pack /\ q.presented = NoRelease
         /\ q.runtime.active = NoRelease /\ ~Revoking(q.runtime)
  <1> DEFINE quiet    == ResetDeuterosRuntime([f EXCEPT !.typing = FALSE])
             begun    == BeginSourceRevocation(quiet.runtime)
             finished == FinishSourceRevocation(begun)
             next     == ResetActiveRuntime(f)
  <1>1. FrontOK(quiet) /\ quiet.pack = f.pack /\ quiet.typing = FALSE
    <2>1. FrontOK([f EXCEPT !.typing = FALSE])
      BY SetTyping
    <2>2. FrontOK(quiet)
      BY <2>1, ResetDeuterosRuntimeOK
    <2>3. quiet.pack = f.pack /\ quiet.typing = FALSE
      BY DEF ResetDeuterosRuntime, FrontOK
    <2> QED BY <2>2, <2>3
  <1>2. next = [quiet EXCEPT !.runtime = [finished EXCEPT !.generation = 0]]
    BY DEF ResetActiveRuntime
  <1>3. RuntimeInv(quiet.runtime)
    BY <1>1 DEF FrontOK
  <1> HIDE DEF quiet
  <1>4. RuntimeInv(begun) /\ begun \in RuntimeType /\ Revoking(begun)
    <2>1. RuntimeInv(begun)
      BY <1>3, BeginSourceRevocationInv
    <2>2. Revoking(begun)
      BY <1>3 DEF BeginSourceRevocation, BeginReturnToMenu, Revoking, RuntimeInv, RuntimeType
    <2> QED BY <2>1, <2>2 DEF RuntimeInv
  <1> HIDE DEF begun
  <1>5. finished = [ResetCoordinator([begun EXCEPT !.suppressed = FALSE]) EXCEPT !.state = "menu"]
    BY <1>4 DEF FinishSourceRevocation, FinishReturnToMenu, Revoking, RuntimeType
  <1>6. RuntimeInv(finished)
    BY <1>4, FinishSourceRevocationInv
  <1>7. finished.active = NoRelease /\ finished.state = "menu"
    <2> DEFINE open == [begun EXCEPT !.suppressed = FALSE]
               empty == ResetCoordinator(open)
    <2>1. open \in RuntimeType
      BY <1>4 DEF RuntimeType
    <2> HIDE DEF open
    <2>2. empty \in RuntimeType /\ EmptyCoordinator(empty)
      BY <2>1, ResetCoordinatorEmpties
    <2>3. finished = [empty EXCEPT !.state = "menu"]
      BY <1>5 DEF open
    <2> HIDE DEF empty, finished
    <2> QED BY <2>2, <2>3 DEF RuntimeType, EmptyCoordinator
  <1> HIDE DEF finished
  <1>8. LET g == [finished EXCEPT !.generation = 0] IN g.active = NoRelease /\ g.state = "menu"
    BY <1>6, <1>7 DEF RuntimeInv, RuntimeType
  <1>9. next.runtime = [finished EXCEPT !.generation = 0] /\ next.pack = f.pack /\ next.typing = FALSE
    BY <1>1, <1>2 DEF FrontOK
  <1>10. FrontOK(next) /\ next.presented = NoRelease
    BY ResetActiveRuntimeOK
  <1> HIDE DEF next
  <1>11. next.runtime.active = NoRelease /\ ~Revoking(next.runtime)
    BY <1>8, <1>9 DEF Revoking
  <1> QED BY <1>9, <1>10, <1>11 DEF next

(* A navigation keeps the session of the identity it keeps, and leaves no  *)
(* session, or that of the new one, behind it.                             *)
LEMMA NavigationFacts ==
  ASSUME NEW f, NEW before, NEW after, NEW shown, FrontFor(f, before, shown),
         shown = "launching" => after.game = before.game
  PROVE  LET q == ApplyLauncherNavigation(f, before, after) IN
         /\ FrontFor(q, after, shown)
         /\ \/ q.runtime = f.runtime
            \/ /\ q.runtime.active = NoRelease
               /\ f.runtime.active # NoRelease => Source(after) # Source(before)
  <1> DEFINE next    == ApplyLauncherNavigation(f, before, after)
             cleared == ClearModernPackAdmission(f)
  <1>1. CASE SourceIdentity(before) = SourceIdentity(after)
    <2>1. next = f
      BY <1>1 DEF ApplyLauncherNavigation
    <2>2. Source(before) = Source(after) /\ before.game = after.game
      BY <1>1, SameSource
    <2> HIDE DEF next
    <2>3. FrontFor(next, after, shown)
      BY <2>1, <2>2 DEF FrontFor
    <2> QED BY <2>1, <2>3 DEF next
  <1>2. CASE SourceIdentity(before) # SourceIdentity(after)
    <2>1. /\ cleared = [runtime |-> f.runtime, presented |-> f.presented, typing |-> f.typing,
                        pack |-> NoPack]
          /\ cleared.runtime = f.runtime /\ cleared.pack = NoPack /\ cleared.typing = f.typing
      BY DEF ClearModernPackAdmission, FrontFor, FrontOK
    <2>2. FrontOK(cleared)
      BY SetPack DEF ClearModernPackAdmission, FrontFor
    <2>3. next = IF RequiresRevocationFor(cleared.runtime, Source(after))
                 THEN ResetActiveRuntime(cleared) ELSE cleared
      BY <1>2 DEF ApplyLauncherNavigation
    <2> HIDE DEF cleared, next
    <2>4. CASE RequiresRevocationFor(cleared.runtime, Source(after))
      <3> DEFINE reset == ResetActiveRuntime(cleared)
      <3>1. /\ FrontOK(reset) /\ reset.typing = FALSE /\ reset.pack = NoPack
            /\ reset.runtime.active = NoRelease /\ ~Revoking(reset.runtime)
        BY <2>1, <2>2, ResetFacts
      <3>2. next = reset
        BY <2>3, <2>4
      <3>3. f.runtime.active # NoRelease => Source(after) # Source(before)
        BY <2>1, <2>4 DEF RequiresRevocationFor, FrontFor
      <3> HIDE DEF reset
      <3>4. next.typing \in BOOLEAN /\ ~next.typing
        BY <3>1, <3>2
      <3>5. /\ NoPack.admission = "unselected" /\ NoPack.release = NoRelease
            /\ NoPack \in [admission : {"unselected", "ready", "rejected"},
                           release : Release \cup {NoRelease}]
        BY DEF NoPack
      <3>6. FrontFor(next, after, shown)
        BY <3>1, <3>2, <3>4, <3>5 DEF FrontFor
      <3> QED BY <3>1, <3>2, <3>3, <3>6 DEF next
    <2>5. CASE ~RequiresRevocationFor(cleared.runtime, Source(after))
      <3>1. next = cleared
        BY <2>3, <2>5
      <3>2. f.runtime.active # NoRelease => f.runtime.active = Source(after)
        BY <2>1, <2>5 DEF RequiresRevocationFor
      <3>3. f.typing => shown = "launching" /\ after.game = "millennium"
        BY DEF FrontFor
      <3>4. FrontFor(next, after, shown)
        BY <2>1, <2>2, <3>1, <3>2, <3>3 DEF FrontFor, NoPack
      <3> QED BY <2>1, <3>1, <3>4 DEF next
    <2> QED BY <2>4, <2>5
  <1> QED BY <1>1, <1>2

----------------------------------------------------------------------------
(* A launch *)

LEMMA AcquireFacts ==
  ASSUME NEW r \in RuntimeType, NEW rel \in Release, NEW outcome
  PROVE  LET q == Acquire(r, rel, outcome) IN
         /\ q.state = r.state /\ q.active \in {rel, NoRelease}
         /\ q.active # NoRelease /\ q.kind \in AmigaKinds =>
              q.kind = "amiga_opening" /\ q.opening = "running"
  <1> DEFINE clean == ResetCoordinator(r)
             q     == Acquire(r, rel, outcome)
  <1>1. clean \in RuntimeType /\ EmptyCoordinator(clean) /\ clean.state = r.state
    BY ResetCoordinatorEmpties
  <1> HIDE DEF clean
  <1>2. CASE \E why : q = [clean EXCEPT !.admission = why]
    BY <1>1, <1>2 DEF RuntimeType, EmptyCoordinator
  <1>3. CASE ~Refuses(r, rel, outcome) /\ outcome # "archive"
    <2> DEFINE sound   == IF AdapterOf[rel] = "millennium_dos" THEN "awaiting" ELSE "absent"
               opening == IF AdapterOf[rel] = "deuteros_amiga" THEN "running" ELSE "absent"
    <2>1. q = [clean EXCEPT !.active = rel, !.admission = "active",
                            !.kind = InitialKind(rel), !.counter = @ + 1,
                            !.serial = r.counter + 1, !.sound = sound, !.opening = opening]
      BY <1>3 DEF Acquire, clean
    <2> HIDE DEF q
    <2>2. /\ q.state = clean.state /\ q.active = rel /\ q.kind = InitialKind(rel)
          /\ q.opening = opening
      BY <1>1, <2>1 DEF RuntimeType
    <2>3. AdapterOf[rel] # "preservation_only"
      BY <1>3 DEF Refuses
    <2>4. AdapterOf[rel] = "deuteros_amiga" => InitialKind(rel) = "amiga_opening"
      BY DEF InitialKind
    <2>5. q.kind \in AmigaKinds => AdapterOf[rel] = "deuteros_amiga"
      BY <2>2, <2>3, InitialKindOwned
    <2> QED BY <1>1, <2>2, <2>4, <2>5 DEF q
  <1>4. \/ \E why : q = [clean EXCEPT !.admission = why]
        \/ ~Refuses(r, rel, outcome) /\ outcome # "archive"
    BY DEF Acquire, clean
  <1> QED BY <1>2, <1>3, <1>4

LEMMA LaunchFacts ==
  ASSUME NEW r, RuntimeInv(r), ~Revoking(r), NEW rel \in Release \cup {NoRelease},
         NEW outcome \in AcquireOutcomes
  PROVE  LET q == Launch(r, rel, outcome) IN
         /\ ~Revoking(q) /\ q.active \in {rel, NoRelease}
         /\ q.active # NoRelease /\ q.kind \in AmigaKinds =>
              q.kind = "amiga_opening" /\ q.opening = "running"
  <1> DEFINE idle == [r EXCEPT !.runner = "none"]
             seen == AdmitRuntimeLaunch(idle, rel, outcome)
             q    == Launch(r, rel, outcome)
  <1>1. idle \in RuntimeType /\ idle.state = r.state /\ idle.runner = "none"
    BY DEF RuntimeInv, RuntimeType
  <1>2. q = SynchronizeAfterRuntimeChange(seen)
    BY DEF Launch
  <1> HIDE DEF idle, q
  <1>3. /\ seen.state = r.state /\ seen.active \in {rel, NoRelease}
        /\ seen.active # NoRelease /\ seen.kind \in AmigaKinds =>
             seen.kind = "amiga_opening" /\ seen.opening = "running"
        /\ seen \in RuntimeType
    <2>1. CASE rel = NoRelease
      <3>1. seen = ResetCoordinator(idle)
        BY <2>1 DEF AdmitRuntimeLaunch
      <3> QED BY <1>1, <2>1, <3>1, ResetCoordinatorEmpties DEF EmptyCoordinator
    <2>2. CASE rel # NoRelease
      <3>1. seen = Acquire(idle, rel, outcome) /\ rel \in Release
        BY <2>2 DEF AdmitRuntimeLaunch
      <3> QED BY <1>1, <3>1, AcquireFacts, AcquireUnsynchronized DEF Unsynchronized
    <2> QED BY <2>1, <2>2
  <1> HIDE DEF seen
  <1>4. /\ ~Revoking(q) /\ q.active = seen.active /\ q.kind = seen.kind
        /\ q.opening = seen.opening
    <2>1. q = [seen EXCEPT !.state = NativeSessionStateFor(seen)]
      BY <1>2, <1>3 DEF SynchronizeAfterRuntimeChange, Revoking
    <2>2. NativeSessionStateFor(seen) # "returning_to_menu"
      BY <1>3 DEF NativeSessionStateFor, RuntimeType, SessionKinds
    <2> QED BY <2>1, <2>2 DEF Revoking
  <1> QED BY <1>3, <1>4 DEF q

(* A pack is admitted for the release it was checked against.              *)
LEMMA AdmitFacts ==
  ASSUME NEW f, NEW l, NEW shown, FrontFor(f, l, shown), NEW release \in Release, release = Source(l),
         f.pack.release # NoRelease, NEW valid \in BOOLEAN
  PROVE  LET q == AdmitModernPack(f, release, valid) IN
         /\ FrontFor(q, l, shown) /\ q.runtime = f.runtime /\ q.typing = f.typing
         /\ q.presented = f.presented
  <1> DEFINE q == AdmitModernPack(f, release, valid)
             pack == IF valid /\ f.pack.release = release
                     THEN [admission |-> "ready", release |-> release] ELSE RejectedPack
  <1>1. q = [f EXCEPT !.pack = pack]
    BY DEF AdmitModernPack
  <1>2. /\ pack \in [admission : {"unselected", "ready", "rejected"},
                     release   : Release \cup {NoRelease}]
        /\ pack.release # NoRelease => pack.release = release
        /\ (pack.admission = "ready") <=> (pack.release # NoRelease)
    BY ReleaseIsNone DEF RejectedPack
  <1> HIDE DEF pack, q
  <1>3. FrontOK(q) /\ q.runtime = f.runtime /\ q.typing = f.typing /\ q.presented = f.presented
        /\ q.pack = pack
    BY <1>1, SetPack DEF FrontFor, FrontOK
  <1>4. FrontFor(q, l, shown)
    BY <1>2, <1>3 DEF FrontFor
  <1> QED BY <1>3, <1>4 DEF q

(* The two starts of an admitted session.                                  *)
LEMMA StartDeuterosFacts ==
  ASSUME NEW f, NEW l, FrontFor(f, l, "launching"), ~f.typing, f.runtime.active # NoRelease,
         f.runtime.kind \in AmigaKinds =>
           f.runtime.kind = "amiga_opening" /\ f.runtime.opening = "running"
  PROVE  LET q == StartDeuteros(f) IN
         /\ FrontFor(q, l, "launching") /\ q.runtime.active = f.runtime.active
         /\ q.runtime.kind \in AmigaKinds => Unheard(q.runtime)
  <1> DEFINE silent == SetInputSuppressed(f.runtime, TRUE)
             after  == HostAdvance(silent, "not_due")
             q      == StartDeuteros(f)
  <1>0. RuntimeInv(f.runtime) /\ ~Revoking(f.runtime) /\ "not_due" \in TickOutcomes
    BY DEF FrontFor, FrontOK, TickOutcomes
  <1>1. RuntimeInv(silent) /\ Keeps(f.runtime, silent)
    BY <1>0, SetInputSuppressedInv, SetInputSuppressedKeeps DEF Keeps
  <1>2. silent.kind \in AmigaKinds => Unheard(silent)
    BY <1>0, SuppressFacts DEF Unheard
  <1>3. ~Revoking(silent)
    BY <1>0, <1>1 DEF Keeps
  <1> HIDE DEF silent
  <1>4. RuntimeInv(after) /\ Keeps(silent, after) /\ (Unheard(silent) => Unheard(after))
    BY <1>0, <1>1, <1>3, HostAdvanceInv, HostAdvanceKeeps, AdvanceFacts DEF Keeps
  <1> HIDE DEF after
  <1>5. Keeps(f.runtime, after) /\ after.active = f.runtime.active
    BY <1>0, <1>1, <1>3, <1>4 DEF Keeps
  <1>6. after.kind \in AmigaKinds => Unheard(after)
    BY <1>1, <1>2, <1>4, KindsStay DEF Keeps
  <1>7. q = [runtime |-> after, presented |-> f.runtime.active, typing |-> FALSE, pack |-> f.pack]
    <2> DEFINE quiet == [f EXCEPT !.typing = FALSE]
               reset == ResetDeuterosRuntime(quiet)
    <2>1. quiet = [runtime |-> f.runtime, presented |-> f.presented, typing |-> FALSE,
                   pack |-> f.pack]
      BY DEF FrontFor, FrontOK
    <2>2. reset = [runtime |-> silent, presented |-> NoRelease, typing |-> FALSE,
                   pack |-> f.pack]
      <3>1. quiet.runtime = f.runtime /\ quiet.pack = f.pack /\ quiet.typing = FALSE
        BY <2>1
      <3> HIDE DEF quiet
      <3>2. reset = [quiet EXCEPT !.runtime = silent, !.presented = NoRelease]
        BY <3>1 DEF ResetDeuterosRuntime, silent
      <3> HIDE DEF reset
      <3> QED BY <2>1, <3>2
    <2>3. q = [reset EXCEPT !.presented = f.runtime.active, !.runtime = HostAdvance(@, "not_due")]
      BY DEF StartDeuteros
    <2> HIDE DEF q, reset
    <2> QED BY <2>2, <2>3 DEF after
  <1> HIDE DEF q
  <1>8. /\ q.runtime = after /\ q.presented = f.runtime.active /\ q.typing = FALSE
        /\ q.pack = f.pack
    BY <1>7
  <1>9. q.typing \in BOOLEAN /\ ~q.typing
    BY <1>8
  <1>10. FrontOK(q)
    BY <1>4, <1>5, <1>7, <1>8 DEF FrontOK
  <1>11. ~Revoking(after)
    BY <1>3, <1>4 DEF Keeps
  <1>12. FrontFor(q, l, "launching")
    BY <1>5, <1>8, <1>9, <1>10, <1>11 DEF FrontFor
  <1> QED BY <1>5, <1>6, <1>8, <1>12 DEF q

LEMMA StartMillenniumFacts ==
  ASSUME NEW f, NEW l, FrontFor(f, l, "launching"), f.runtime.active # NoRelease,
         l.game = "millennium", NEW starts \in BOOLEAN
  PROVE  LET q == StartMillenniumTitle(f, starts) IN
         FrontFor(q, l, "launching") /\ q.runtime = f.runtime
  <1> DEFINE asks == f.runtime.kind = "dos_title" /\ starts
             q    == StartMillenniumTitle(f, starts)
  <1>1. q = [f EXCEPT !.presented = f.runtime.active, !.typing = asks]
    BY DEF StartMillenniumTitle
  <1>2. asks \in BOOLEAN /\ (asks => f.runtime.kind = "dos_title")
    OBVIOUS
  <1> HIDE DEF asks, q
  <1>3. q = [runtime |-> f.runtime, presented |-> f.runtime.active, typing |-> asks,
             pack |-> f.pack]
    BY <1>1 DEF FrontFor, FrontOK
  <1>4. /\ q.runtime = f.runtime /\ q.presented = f.runtime.active /\ q.typing = asks
        /\ q.pack = f.pack
    BY <1>3
  <1>5. FrontOK(q)
    BY <1>3, <1>4 DEF FrontFor, FrontOK
  <1>6. FrontFor(q, l, "launching")
    BY <1>2, <1>4, <1>5 DEF FrontFor
  <1> QED BY <1>4, <1>6 DEF q

LEMMA SelectionShown ==
  ASSUME NEW l, NEW releases, CardsOK(l, releases), l.sha # NoRelease
  PROVE  Source(l) = l.sha
  BY DEF Source, SourceIdentity, CardsOK, RouteOK, Identities

(* A launch from the cards leaves their release in session, or none.       *)
LEMMA LaunchedFacts ==
  ASSUME NEW f, NEW l, FrontFor(f, l, "menu"), found \subseteq Release, CardsOK(l, found),
         CanLaunch(l), NEW outcome \in AcquireOutcomes, NEW valid \in BOOLEAN,
         NEW starts \in BOOLEAN
  PROVE  LET q == Launched(f, l, outcome, valid, starts) IN
         /\ FrontFor(q, l, IF q.runtime.active = NoRelease THEN "menu" ELSE "launching")
         /\ q.runtime.active # NoRelease /\ q.runtime.kind \in AmigaKinds => Unheard(q.runtime)
  <1> DEFINE reset    == ResetActiveRuntime(f)
             rel      == ResolveLaunch(l, found)
             launched == Launch(reset.runtime, rel, outcome)
             admitted == [reset EXCEPT !.runtime = Launch(@, rel, outcome)]
             packed   == IF l.presentation = "modern" /\ admitted.pack.release # NoRelease
                         THEN AdmitModernPack(admitted, admitted.runtime.active, valid)
                         ELSE admitted
             q        == Launched(f, l, outcome, valid, starts)
  <1>1. rel = Source(l) /\ rel \in Release
    <2>1. rel = l.sha /\ l.sha # NoRelease
      BY LaunchResolves
    <2>2. l.sha \in Release
      BY <2>1 DEF CardsOK, RouteOK, Identities
    <2> QED BY <2>1, <2>2, SelectionShown
  <1>2. /\ FrontOK(reset) /\ reset.typing = FALSE /\ reset.pack = f.pack
        /\ reset.presented = NoRelease /\ reset.runtime.active = NoRelease
        /\ ~Revoking(reset.runtime) /\ RuntimeInv(reset.runtime)
    BY ResetFacts DEF FrontFor, FrontOK
  <1>3. q = IF admitted.runtime.active = NoRelease THEN admitted
            ELSE IF l.game = "deuteros" THEN StartDeuteros(packed)
            ELSE StartMillenniumTitle(packed, starts)
    BY DEF Launched
  <1>4. /\ RuntimeInv(launched) /\ ~Revoking(launched) /\ launched.active \in {rel, NoRelease}
        /\ launched.active # NoRelease /\ launched.kind \in AmigaKinds =>
             launched.kind = "amiga_opening" /\ launched.opening = "running"
    BY <1>1, <1>2, LaunchInv, LaunchFacts
  <1> HIDE DEF reset, rel
  <1>5. admitted = [runtime |-> launched, presented |-> NoRelease, typing |-> FALSE,
                    pack |-> f.pack]
    <2>1. admitted = [reset EXCEPT !.runtime = launched]
      OBVIOUS
    <2> HIDE DEF admitted, launched
    <2> QED BY <1>2, <2>1 DEF FrontOK
  <1> HIDE DEF launched, admitted, q
  <1>6. /\ admitted.runtime = launched /\ admitted.presented = NoRelease
        /\ admitted.pack = f.pack /\ admitted.typing \in BOOLEAN /\ ~admitted.typing
    BY <1>5
  <1>7. FrontOK(admitted)
    BY <1>4, <1>5, <1>6 DEF FrontOK
  <1>8. /\ FrontFor(admitted, l, "launching")
        /\ admitted.runtime.active = NoRelease => FrontFor(admitted, l, "menu")
    BY <1>1, <1>4, <1>6, <1>7 DEF FrontFor
  <1>9. CASE admitted.runtime.active = NoRelease
    BY <1>3, <1>8, <1>9 DEF q
  <1>10. CASE admitted.runtime.active # NoRelease
    <2>1. admitted.runtime.active = Source(l) /\ admitted.runtime.active \in Release
      BY <1>1, <1>4, <1>6, <1>10
    <2>2. /\ FrontFor(packed, l, "launching") /\ packed.runtime = admitted.runtime
          /\ ~packed.typing
      BY <1>6, <1>8, <2>1, AdmitFacts
    <2> HIDE DEF packed
    <2>3. packed.runtime = launched /\ RuntimeInv(launched)
      BY <1>4, <1>6, <2>2
    <2>4. CASE l.game = "deuteros"
      <3> DEFINE s == StartDeuteros(packed)
      <3>1. q = s
        BY <1>3, <1>10, <2>4
      <3>2. /\ FrontFor(s, l, "launching") /\ s.runtime.active = packed.runtime.active
            /\ s.runtime.kind \in AmigaKinds => Unheard(s.runtime)
        BY <1>4, <1>6, <1>10, <2>2, <2>3, StartDeuterosFacts
      <3> HIDE DEF s
      <3>3. q.runtime.active # NoRelease
        BY <1>10, <2>2, <3>1, <3>2
      <3> QED BY <3>1, <3>2, <3>3 DEF q
    <2>5. CASE l.game # "deuteros"
      <3> DEFINE s == StartMillenniumTitle(packed, starts)
      <3>1. q = s
        BY <1>3, <1>10, <2>5
      <3>2. l.game = "millennium"
        BY <2>5 DEF CardsOK, RouteOK, LauncherType, Games
      <3>3. FrontFor(s, l, "launching") /\ s.runtime = packed.runtime
        BY <1>6, <1>10, <2>2, <3>2, StartMillenniumFacts
      <3> HIDE DEF s
      <3>4. q.runtime = launched /\ launched.active # NoRelease /\ launched.active = Source(l)
        BY <1>6, <1>10, <2>1, <2>3, <3>1, <3>3
      <3>5. launched.kind \notin AmigaKinds
        BY <2>3, <2>5, <3>4, AmigaShown
      <3> QED BY <3>1, <3>3, <3>4, <3>5 DEF q
    <2> QED BY <2>4, <2>5
  <1> QED BY <1>9, <1>10

----------------------------------------------------------------------------
(* The steps of the loop *)

LEMMA InitLoop == Init => LoopInv
  <1> SUFFICES ASSUME Init PROVE LoopInv
    OBVIOUS
  <1> DEFINE zero == [page \in Pages |-> 0]
  <1>1. /\ launcher \in LauncherType /\ launcher.page = "games" /\ launcher.game = "millennium"
        /\ launcher.platform = NoPlatform /\ launcher.sha = NoRelease
        /\ launcher.focus = zero
    BY DEF Init, InitLauncher, LauncherType, Pages, Games, NoPlatform, NoLanguage, NoRelease
  <1>2. zero["games"] = 0 /\ zero["profiles"] = 0
    BY DEF Pages
  <1> HIDE DEF zero
  <1>3. GameCards[1] = "millennium"
    BY DEF GameCards
  <1>4. CardsOK(launcher, found)
    BY <1>1, <1>2, <1>3 DEF CardsOK, RouteOK, GameShown, ProfileShown, InitLauncher, Init
  <1>5. CardCount(launcher, found) = 2
    BY <1>1, CountFacts DEF Init
  <1>6. FocusOK(launcher, found)
    BY <1>1, <1>2, <1>5 DEF FocusOK, InPage
  <1>7. /\ front = [runtime |-> InitRuntime, presented |-> NoRelease, typing |-> FALSE,
                    pack |-> NoPack]
        /\ RuntimeInv(InitRuntime) /\ InitRuntime.active = NoRelease
        /\ ~Revoking(InitRuntime)
    BY InitRuntimeInv DEF Init, InitRuntime, Revoking
  <1>8. /\ NoPack.admission = "unselected" /\ NoPack.release = NoRelease
        /\ NoPack \in [admission : {"unselected", "ready", "rejected"},
                       release   : Release \cup {NoRelease}]
    BY DEF NoPack
  <1>9. FrontFor(front, launcher, screen) /\ GateOK(runtime, settings, launcher, fire)
    BY <1>7, <1>8 DEF FrontFor, FrontOK, GateOK, runtime
  <1>10. dialogs \in DialogsType
    BY DEF Init, DialogsType
  <1> QED BY <1>4, <1>6, <1>9, <1>10 DEF LoopInv, Init

(* On the menu nothing of a session is left to lose.                       *)
LEMMA MenuFront ==
  ASSUME NEW f, NEW l, NEW m, FrontFor(f, l, "menu")
  PROVE  LET q == ClearModernPackAdmission(f) IN
         FrontFor(q, m, "menu") /\ q.runtime = f.runtime /\ q.runtime.active = NoRelease
  <1> DEFINE q == ClearModernPackAdmission(f)
  <1>1. FrontOK(q) /\ q.runtime = f.runtime /\ q.typing = f.typing /\ q.pack = NoPack
    BY SetPack DEF ClearModernPackAdmission, FrontFor, FrontOK
  <1>2. f.runtime.active = NoRelease /\ ~f.typing /\ f.typing \in BOOLEAN
    BY DEF FrontFor
  <1>3. /\ NoPack.admission = "unselected" /\ NoPack.release = NoRelease
        /\ NoPack \in [admission : {"unselected", "ready", "rejected"},
                       release   : Release \cup {NoRelease}]
    BY DEF NoPack
  <1> HIDE DEF q
  <1>4. FrontFor(q, m, "menu")
    BY <1>1, <1>2, <1>3 DEF FrontFor
  <1> QED BY <1>1, <1>2, <1>4 DEF q

(* A host call that keeps the gate leaves the loop's part of it alone.     *)
LEMMA GateStays ==
  ASSUME NEW r, NEW q, RuntimeInv(r), RuntimeInv(q), NEW open, NEW l, NEW buttons,
         GateOK(r, open, l, buttons), q.active = r.active, q.suppressed = r.suppressed,
         Unheard(r) => Unheard(q)
  PROVE  GateOK(q, open, l, buttons)
  BY KindsStay DEF GateOK

(* A step that leaves the cards alone.                                     *)
LEMMA KeepCards ==
  ASSUME LoopInv, FrontFor(front', launcher, screen'),
         GateOK(front'.runtime, settings', launcher, fire'),
         UNCHANGED <<launcher, found, scanning, requested, dialogs>>, settings' \in BOOLEAN,
         screen' \in {"menu", "launching"},
         fire' = [pressed |-> fire'.pressed, recorded |-> fire'.recorded],
         fire'.pressed \subseteq Devices, fire'.recorded \subseteq Devices
  PROVE  LoopInv'
  BY DEF LoopInv, runtime

LEMMA ScanLoop ==
  ASSUME LoopInv, Scan
  PROVE  LoopInv'
  <1>1. PICK more \in SUBSET (Release \ found) :
          LET releases == found \cup more
              synced   == Synchronize(launcher, releases)
              applied  == ApplyLauncherNavigation(front, launcher, synced)
          IN  /\ found' = releases
              /\ launcher' = IF screen = "menu" THEN FocusMenuCard(synced, releases) ELSE synced
              /\ front' = IF screen = "menu" THEN ClearModernPackAdmission(applied)
                          ELSE applied
    BY DEF Scan
  <1> DEFINE releases == found \cup more
             synced   == Synchronize(launcher, releases)
             applied  == ApplyLauncherNavigation(front, launcher, synced)
  <1>2. releases \subseteq Release /\ found \subseteq releases
    BY DEF LoopInv
  <1>3. RouteOK(launcher, releases) /\ ProfileShown(launcher) /\ GameShown(launcher)
    BY <1>2, RouteGrows DEF LoopInv, CardsOK
  <1>4. /\ CardsOK(synced, releases) /\ FocusOK(synced, releases)
        /\ NotSubstituted(launcher, synced)
    BY <1>2, <1>3, CardsSynchronized
  <1>5. synced.game = launcher.game
    BY <1>4 DEF NotSubstituted
  <1>6. /\ FrontFor(applied, synced, screen)
        /\ applied.runtime = front.runtime \/ applied.runtime.active = NoRelease
    BY <1>5, NavigationFacts DEF LoopInv
  <1>7. /\ found' = releases
        /\ launcher' = IF screen = "menu" THEN FocusMenuCard(synced, releases) ELSE synced
        /\ front' = IF screen = "menu" THEN ClearModernPackAdmission(applied) ELSE applied
    BY <1>1
  <1> HIDE DEF applied, synced, releases
  <1>8. /\ CardsOK(launcher', releases) /\ FocusOK(launcher', releases)
        /\ FrontFor(front', launcher', screen)
        /\ GateOK(front'.runtime, settings, launcher', fire)
    <2>1. CASE screen = "menu"
      <3>1. /\ CardsOK(FocusMenuCard(synced, releases), releases)
            /\ FocusOK(FocusMenuCard(synced, releases), releases)
        BY <1>2, <1>4, FocusMenuCardKeeps DEF CardsOK
      <3>2. /\ FrontFor(front', launcher', screen) /\ front'.runtime.active = NoRelease
        BY <1>6, <1>7, <2>1, MenuFront
      <3> QED BY <1>7, <2>1, <3>1, <3>2 DEF GateOK
    <2>2. CASE screen # "menu"
      <3>1. launcher' = synced /\ front' = applied
        BY <1>7, <2>2
      <3>2. GateOK(front.runtime, settings, launcher, fire)
        BY DEF LoopInv, runtime
      <3>3. GateOK(applied.runtime, settings, synced, fire)
        BY <1>5, <1>6, <3>2 DEF GateOK
      <3> QED BY <1>4, <1>6, <3>1, <3>3
    <2> QED BY <2>1, <2>2
  <1>9. scanning' \in BOOLEAN /\ UNCHANGED <<settings, screen, requested, dialogs, fire>>
    BY DEF Scan
  <1> HIDE DEF LoopInv
  <1>10. /\ settings \in BOOLEAN /\ screen \in {"menu", "launching"}
         /\ requested \in {"original", "modern"} /\ dialogs \in DialogsType
         /\ fire = [pressed |-> fire.pressed, recorded |-> fire.recorded]
         /\ fire.pressed \subseteq Devices /\ fire.recorded \subseteq Devices
    BY DEF LoopInv
  <1> QED BY <1>2, <1>7, <1>8, <1>9, <1>10 DEF LoopInv, runtime

LEMMA SourceLoop ==
  ASSUME LoopInv, ConsumeSource
  PROVE  LoopInv'
  <1>1. dialogs' \in DialogsType /\ UNCHANGED <<settings, screen, fire>>
    BY DEF LoopInv, ConsumeSource, DialogsType
  <1>2. CASE UNCHANGED <<front, launcher, found, scanning, requested>>
    BY <1>1, <1>2 DEF LoopInv, runtime
  <1>3. CASE screen = "menu" /\ ~UNCHANGED <<front, launcher, found, scanning, requested>>
    <2> DEFINE cleared == ClearModernPackAdmission(front)
               reset   == ResetActiveRuntime(cleared)
               next    == ReplaceData(launcher)
    <2>1. /\ launcher' = next /\ found' = {} /\ scanning' = TRUE /\ requested' = "original"
          /\ front' = reset
      BY <1>3 DEF ConsumeSource
    <2>2. CardsOK(next, {}) /\ FocusOK(next, {})
      BY ReplaceDataKeeps DEF LoopInv
    <2> HIDE DEF next
    <2>3. FrontFor(cleared, next, "menu") /\ FrontOK(cleared) /\ cleared.pack = NoPack
      <3>1. FrontFor(cleared, next, "menu")
        BY <1>3, MenuFront DEF LoopInv
      <3>2. cleared.pack = NoPack
        BY DEF ClearModernPackAdmission, LoopInv, FrontFor, FrontOK
      <3> QED BY <3>1, <3>2 DEF FrontFor
    <2>4. /\ FrontOK(reset) /\ reset.typing = FALSE /\ reset.pack = cleared.pack
          /\ reset.runtime.active = NoRelease /\ ~Revoking(reset.runtime)
      BY <2>3, ResetFacts
    <2> HIDE DEF reset, cleared
    <2>5. reset.typing \in BOOLEAN /\ ~reset.typing
      BY <2>4
    <2>6. FrontFor(reset, next, "menu")
      BY <2>3, <2>4, <2>5 DEF FrontFor
    <2>7. GateOK(reset.runtime, settings, next, fire)
      BY <2>4 DEF GateOK
    <2> QED BY <1>1, <1>3, <2>1, <2>2, <2>6, <2>7 DEF LoopInv, runtime
  <1> QED BY <1>2, <1>3 DEF ConsumeSource

LEMMA DialogLoop ==
  ASSUME LoopInv, OpenSourceDialog \/ CloseSourceDialog \/ OpenPackDialog \/ ClosePackDialog
  PROVE  LoopInv'
  <1>1. UNCHANGED <<front, launcher, found, scanning, settings, screen, requested, fire>>
    BY DEF OpenSourceDialog, CloseSourceDialog, OpenPackDialog, ClosePackDialog
  <1>2. dialogs \in DialogsType
    BY DEF LoopInv
  <1>3. dialogs' \in DialogsType
    <2>1. CASE OpenSourceDialog
      <3>1. dialogs' = [dialogs EXCEPT !.source.open = TRUE]
        BY <2>1 DEF OpenSourceDialog
      <3> QED BY <1>2, <3>1 DEF DialogsType
    <2>2. CASE OpenPackDialog
      <3>1. dialogs' = [dialogs EXCEPT !.pack.open = TRUE]
        BY <2>2 DEF OpenPackDialog
      <3> QED BY <1>2, <3>1 DEF DialogsType
    <2>3. CASE CloseSourceDialog
      <3>1. PICK chosen \in BOOLEAN : dialogs' =
              [dialogs EXCEPT !.source = [open |-> FALSE, pending |-> @.pending \/ chosen]]
        BY <2>3 DEF CloseSourceDialog
      <3> DEFINE pending == dialogs.source.pending \/ chosen
      <3>2. dialogs' = [dialogs EXCEPT !.source = [open |-> FALSE, pending |-> pending]]
        BY <1>2, <3>1 DEF DialogsType
      <3>3. pending \in BOOLEAN
        OBVIOUS
      <3> HIDE DEF pending
      <3> QED BY <1>2, <3>2, <3>3 DEF DialogsType
    <2>4. CASE ClosePackDialog
      <3>1. PICK chosen \in {dialogs.pack.pending} \cup Release :
              dialogs' = [dialogs EXCEPT !.pack = [open |-> FALSE, pending |-> chosen]]
        BY <2>4 DEF ClosePackDialog
      <3> QED BY <1>2, <3>1 DEF DialogsType
    <2> QED BY <2>1, <2>2, <2>3, <2>4
  <1> QED BY <1>1, <1>3 DEF LoopInv, runtime

LEMMA PackLoop ==
  ASSUME LoopInv, ConsumePack
  PROVE  LoopInv'
  <1> DEFINE pending  == [front EXCEPT !.pack.release = dialogs.pack.pending]
             resolved == IF ReleaseIsSelected(launcher)
                         THEN Resolve(found, launcher.game, launcher.platform,
                                      launcher.sha, launcher.language)
                         ELSE NoRelease
  <1>1. /\ dialogs' \in DialogsType
        /\ UNCHANGED <<launcher, found, scanning, settings, screen, requested, fire>>
    BY DEF LoopInv, ConsumePack, DialogsType
  <1>2. CASE front' = front
    BY <1>1, <1>2 DEF LoopInv, runtime
  <1>3. CASE front' # front
    <2>1. PICK valid \in BOOLEAN : front' = AdmitModernPack(pending, resolved, valid)
      BY <1>3 DEF ConsumePack
    <2>2. dialogs.pack.pending # NoRelease
      BY DEF ConsumePack
    <2>3. resolved # NoRelease => resolved = Source(launcher) /\ resolved \in Release
      <3>1. ASSUME ReleaseIsSelected(launcher), resolved # NoRelease
            PROVE  resolved = launcher.sha /\ launcher.sha # NoRelease /\ resolved \in Release
        BY <3>1, ResolveIn DEF ReleaseIsSelected, LoopInv, Identities
      <3>2. launcher.sha # NoRelease => Source(launcher) = launcher.sha
        BY SelectionShown DEF LoopInv
      <3> QED BY <3>1, <3>2
    <2> DEFINE pack == IF valid /\ dialogs.pack.pending = resolved
                       THEN [admission |-> "ready", release |-> resolved] ELSE RejectedPack
    <2>4. front' = [front EXCEPT !.pack = pack]
      BY <2>1 DEF AdmitModernPack, LoopInv, FrontFor, FrontOK
    <2> HIDE DEF resolved
    <2>5. /\ pack \in [admission : {"unselected", "ready", "rejected"},
                       release   : Release \cup {NoRelease}]
          /\ pack.release # NoRelease => pack.release = Source(launcher)
          /\ (pack.admission = "ready") <=> (pack.release # NoRelease)
      BY <2>2, <2>3 DEF RejectedPack
    <2> HIDE DEF pack
    <2>6. /\ FrontOK(front') /\ front'.runtime = front.runtime /\ front'.typing = front.typing
          /\ front'.pack = pack
      BY <2>4, SetPack DEF LoopInv, FrontFor, FrontOK
    <2>7. FrontFor(front, launcher, screen)
      BY DEF LoopInv
    <2>8. FrontFor(front', launcher, screen)
      BY <2>5, <2>6, <2>7 DEF FrontFor
    <2> QED BY <1>1, <2>6, <2>8 DEF LoopInv, runtime
  <1> QED BY <1>2, <1>3

LEMMA NavigateLoop ==
  ASSUME LoopInv, OnCards, NEW next, EventKeeps(launcher, next, found), Navigate(next)
  PROVE  LoopInv'
  <1> DEFINE applied == ApplyLauncherNavigation(front, launcher, next)
  <1>1. screen = "menu" /\ FrontFor(front, launcher, screen)
    BY DEF LoopInv, OnCards
  <1>2. /\ FrontFor(applied, next, "menu")
        /\ applied.runtime = front.runtime \/ applied.runtime.active = NoRelease
    BY <1>1, NavigationFacts
  <1>3. applied.runtime.active = NoRelease
    BY <1>2 DEF FrontFor
  <1>4. /\ launcher' = next /\ front' = applied
        /\ UNCHANGED <<found, scanning, settings, screen, requested, dialogs, fire>>
    BY DEF Navigate
  <1> HIDE DEF applied
  <1>5. GateOK(applied.runtime, settings, next, fire)
    BY <1>3 DEF GateOK
  <1> QED BY <1>1, <1>2, <1>4, <1>5 DEF LoopInv, EventKeeps, runtime

LEMMA ActivateLoop ==
  ASSUME LoopInv, OnCards, NEW result, EventKeeps(launcher, result.launcher, found),
         result.effect = "launch" => CanLaunch(result.launcher),
         ActivateLauncherCard(result), NEW kinds, PressedWith(kinds)
  PROVE  LoopInv'
  <1> DEFINE next    == result.launcher
             applied == ApplyLauncherNavigation(front, launcher, next)
  <1>0. /\ screen = "menu" /\ FrontFor(front, launcher, screen) /\ settings = FALSE
        /\ found \subseteq Release
    BY DEF LoopInv, OnCards
  <1>1. FrontFor(applied, next, "menu")
    BY <1>0, NavigationFacts
  <1>2. /\ launcher' = next /\ requested' = next.presentation
        /\ UNCHANGED <<found, scanning, dialogs>>
    BY DEF ActivateLauncherCard
  <1>3. \/ /\ front' = [applied EXCEPT !.runtime = SetInputSuppressed(@, TRUE)]
           /\ settings' = TRUE /\ screen' = screen
        \/ /\ result.effect = "launch"
           /\ \E outcome \in AcquireOutcomes, valid, starts \in BOOLEAN :
                front' = Launched(applied, next, outcome, valid, starts)
           /\ screen' = IF front'.runtime.active = NoRelease THEN "menu" ELSE "launching"
           /\ settings' = settings
        \/ front' = applied /\ settings' = settings /\ screen' = screen
    BY DEF ActivateLauncherCard
  <1>4. /\ fire' = [pressed |-> fire'.pressed, recorded |-> fire'.recorded]
        /\ fire'.pressed \subseteq Devices /\ fire'.recorded \subseteq Devices
    <2> PICK used \in {{}} \cup {{d} : d \in Devices \cap kinds} :
          fire' = [fire EXCEPT !.pressed = @ \cup used]
      BY DEF PressedWith
    <2>1. used \subseteq Devices
      OBVIOUS
    <2>2. fire' = [pressed |-> fire.pressed \cup used, recorded |-> fire.recorded]
      BY DEF LoopInv
    <2> QED BY <2>1, <2>2 DEF LoopInv
  <1>5. CardsOK(next, found) /\ FocusOK(next, found) /\ requested' \in {"original", "modern"}
    BY <1>2 DEF EventKeeps, CardsOK, RouteOK, LauncherType
  <1> HIDE DEF applied, next
  <1>6. /\ FrontFor(front', next, screen') /\ screen' \in {"menu", "launching"}
        /\ GateOK(front'.runtime, settings', next, fire') /\ settings' \in BOOLEAN
    <2>1. CASE /\ front' = [applied EXCEPT !.runtime = SetInputSuppressed(@, TRUE)]
               /\ settings' = TRUE /\ screen' = screen
      <3> DEFINE silent == SetInputSuppressed(applied.runtime, TRUE)
      <3>1. /\ RuntimeInv(applied.runtime) /\ applied.runtime.active = NoRelease
            /\ applied.typing => FALSE
        BY <1>1 DEF FrontFor, FrontOK
      <3>2. RuntimeInv(silent) /\ Keeps(applied.runtime, silent)
        BY <3>1, SetInputSuppressedInv, SetInputSuppressedKeeps DEF Keeps
      <3>3. front' = [applied EXCEPT !.runtime = silent]
        BY <2>1
      <3> HIDE DEF silent
      <3>4. FrontFor(front', next, "menu")
        BY <1>1, <3>1, <3>2, <3>3, RuntimeKeeps
      <3>5. front'.runtime.active = NoRelease
        BY <3>4 DEF FrontFor
      <3> QED BY <1>0, <2>1, <3>4, <3>5 DEF GateOK
    <2>2. CASE /\ result.effect = "launch"
               /\ \E outcome \in AcquireOutcomes, valid, starts \in BOOLEAN :
                    front' = Launched(applied, next, outcome, valid, starts)
               /\ screen' = IF front'.runtime.active = NoRelease THEN "menu" ELSE "launching"
               /\ settings' = settings
      <3>1. PICK outcome \in AcquireOutcomes, valid \in BOOLEAN, starts \in BOOLEAN :
              front' = Launched(applied, next, outcome, valid, starts)
        BY <2>2
      <3>2. CanLaunch(next)
        BY <2>2 DEF next
      <3>3. /\ FrontFor(front', next, screen')
            /\ front'.runtime.active # NoRelease /\ front'.runtime.kind \in AmigaKinds =>
                 Unheard(front'.runtime)
        BY <1>0, <1>1, <1>5, <2>2, <3>1, <3>2, LaunchedFacts
      <3> QED BY <1>0, <2>2, <3>3 DEF GateOK
    <2>3. CASE front' = applied /\ settings' = settings /\ screen' = screen
      <3>1. applied.runtime.active = NoRelease
        BY <1>1 DEF FrontFor
      <3> QED BY <1>0, <1>1, <2>3, <3>1 DEF GateOK
    <2> QED BY <1>3, <2>1, <2>2, <2>3
  <1> QED BY <1>2, <1>4, <1>5, <1>6 DEF LoopInv, runtime

LEMMA CardLoop ==
  ASSUME LoopInv, MoveCard \/ EdgeCard \/ BackCard \/ ActivateFocused \/ PointAtCard
  PROVE  LoopInv'
  <1>0. CardsOK(launcher, found) /\ FocusOK(launcher, found) /\ found \subseteq Release
    BY DEF LoopInv
  <1>1. CASE MoveCard
    BY <1>0, <1>1, MoveCardsKeeps, NavigateLoop DEF MoveCard
  <1>2. CASE EdgeCard
    BY <1>0, <1>2, EdgeCardsKeeps, NavigateLoop DEF EdgeCard
  <1>3. CASE BackCard
    BY <1>0, <1>3, BackCardsKeeps, NavigateLoop DEF BackCard
  <1>4. CASE ActivateFocused
    <2> DEFINE result == Activate(launcher, found)
    <2>1. ActivationKeeps(launcher, result, found)
      BY <1>0, ActivateKeeps
    <2>2. OnCards /\ ActivateLauncherCard(result) /\ PressedWith({"keyboard", "gamepad"})
      BY <1>4 DEF ActivateFocused
    <2> HIDE DEF result
    <2> QED BY <2>1, <2>2, ActivateLoop DEF ActivationKeeps
  <1>5. CASE PointAtCard
    <2>1. PICK index \in 0..2 : ActivateLauncherCard(ActivateCard(launcher, found, index))
      BY <1>5 DEF PointAtCard
    <2> DEFINE result == ActivateCard(launcher, found, index)
    <2>2. /\ EventKeeps(launcher, result.launcher, found)
          /\ result.effect = "launch" => CanLaunch(result.launcher)
      BY <1>0, ActivateCardKeeps
    <2>3. OnCards /\ ActivateLauncherCard(result) /\ PressedWith({"mouse"})
      BY <1>5, <2>1 DEF PointAtCard
    <2> HIDE DEF result
    <2> QED BY <2>2, <2>3, ActivateLoop
  <1> QED BY <1>1, <1>2, <1>3, <1>4, <1>5

----------------------------------------------------------------------------
(* The modal, and the events over a launched game                          *)

LEMMA OpenLoop ==
  ASSUME LoopInv, OpenSettings
  PROVE  LoopInv'
  <1> DEFINE silent == SetInputSuppressed(front.runtime, TRUE)
  <1>1. /\ FrontFor(front, launcher, screen) /\ RuntimeInv(front.runtime)
        /\ GateOK(front.runtime, settings, launcher, fire)
    BY DEF LoopInv, FrontFor, FrontOK, runtime
  <1>2. RuntimeInv(silent) /\ Keeps(front.runtime, silent)
    BY <1>1, SetInputSuppressedInv, SetInputSuppressedKeeps DEF Keeps
  <1>3. silent.kind = front.runtime.kind /\ silent.suppressed
    BY <1>1, SuppressFacts
  <1>4. /\ front' = [front EXCEPT !.runtime = silent] /\ settings' = TRUE
        /\ fire' = IF Playing("deuteros") THEN [fire EXCEPT !.recorded = {}] ELSE fire
        /\ UNCHANGED <<launcher, found, scanning, screen, requested, dialogs>>
    BY DEF OpenSettings
  <1> HIDE DEF silent
  <1>5. FrontFor(front', launcher, screen) /\ front'.runtime = silent
    <2>1. front.typing => silent.kind = "dos_title"
      BY <1>1, <1>3 DEF FrontFor
    <2>2. FrontFor(front', launcher, screen)
      BY <1>1, <1>2, <1>4, <2>1, RuntimeKeeps
    <2>3. front = [runtime |-> front.runtime, presented |-> front.presented,
                   typing |-> front.typing, pack |-> front.pack]
      BY <1>1 DEF FrontFor, FrontOK
    <2> QED BY <1>4, <2>2, <2>3
  <1>6. /\ fire' = [pressed |-> fire'.pressed, recorded |-> fire'.recorded]
        /\ fire'.pressed \subseteq Devices /\ fire'.recorded \subseteq Devices
        /\ Playing("deuteros") => fire'.recorded = {}
    BY <1>4 DEF LoopInv
  <1>7. GateOK(silent, TRUE, launcher, fire')
    <2> SUFFICES ASSUME silent.active # NoRelease
                 PROVE  /\ silent.suppressed
                        /\ launcher.game = "deuteros" => fire'.recorded = {}
                        /\ silent.kind \in AmigaKinds => fire'.recorded \subseteq fire'.pressed
      BY DEF GateOK
    <2>1. screen = "launching" /\ silent.active = Source(launcher)
      BY <1>1, <1>2 DEF FrontFor, Keeps
    <2>2. silent.kind \in AmigaKinds => launcher.game = "deuteros"
      BY <1>2, <2>1, AmigaShown
    <2> QED BY <1>3, <1>6, <2>1, <2>2 DEF Playing
  <1>8. screen \in {"menu", "launching"}
    BY DEF LoopInv
  <1> QED BY <1>4, <1>5, <1>6, <1>7, <1>8, KeepCards

LEMMA CloseLoop ==
  ASSUME LoopInv, CloseSettings
  PROVE  LoopInv'
  <1> DEFINE heard == SetInputSuppressed(front.runtime, FALSE)
  <1>1. /\ FrontFor(front, launcher, screen) /\ RuntimeInv(front.runtime)
        /\ GateOK(front.runtime, TRUE, launcher, fire)
    BY DEF LoopInv, FrontFor, FrontOK, runtime, CloseSettings
  <1>2. RuntimeInv(heard) /\ Keeps(front.runtime, heard)
    BY <1>1, SetInputSuppressedInv, SetInputSuppressedKeeps DEF Keeps
  <1>3. heard.kind = front.runtime.kind
    BY <1>1, SuppressFacts
  <1>4. /\ front' = [front EXCEPT !.runtime = heard] /\ settings' = FALSE
        /\ UNCHANGED <<found, scanning, screen, requested, dialogs, fire>>
    BY DEF CloseSettings
  <1> HIDE DEF heard
  <1>5. FrontFor(front', launcher, screen) /\ front'.runtime = heard
    <2>1. front.typing => heard.kind = "dos_title"
      BY <1>1, <1>3 DEF FrontFor
    <2>2. FrontFor(front', launcher, screen)
      BY <1>1, <1>2, <1>4, <2>1, RuntimeKeeps
    <2>3. front = [runtime |-> front.runtime, presented |-> front.presented,
                   typing |-> front.typing, pack |-> front.pack]
      BY <1>1 DEF FrontFor, FrontOK
    <2> QED BY <1>4, <2>2, <2>3
  <1>6. GateOK(heard, FALSE, launcher, fire)
    <2> SUFFICES ASSUME heard.active # NoRelease, heard.kind \in AmigaKinds
                 PROVE  fire.recorded \subseteq fire.pressed
      BY DEF GateOK
    <2>1. heard.active = Source(launcher) /\ front.runtime.active # NoRelease
      BY <1>1, <1>2 DEF FrontFor, Keeps
    <2>2. launcher.game = "deuteros"
      BY <1>2, <2>1, AmigaShown
    <2>3. fire.recorded = {}
      BY <1>1, <2>1, <2>2 DEF GateOK
    <2> QED BY <2>3
  <1>7. /\ screen \in {"menu", "launching"}
        /\ fire = [pressed |-> fire.pressed, recorded |-> fire.recorded]
        /\ fire.pressed \subseteq Devices /\ fire.recorded \subseteq Devices
    BY DEF LoopInv
  <1>8. CASE launcher' = launcher
    <2>1. fire' = fire
      BY <1>4
    <2> QED BY <1>4, <1>5, <1>6, <1>7, <1>8, <2>1, KeepCards
  <1>9. CASE launcher' # launcher
    <2> DEFINE next == ConfirmCustom(launcher)
    <2>1. launcher' = next /\ screen = "menu" /\ launcher.page # "games"
      BY <1>9 DEF CloseSettings, OnCustomCard
    <2>2. /\ CardsOK(next, found) /\ next.focus = launcher.focus /\ next.page = launcher.page
          /\ NotSubstituted(launcher, next) /\ next.sha = launcher.sha
          /\ next.language = launcher.language /\ next.platform = launcher.platform
      BY ConfirmCustomKeeps DEF LoopInv
    <2> HIDE DEF next
    <2>3. FocusOK(next, found)
      BY <2>1, <2>2, FocusStays DEF LoopInv, NotSubstituted
    <2>4. Source(next) = Source(launcher) /\ next.game = launcher.game
      <3>1. SourceIdentity(next) = SourceIdentity(launcher)
        BY <2>2 DEF SourceIdentity, NotSubstituted
      <3> QED BY <3>1, SameSource
    <2>5. FrontFor(front', next, screen) /\ GateOK(heard, FALSE, next, fire)
      BY <1>5, <1>6, <2>4 DEF FrontFor, GateOK
    <2> QED BY <1>4, <1>5, <2>1, <2>2, <2>3, <2>5 DEF LoopInv, runtime
  <1> QED BY <1>8, <1>9

LEMMA ReturnLoop ==
  ASSUME LoopInv, ReturnToMenu
  PROVE  LoopInv'
  <1> DEFINE reset == ResetActiveRuntime(front)
  <1>1. FrontFor(front, launcher, screen) /\ FrontOK(front)
    BY DEF LoopInv, FrontFor
  <1>2. /\ FrontOK(reset) /\ reset.typing = FALSE /\ reset.pack = front.pack
        /\ reset.runtime.active = NoRelease /\ ~Revoking(reset.runtime)
    BY <1>1, ResetFacts
  <1>3. /\ front' = reset /\ screen' = "menu"
        /\ UNCHANGED <<launcher, found, scanning, settings, requested, dialogs, fire>>
    BY DEF ReturnToMenu
  <1> HIDE DEF reset
  <1>4. reset.typing \in BOOLEAN /\ ~reset.typing
    BY <1>2
  <1>5. FrontFor(reset, launcher, "menu")
    BY <1>1, <1>2, <1>4 DEF FrontFor
  <1>6. GateOK(reset.runtime, settings, launcher, fire)
    BY <1>2 DEF GateOK
  <1>7. /\ fire = [pressed |-> fire.pressed, recorded |-> fire.recorded]
        /\ fire.pressed \subseteq Devices /\ fire.recorded \subseteq Devices
        /\ settings \in BOOLEAN
    BY DEF LoopInv
  <1>8. FrontFor(front', launcher, screen') /\ GateOK(front'.runtime, settings', launcher, fire')
    BY <1>3, <1>5, <1>6
  <1> QED BY <1>3, <1>7, <1>8, KeepCards

(* A fire button's edge, as far as it is forwarded.                        *)
LEMMA ForwardFacts ==
  ASSUME NEW f, NEW l, NEW shown, FrontFor(f, l, shown), NEW device,
         NEW obs \in {"held", "released"}
  PROVE  LET q == Forward(f, device, obs) IN
         /\ FrontFor(q, l, shown) /\ q.runtime.active = f.runtime.active
         /\ q.runtime.suppressed = f.runtime.suppressed
         /\ Unheard(f.runtime) => Unheard(q.runtime)
  <1> DEFINE heard == HostObserve(f.runtime, obs, TRUE).runtime
             q     == Forward(f, device, obs)
  <1>1. RuntimeInv(f.runtime) /\ obs \in Observations
    BY DEF FrontFor, FrontOK, Observations
  <1>2. RuntimeInv(heard) /\ Keeps(f.runtime, heard)
    BY <1>1, HostObserveInv, HostObserveKeeps DEF Keeps
  <1>3. heard.kind = f.runtime.kind /\ heard.opening = f.runtime.opening
        /\ heard.suppressed = f.runtime.suppressed
    BY <1>1, HostHoldFacts
  <1>4. q = f \/ q = [f EXCEPT !.runtime = heard]
    BY DEF Forward
  <1> HIDE DEF heard, q
  <1>5. f.typing => heard.kind = "dos_title"
    BY <1>3 DEF FrontFor
  <1>6. FrontFor([f EXCEPT !.runtime = heard], l, shown)
    BY <1>2, <1>5, RuntimeKeeps
  <1>7. FrontFor(q, l, shown)
    BY <1>4, <1>6
  <1>8. q.runtime = f.runtime \/ q.runtime = heard
    BY <1>4 DEF FrontFor, FrontOK
  <1> QED BY <1>2, <1>3, <1>7, <1>8 DEF Keeps, Unheard, q

LEMMA FireLoop ==
  ASSUME LoopInv, PressFire \/ ReleaseFire
  PROVE  LoopInv'
  <1>1. /\ FrontFor(front, launcher, screen) /\ RuntimeInv(front.runtime)
        /\ GateOK(front.runtime, settings, launcher, fire)
        /\ fire = [pressed |-> fire.pressed, recorded |-> fire.recorded]
        /\ fire.pressed \subseteq Devices /\ fire.recorded \subseteq Devices
        /\ settings \in BOOLEAN /\ screen \in {"menu", "launching"}
    BY DEF LoopInv, FrontFor, FrontOK, runtime
  <1>2. UNCHANGED <<launcher, found, scanning, settings, screen, requested, dialogs>>
    BY DEF PressFire, ReleaseFire
  <1>3. PICK d \in Devices \cup fire.pressed, obs \in {"held", "released"} :
          \/ /\ Playing("deuteros") /\ ~settings
             /\ front' = Forward(front, d, obs)
             /\ \/ fire' = [pressed  |-> fire.pressed \cup {d},
                            recorded |-> fire.recorded \cup {d}]
                \/ fire' = [pressed  |-> fire.pressed \ {d},
                            recorded |-> fire.recorded \ {d}]
          \/ /\ ~(Playing("deuteros") /\ ~settings)
             /\ front' = front
             /\ \/ fire' = [fire EXCEPT !.pressed = @ \cup {d}]
                \/ fire' = [fire EXCEPT !.pressed = @ \ {d}]
    <2>1. CASE PressFire
      BY <2>1 DEF PressFire
    <2>2. CASE ReleaseFire
      BY <2>2 DEF ReleaseFire
    <2> QED BY <2>1, <2>2
  <1>4. CASE Playing("deuteros") /\ ~settings
    <2>1. /\ FrontFor(front', launcher, screen) /\ front'.runtime.active = front.runtime.active
          /\ front'.runtime.suppressed = front.runtime.suppressed
          /\ Unheard(front.runtime) => Unheard(front'.runtime)
      BY <1>1, <1>3, <1>4, ForwardFacts
    <2>2. RuntimeInv(front'.runtime)
      BY <2>1 DEF FrontFor, FrontOK
    <2>3. GateOK(front'.runtime, settings, launcher, fire)
      BY <1>1, <2>1, <2>2, GateStays
    <2>4. /\ fire' = [pressed |-> fire'.pressed, recorded |-> fire'.recorded]
          /\ fire'.pressed \subseteq Devices /\ fire'.recorded \subseteq Devices
          /\ fire.recorded \subseteq fire.pressed => fire'.recorded \subseteq fire'.pressed
      BY <1>1, <1>3, <1>4
    <2>5. GateOK(front'.runtime, settings', launcher, fire')
      BY <1>2, <1>4, <2>3, <2>4 DEF GateOK
    <2> QED BY <1>1, <1>2, <2>1, <2>4, <2>5, KeepCards
  <1>5. CASE ~(Playing("deuteros") /\ ~settings)
    <2>1. front' = front /\ \/ fire' = [fire EXCEPT !.pressed = @ \cup {d}]
                            \/ fire' = [fire EXCEPT !.pressed = @ \ {d}]
      BY <1>3, <1>5
    <2>2. /\ fire' = [pressed |-> fire'.pressed, recorded |-> fire'.recorded]
          /\ fire'.pressed \subseteq Devices /\ fire'.recorded = fire.recorded
      BY <1>1, <2>1
    <2>3. GateOK(front.runtime, settings, launcher, fire')
      <3> SUFFICES ASSUME front.runtime.active # NoRelease
                   PROVE  /\ settings => /\ front.runtime.suppressed
                                         /\ launcher.game = "deuteros" => fire'.recorded = {}
                          /\ front.runtime.kind \in AmigaKinds =>
                               fire'.recorded \subseteq fire'.pressed
        BY DEF GateOK
      <3>1. screen = "launching" /\ front.runtime.active = Source(launcher)
        BY <1>1 DEF FrontFor
      <3>2. front.runtime.kind \in AmigaKinds => launcher.game = "deuteros"
        BY <1>1, <3>1, AmigaShown
      <3>3. launcher.game = "deuteros" => settings
        BY <1>5, <3>1 DEF Playing
      <3> QED BY <1>1, <2>2, <3>2, <3>3 DEF GateOK
    <2>4. /\ FrontFor(front', launcher, screen') /\ GateOK(front'.runtime, settings', launcher, fire')
      BY <1>1, <1>2, <2>1, <2>3
    <2> QED BY <1>1, <1>2, <2>2, <2>4, KeepCards
  <1> QED BY <1>4, <1>5

LEMMA FocusLoop ==
  ASSUME LoopInv, LoseFocus
  PROVE  LoopInv'
  <1>1. /\ FrontFor(front, launcher, screen) /\ RuntimeInv(front.runtime)
        /\ GateOK(front.runtime, settings, launcher, fire)
        /\ fire.pressed \subseteq Devices /\ fire.recorded \subseteq Devices
        /\ settings \in BOOLEAN /\ screen \in {"menu", "launching"}
    BY DEF LoopInv, FrontFor, FrontOK, runtime
  <1>2. UNCHANGED <<launcher, found, scanning, settings, screen, requested, dialogs>>
    BY DEF LoseFocus
  <1>3. PICK pressed \in SUBSET fire.pressed :
          fire' = [pressed  |-> pressed,
                   recorded |-> IF Playing("deuteros") THEN {} ELSE fire.recorded]
    BY DEF LoseFocus
  <1>4. front' = front \/ front' = Forward(front, "keyboard", "released")
    BY DEF LoseFocus, Forward, Observe, runtime
  <1>5. /\ FrontFor(front', launcher, screen) /\ front'.runtime.active = front.runtime.active
        /\ front'.runtime.suppressed = front.runtime.suppressed
        /\ Unheard(front.runtime) => Unheard(front'.runtime)
    BY <1>1, <1>4, ForwardFacts
  <1>6. RuntimeInv(front'.runtime)
    BY <1>5 DEF FrontFor, FrontOK
  <1>7. GateOK(front'.runtime, settings, launcher, fire)
    BY <1>1, <1>5, <1>6, GateStays
  <1>8. /\ fire' = [pressed |-> fire'.pressed, recorded |-> fire'.recorded]
        /\ fire'.pressed \subseteq Devices /\ fire'.recorded \subseteq Devices
        /\ fire'.recorded \in {{}, fire.recorded}
        /\ Playing("deuteros") => fire'.recorded = {}
    BY <1>1, <1>3
  <1>9. GateOK(front'.runtime, settings, launcher, fire')
    <2> SUFFICES ASSUME front'.runtime.active # NoRelease
                 PROVE  /\ settings => /\ front'.runtime.suppressed
                                       /\ launcher.game = "deuteros" => fire'.recorded = {}
                        /\ front'.runtime.kind \in AmigaKinds =>
                             fire'.recorded \subseteq fire'.pressed
      BY DEF GateOK
    <2>1. screen = "launching" /\ front'.runtime.active = Source(launcher)
      BY <1>5 DEF FrontFor
    <2>2. front'.runtime.kind \in AmigaKinds => launcher.game = "deuteros"
      BY <1>6, <2>1, AmigaShown
    <2> QED BY <1>7, <1>8, <2>1, <2>2 DEF GateOK, Playing
  <1>10. GateOK(front'.runtime, settings', launcher, fire') /\ FrontFor(front', launcher, screen')
    BY <1>2, <1>5, <1>9
  <1> QED BY <1>1, <1>2, <1>8, <1>10, KeepCards

LEMMA TypeLoop ==
  ASSUME LoopInv, TypeText
  PROVE  LoopInv'
  <1>1. /\ FrontFor(front, launcher, screen) /\ RuntimeInv(front.runtime)
        /\ GateOK(front.runtime, settings, launcher, fire)
        /\ fire = [pressed |-> fire.pressed, recorded |-> fire.recorded]
        /\ fire.pressed \subseteq Devices /\ fire.recorded \subseteq Devices
        /\ settings \in BOOLEAN /\ screen \in {"menu", "launching"}
    BY DEF LoopInv, FrontFor, FrontOK, runtime
  <1>2. /\ UNCHANGED <<launcher, found, scanning, settings, screen, requested, dialogs, fire>>
        /\ launcher.game = "millennium" /\ front.typing
    BY DEF TypeText, Playing
  <1>3. PICK obs \in {"ascii_choice", "ascii_other"}, succeeds \in BOOLEAN :
          front' = [front EXCEPT !.runtime = Observe(obs, succeeds).runtime,
                                 !.typing = Observe(obs, succeeds).disposition
                                              # "boundary_reached"]
    BY DEF TypeText
  <1> DEFINE seen == HostObserve(front.runtime, obs, succeeds)
             q    == seen.runtime
             asks == seen.disposition # "boundary_reached"
  <1>4. front.runtime.kind = "dos_title" /\ obs \in Observations
    BY <1>1, <1>2 DEF FrontFor, Observations
  <1>5. RuntimeInv(q) /\ Keeps(front.runtime, q)
    BY <1>1, <1>4, HostObserveInv, HostObserveKeeps DEF Keeps
  <1>6. q.suppressed = front.runtime.suppressed /\ (asks => q.kind = "dos_title")
    BY <1>1, <1>4, TypeFacts
  <1>7. asks \in BOOLEAN
    OBVIOUS
  <1>8. front' = [front EXCEPT !.runtime = q, !.typing = asks]
    BY <1>3 DEF Observe, runtime
  <1> HIDE DEF q, asks
  <1>9. FrontFor(front', launcher, screen) /\ front'.runtime = q
    <2> DEFINE n == [front EXCEPT !.runtime = q, !.typing = asks, !.presented = front.presented]
    <2>1. FrontFor(n, launcher, screen)
      <3>1. front.presented # NoRelease => front.presented = front.runtime.active
        BY <1>1 DEF FrontFor, FrontOK
      <3> QED BY <1>1, <1>2, <1>5, <1>6, <1>7, <3>1, FrontKeeps
    <2>2. front = [runtime |-> front.runtime, presented |-> front.presented,
                   typing |-> front.typing, pack |-> front.pack]
      BY <1>1 DEF FrontFor, FrontOK
    <2>3. front' = [runtime |-> q, presented |-> front.presented, typing |-> asks,
                    pack |-> front.pack]
      BY <1>8, <2>2
    <2>4. n = front'
      BY <1>8, <2>2
    <2> HIDE DEF n
    <2> QED BY <2>1, <2>3, <2>4
  <1>10. GateOK(q, settings, launcher, fire)
    <2>1. ASSUME q.active # NoRelease PROVE q.kind \notin AmigaKinds
      <3>1. front.runtime.active # NoRelease /\ q.active = front.runtime.active
        BY <1>5, <2>1 DEF Keeps
      <3>2. q.active = Source(launcher)
        BY <1>1, <3>1 DEF FrontFor
      <3> QED BY <1>2, <1>5, <2>1, <3>2, AmigaShown
    <2> QED BY <1>1, <1>5, <1>6, <2>1 DEF GateOK, Keeps
  <1>11. GateOK(front'.runtime, settings', launcher, fire') /\ FrontFor(front', launcher, screen')
         /\ fire' = fire
    BY <1>2, <1>9, <1>10
  <1> QED BY <1>1, <1>2, <1>11, KeepCards

LEMMA DriveLoop ==
  ASSUME LoopInv, DriveSession
  PROVE  LoopInv'
  <1>1. /\ FrontFor(front, launcher, screen) /\ RuntimeInv(front.runtime)
        /\ GateOK(front.runtime, settings, launcher, fire)
        /\ fire = [pressed |-> fire.pressed, recorded |-> fire.recorded]
        /\ fire.pressed \subseteq Devices /\ fire.recorded \subseteq Devices
        /\ settings \in BOOLEAN /\ screen \in {"menu", "launching"}
        /\ front = [runtime |-> front.runtime, presented |-> front.presented,
                    typing |-> front.typing, pack |-> front.pack]
    BY DEF LoopInv, FrontFor, FrontOK, runtime
  <1>2. UNCHANGED <<launcher, found, scanning, settings, screen, requested, dialogs, fire>>
    BY DEF DriveSession
  <1> DEFINE q == HostDrive(front.runtime)
  <1>3. RuntimeInv(q) /\ Keeps(front.runtime, q)
    BY <1>1, HostDriveInv, HostDriveKeeps DEF Keeps
  <1>4. /\ q.suppressed = front.runtime.suppressed
        /\ front.runtime.kind = "dos_title" => q.kind = "dos_title"
        /\ Unheard(front.runtime) => Unheard(q)
    BY <1>1, DriveFacts DEF Unheard
  <1>5. front' = [front EXCEPT !.runtime = q]
    BY DEF DriveSession
  <1> HIDE DEF q
  <1>6. front.typing => q.kind = "dos_title"
    BY <1>1, <1>4 DEF FrontFor
  <1>7. FrontFor(front', launcher, screen)
    BY <1>1, <1>3, <1>5, <1>6, RuntimeKeeps
  <1>8. front'.runtime = q
    BY <1>1, <1>5
  <1>9. q.active = front.runtime.active
    BY <1>3 DEF Keeps
  <1>10. GateOK(q, settings, launcher, fire)
    BY <1>1, <1>3, <1>4, <1>9, GateStays
  <1>11. GateOK(front'.runtime, settings', launcher, fire') /\ FrontFor(front', launcher, screen')
         /\ fire' = fire
    BY <1>2, <1>7, <1>8, <1>10
  <1> QED BY <1>1, <1>2, <1>11, KeepCards

LEMMA AdvanceLoop ==
  ASSUME LoopInv, AdvanceOpening
  PROVE  LoopInv'
  <1>1. /\ FrontFor(front, launcher, screen) /\ RuntimeInv(front.runtime)
        /\ GateOK(front.runtime, settings, launcher, fire) /\ ~Revoking(front.runtime)
        /\ fire = [pressed |-> fire.pressed, recorded |-> fire.recorded]
        /\ fire.pressed \subseteq Devices /\ fire.recorded \subseteq Devices
        /\ settings \in BOOLEAN /\ screen \in {"menu", "launching"}
        /\ front = [runtime |-> front.runtime, presented |-> front.presented,
                    typing |-> front.typing, pack |-> front.pack]
    BY DEF LoopInv, FrontFor, FrontOK, runtime
  <1>2. /\ UNCHANGED <<launcher, found, scanning, settings, screen, requested, dialogs, fire>>
        /\ launcher.game = "deuteros"
    BY DEF AdvanceOpening, Playing
  <1>3. PICK outcome \in TickOutcomes :
          front' = [front EXCEPT !.runtime = HostAdvance(@, outcome),
                                 !.presented = runtime.active]
    BY DEF AdvanceOpening
  <1> DEFINE q == HostAdvance(front.runtime, outcome)
  <1>4. RuntimeInv(q) /\ Keeps(front.runtime, q)
    BY <1>1, HostAdvanceInv, HostAdvanceKeeps DEF Keeps
  <1>5. /\ q.suppressed = front.runtime.suppressed
        /\ Unheard(front.runtime) => Unheard(q)
    BY <1>1, AdvanceFacts
  <1>6. front' = [front EXCEPT !.runtime = q, !.presented = front.runtime.active]
    BY <1>1, <1>3 DEF runtime
  <1> HIDE DEF q
  <1>7. ~front.typing /\ front.typing \in BOOLEAN
    BY <1>1, <1>2 DEF FrontFor
  <1>8. FrontFor(front', launcher, screen) /\ front'.runtime = q
    <2> DEFINE n == [front EXCEPT !.runtime = q, !.typing = front.typing,
                                  !.presented = front.runtime.active]
    <2>1. FrontFor(n, launcher, screen)
      BY <1>1, <1>4, <1>7, FrontKeeps
    <2>2. n = front' /\ front'.runtime = q
      BY <1>1, <1>6
    <2> HIDE DEF n
    <2> QED BY <2>1, <2>2
  <1>9. q.active = front.runtime.active
    BY <1>4 DEF Keeps
  <1>10. GateOK(q, settings, launcher, fire)
    BY <1>1, <1>4, <1>5, <1>9, GateStays
  <1>11. GateOK(front'.runtime, settings', launcher, fire') /\ FrontFor(front', launcher, screen')
         /\ fire' = fire
    BY <1>2, <1>8, <1>10
  <1> QED BY <1>1, <1>2, <1>11, KeepCards

LEMMA NextLoop ==
  ASSUME LoopInv, [Next]_vars
  PROVE  LoopInv'
  <1>1. CASE Scan
    BY <1>1, ScanLoop
  <1>2. CASE OpenSourceDialog \/ CloseSourceDialog \/ OpenPackDialog \/ ClosePackDialog
    BY <1>2, DialogLoop
  <1>3. CASE ConsumeSource \/ ConsumePack
    BY <1>3, SourceLoop, PackLoop
  <1>4. CASE MoveCard \/ EdgeCard \/ BackCard \/ ActivateFocused \/ PointAtCard
    BY <1>4, CardLoop
  <1>5. CASE OpenSettings \/ CloseSettings \/ ReturnToMenu
    BY <1>5, OpenLoop, CloseLoop, ReturnLoop
  <1>6. CASE PressFire \/ ReleaseFire \/ LoseFocus
    BY <1>6, FireLoop, FocusLoop
  <1>7. CASE TypeText \/ DriveSession \/ AdvanceOpening
    BY <1>7, TypeLoop, DriveLoop, AdvanceLoop
  <1>8. CASE UNCHANGED vars
    BY <1>8 DEF vars, LoopInv, runtime
  <1> QED BY <1>1, <1>2, <1>3, <1>4, <1>5, <1>6, <1>7, <1>8 DEF Next

(* The strengthened invariant of every behaviour of the loop.              *)
THEOREM LoopInvariant == Spec => []LoopInv
  <1>1. LoopInv /\ [Next]_vars => LoopInv'
    BY NextLoop
  <1> QED BY <1>1, InitLoop, PTL DEF Spec

----------------------------------------------------------------------------
(* What it says of the loop *)

(* The loop's sequences of host calls never break what single calls keep.  *)
THEOREM RuntimeIsConsistentHolds == Spec => []RuntimeIsConsistent
  <1>1. LoopInv => RuntimeIsConsistent
    BY DEF LoopInv, FrontFor, FrontOK, RuntimeIsConsistent, runtime
  <1> QED BY <1>1, LoopInvariant, PTL

(* Nothing of a release is presented once its session is gone.             *)
THEOREM PresentedIsLiveHolds == Spec => []PresentedIsLive
  <1>1. LoopInv => PresentedIsLive
    BY DEF LoopInv, FrontFor, FrontOK, PresentedIsLive, runtime
  <1> QED BY <1>1, LoopInvariant, PTL

(* No scan, dialog or navigation leaves a session of another release than  *)
(* the one the cards show, or one behind the menu.                         *)
THEOREM LiveIsShownHolds == Spec => []LiveIsShown
  <1>1. LoopInv => LiveIsShown
    BY DEF LoopInv, FrontFor, LiveIsShown, runtime
  <1> QED BY <1>1, LoopInvariant, PTL

(* A pack stays admitted for no other release than the one selected.       *)
THEOREM PackIsForSelectionHolds == Spec => []PackIsForSelection
  <1>1. LoopInv => PackIsForSelection
    BY DEF LoopInv, FrontFor, PackIsForSelection
  <1> QED BY <1>1, LoopInvariant, PTL

(* Whatever was pressed before it opened, and whatever is pressed behind   *)
(* it, the modal leaves a live session no input.                           *)
THEOREM ModalIsABoundaryHolds == Spec => []ModalIsABoundary
  <1>1. LoopInv => ModalIsABoundary
    <2> SUFFICES ASSUME LoopInv, settings, IsLive(runtime)
                 PROVE  /\ runtime.suppressed /\ ~runtime.held
                        /\ Playing("deuteros") => fire.recorded = {}
      BY DEF ModalIsABoundary
    <2>1. RuntimeInv(runtime)
      BY DEF LoopInv, FrontFor, FrontOK, runtime
    <2>2. runtime.active # NoRelease
      BY <2>1, ReleaseIsNone DEF IsLive, RuntimeInv, OwnedByOneRelease, EmptyCoordinator,
         StateFollowsSession, NativeSessionStateFor, Revoking
    <2>3. runtime.suppressed /\ (launcher.game = "deuteros" => fire.recorded = {})
      BY <2>2 DEF LoopInv, GateOK
    <2>4. ~runtime.held
      BY <2>1, <2>3 DEF RuntimeInv, HeldOnlyInOpenGate, IsLive, Revoking
    <2> QED BY <2>3, <2>4 DEF Playing
  <1> QED BY <1>1, LoopInvariant, PTL

(* Text input runs only while it is asked for, and the title reads no fire *)
(* button that was let go while nothing listened.                          *)
THEOREM LoopIsSoundHolds == Spec => []LoopIsSound
  <1>1. LoopInv => LoopIsSound
    <2> SUFFICES ASSUME LoopInv PROVE LoopIsSound
      OBVIOUS
    <2>1. FrontFor(front, launcher, screen) /\ RuntimeInv(front.runtime)
      BY DEF LoopInv, FrontFor, FrontOK
    <2>2. front \in FrontType
      <3>1. /\ front = [runtime |-> front.runtime, presented |-> front.presented,
                        typing |-> front.typing, pack |-> front.pack]
            /\ front.typing \in BOOLEAN
            /\ front.pack \in [admission : {"unselected", "ready", "rejected"},
                               release   : Release \cup {NoRelease}]
        BY <2>1 DEF FrontFor, FrontOK
      <3>2. front.runtime \in RuntimeType
        BY <2>1 DEF RuntimeInv
      <3>3. front.presented \in Release \cup {NoRelease}
        BY <2>1, <3>2 DEF FrontFor, FrontOK, RuntimeType
      <3> QED BY <3>1, <3>2, <3>3 DEF FrontType
    <2>3. TypeOK
      BY <2>2 DEF TypeOK, LoopInv, CardsOK, RouteOK
    <2>4. RuntimeIsConsistent
      BY <2>1 DEF RuntimeIsConsistent, runtime
    <2>5. TypingIsAsked
      BY <2>1 DEF TypingIsAsked, FrontFor, Playing, runtime
    <2>6. FireByteIsLive
      <3> SUFFICES ASSUME runtime.kind = "amiga_title_stage"
                   PROVE  fire.recorded \subseteq fire.pressed
        BY DEF FireByteIsLive
      <3>1. runtime.active # NoRelease
        BY <2>1, EmptyRuntime DEF runtime, AmigaKinds
      <3>2. GateOK(runtime, settings, launcher, fire)
        BY DEF LoopInv
      <3> QED BY <3>1, <3>2 DEF GateOK, Unheard, AmigaKinds
    <2> QED BY <2>3, <2>4, <2>5, <2>6 DEF LoopIsSound
  <1> QED BY <1>1, LoopInvariant, PTL

(* Only leaving the game or losing its release ends a session, and no step *)
(* puts another one in its place.                                          *)
LEMMA SessionSteps ==
  ASSUME LoopInv, [Next]_vars, runtime.active # NoRelease, runtime'.serial # runtime.serial
  PROVE  /\ runtime'.active = NoRelease
         /\ screen' = "menu" \/ Source(launcher') # Source(launcher)
  <1>0. /\ FrontFor(front, launcher, screen) /\ RuntimeInv(front.runtime) /\ screen = "launching"
        /\ front = [runtime |-> front.runtime, presented |-> front.presented,
                    typing |-> front.typing, pack |-> front.pack]
        /\ runtime = front.runtime /\ runtime' = front'.runtime /\ ~OnCards
    BY DEF LoopInv, FrontFor, FrontOK, runtime, OnCards
  <1>a. front'.runtime.serial # front.runtime.serial
    BY <1>0
  <1>1. CASE Scan
    <2>1. PICK synced : /\ launcher' = synced /\ synced.game = launcher.game
                        /\ front' = ApplyLauncherNavigation(front, launcher, synced)
      <3>1. PICK more \in SUBSET (Release \ found) :
              /\ launcher' = Synchronize(launcher, found \cup more)
              /\ front' = ApplyLauncherNavigation(front, launcher,
                                                  Synchronize(launcher, found \cup more))
        BY <1>0, <1>1 DEF Scan
      <3>2. NotSubstituted(launcher, Synchronize(launcher, found \cup more))
        <4>1. found \cup more \subseteq Release /\ RouteOK(launcher, found \cup more)
          BY RouteGrows DEF LoopInv, CardsOK
        <4> QED BY <4>1, CardsSynchronized DEF LoopInv, CardsOK
      <3> QED BY <3>1, <3>2 DEF NotSubstituted
    <2> DEFINE applied == ApplyLauncherNavigation(front, launcher, synced)
    <2>2. \/ applied.runtime = front.runtime
          \/ /\ applied.runtime.active = NoRelease
             /\ front.runtime.active # NoRelease => Source(synced) # Source(launcher)
      BY <1>0, <2>1, NavigationFacts
    <2> HIDE DEF applied
    <2>3. front' = applied
      BY <2>1 DEF applied
    <2> QED BY <1>0, <1>a, <2>1, <2>2, <2>3
  <1>2. CASE OpenSourceDialog \/ CloseSourceDialog \/ OpenPackDialog \/ ClosePackDialog
    BY <1>2, <1>a DEF OpenSourceDialog, CloseSourceDialog, OpenPackDialog, ClosePackDialog
  <1>3. CASE ConsumeSource
    BY <1>0, <1>3, <1>a DEF ConsumeSource
  <1>4. CASE ConsumePack
    BY <1>0, <1>4, <1>a DEF ConsumePack
  <1>5. CASE MoveCard \/ EdgeCard \/ BackCard \/ ActivateFocused \/ PointAtCard
    BY <1>0, <1>5 DEF MoveCard, EdgeCard, BackCard, ActivateFocused, PointAtCard
  <1>6. CASE OpenSettings \/ CloseSettings
    <2>1. PICK suppressed \in BOOLEAN :
            front' = [front EXCEPT !.runtime = SetInputSuppressed(@, suppressed)]
      BY <1>6 DEF OpenSettings, CloseSettings
    <2>2. front'.runtime = SetInputSuppressed(front.runtime, suppressed)
      BY <1>0, <2>1
    <2> QED BY <1>0, <1>a, <2>2, SetInputSuppressedKeeps DEF Keeps
  <1>7. CASE ReturnToMenu
    <2>1. front' = ResetActiveRuntime(front) /\ screen' = "menu" /\ FrontOK(front)
      BY <1>0, <1>7 DEF ReturnToMenu, FrontFor
    <2> QED BY <1>0, <2>1, ResetFacts
  <1>8. CASE PressFire \/ ReleaseFire \/ LoseFocus
    <2>1. \/ front' = front
          \/ \E obs \in {"held", "released"} :
               front' = [front EXCEPT !.runtime = HostObserve(front.runtime, obs, TRUE).runtime]
      BY <1>8 DEF PressFire, ReleaseFire, LoseFocus, Forward, Observe, runtime
    <2>2. \/ front'.runtime = front.runtime
          \/ \E obs \in {"held", "released"} :
               front'.runtime = HostObserve(front.runtime, obs, TRUE).runtime
      BY <1>0, <2>1
    <2>3. PICK obs \in {"held", "released"} :
            front'.runtime = HostObserve(front.runtime, obs, TRUE).runtime
      BY <1>a, <2>2
    <2>4. obs \in Observations
      BY DEF Observations
    <2>5. HostObserve(front.runtime, obs, TRUE).runtime.serial = front.runtime.serial
      BY <1>0, <2>4, HostObserveKeeps DEF Keeps
    <2> QED BY <1>a, <2>3, <2>5
  <1>9. CASE TypeText
    <2>1. PICK obs \in {"ascii_choice", "ascii_other"}, succeeds \in BOOLEAN :
            front' = [front EXCEPT !.runtime = Observe(obs, succeeds).runtime,
                                   !.typing = Observe(obs, succeeds).disposition
                                                # "boundary_reached"]
      BY <1>9, Zenon DEF TypeText
    <2> DEFINE typing == Observe(obs, succeeds).disposition # "boundary_reached"
               next == Observe(obs, succeeds).runtime
    <2>a. front' = [front EXCEPT !.runtime = next, !.typing = typing]
      BY <2>1
    <2>b. next = HostObserve(front.runtime, obs, succeeds).runtime
      BY DEF Observe, runtime
    <2> HIDE DEF typing, next
    <2>2. front'.runtime = HostObserve(front.runtime, obs, succeeds).runtime
      BY <1>0, <2>a, <2>b
    <2> QED BY <1>0, <1>a, <2>2, HostObserveKeeps DEF Keeps, Observations
  <1>10. CASE DriveSession
    <2>1. front'.runtime = HostDrive(front.runtime)
      BY <1>0, <1>10 DEF DriveSession
    <2> QED BY <1>0, <1>a, <2>1, HostDriveKeeps DEF Keeps
  <1>11. CASE AdvanceOpening
    <2>1. PICK outcome \in TickOutcomes :
            front' = [front EXCEPT !.runtime = HostAdvance(@, outcome),
                                   !.presented = runtime.active]
      BY <1>11 DEF AdvanceOpening
    <2>2. front'.runtime = HostAdvance(front.runtime, outcome)
      BY <1>0, <2>1
    <2> QED BY <1>0, <1>a, <2>2, HostAdvanceKeeps DEF Keeps
  <1>12. CASE UNCHANGED vars
    BY <1>12, <1>a DEF vars
  <1> QED BY <1>1, <1>2, <1>3, <1>4, <1>5, <1>6, <1>7, <1>8, <1>9, <1>10, <1>11, <1>12 DEF Next

THEOREM SessionEndsHolds == Spec => SessionEndsForAReason
  <1>1. LoopInv /\ [Next]_vars =>
          [runtime.active # NoRelease /\ runtime'.serial # runtime.serial =>
             /\ runtime'.active = NoRelease
             /\ screen' = "menu" \/ Source(launcher') # Source(launcher)]_vars
    BY SessionSteps
  <1> QED BY <1>1, LoopInvariant, PTL DEF Spec, SessionEndsForAReason

----------------------------------------------------------------------------
(* The loop over the cards alone.  An instance has operators of its own:   *)
(* with the same releases they are the operators of the loop.              *)

LEMMA CardsOperations ==
  /\ Cards!InitLauncher = InitLauncher
  /\ \A l, known : Cards!Synchronize(l, known) = Synchronize(l, known)
  /\ \A l, known : Cards!FocusMenuCard(l, known) = FocusMenuCard(l, known)
  /\ \A l : Cards!ReplaceData(l) = ReplaceData(l)
  /\ \A l, known, direction : Cards!MoveCards(l, known, direction) = MoveCards(l, known, direction)
  /\ \A l, known, first : Cards!EdgeCards(l, known, first) = EdgeCards(l, known, first)
  /\ \A l, known : Cards!BackCards(l, known) = BackCards(l, known)
  /\ \A l, known : Cards!Activate(l, known) = Activate(l, known)
  /\ \A l, known, index : Cards!ActivateCard(l, known, index) = ActivateCard(l, known, index)
  /\ \A l : Cards!OnCustomCard(l) = OnCustomCard(l)
  /\ \A l : Cards!ConfirmCustom(l) = ConfirmCustom(l)
  /\ \A l : Cards!SourceIdentity(l) = SourceIdentity(l)
  <1>Cardinality. ASSUME NEW S PROVE Cards!Cardinality(S) = Cardinality(S)
    BY DEF Cards!Cardinality, Cardinality
  <1>InitLauncher. Cards!InitLauncher = InitLauncher
    BY DEF Cards!InitLauncher, InitLauncher, Cards!NoRelease, NoRelease, Cards!Pages, Pages,
       Cards!NoPlatform, NoPlatform, Cards!NoLanguage, NoLanguage
  <1>OnlyOne. ASSUME NEW S PROVE Cards!OnlyOne(S) = OnlyOne(S)
    BY <1>Cardinality DEF Cards!OnlyOne, OnlyOne, Cards!NoRelease, NoRelease
  <1>SelectSha. ASSUME NEW ids, NEW current
        PROVE  Cards!SelectSha(ids, current) = SelectSha(ids, current)
    BY <1>OnlyOne DEF Cards!SelectSha, SelectSha, Cards!NoRelease, NoRelease
  <1>FirstPlatform. ASSUME NEW known, NEW game
        PROVE  Cards!FirstPlatform(known, game) = FirstPlatform(known, game)
    BY DEF Cards!FirstPlatform, FirstPlatform, Cards!NoPlatform, NoPlatform,
       Cards!Identities, Identities, Cards!PlatformOrder, PlatformOrder
  <1>SelectPlatform. ASSUME NEW known, NEW game, NEW current
        PROVE  Cards!SelectPlatform(known, game, current) = SelectPlatform(known, game, current)
    BY <1>FirstPlatform DEF Cards!SelectPlatform, SelectPlatform, Cards!NoPlatform,
       NoPlatform, Cards!Identities, Identities
  <1>Resolve. ASSUME NEW known, NEW game, NEW platform, NEW sha, NEW language
        PROVE  Cards!Resolve(known, game, platform, sha, language) = Resolve(known, game, platform, sha, language)
    BY <1>OnlyOne, <1>SelectSha DEF Cards!Resolve, Resolve, Cards!NoRelease, NoRelease,
       Cards!Launchable, Launchable, Cards!NoLanguage, NoLanguage, Cards!Identities,
       Identities
  <1>ForgetRelease. ASSUME NEW l PROVE Cards!ForgetRelease(l) = ForgetRelease(l)
    BY DEF Cards!ForgetRelease, ForgetRelease, Cards!NoRelease, NoRelease, Cards!NoLanguage,
       NoLanguage
  <1>InvalidateCustom. ASSUME NEW l PROVE Cards!InvalidateCustom(l) = InvalidateCustom(l)
    BY DEF Cards!InvalidateCustom, InvalidateCustom
  <1>ChooseOriginal. ASSUME NEW l PROVE Cards!ChooseOriginal(l) = ChooseOriginal(l)
    BY <1>InvalidateCustom DEF Cards!ChooseOriginal, ChooseOriginal
  <1>ChooseModern. ASSUME NEW l PROVE Cards!ChooseModern(l) = ChooseModern(l)
    BY <1>InvalidateCustom DEF Cards!ChooseModern, ChooseModern
  <1>BeginCustom. ASSUME NEW l PROVE Cards!BeginCustom(l) = BeginCustom(l)
    BY DEF Cards!BeginCustom, BeginCustom
  <1>ConfirmCustom. ASSUME NEW l PROVE Cards!ConfirmCustom(l) = ConfirmCustom(l)
    BY DEF Cards!ConfirmCustom, ConfirmCustom
  <1>FocusGame. ASSUME NEW l, NEW known, NEW game
        PROVE  Cards!FocusGame(l, known, game) = FocusGame(l, known, game)
    BY <1>SelectPlatform, <1>ForgetRelease, <1>InvalidateCustom DEF Cards!FocusGame,
       FocusGame
  <1>ChoosePlatform. ASSUME NEW l, NEW known, NEW platform
        PROVE  Cards!ChoosePlatform(l, known, platform) = ChoosePlatform(l, known, platform)
    BY <1>SelectSha, <1>Resolve, <1>ForgetRelease, <1>InvalidateCustom DEF
       Cards!ChoosePlatform, ChoosePlatform, Cards!NoRelease, NoRelease, Cards!NoLanguage,
       NoLanguage, Cards!Identities, Identities, Cards!Selectable, Selectable,
       Cards!Launchable, Launchable
  <1>ChooseRelease. ASSUME NEW l, NEW known, NEW r
        PROVE  Cards!ChooseRelease(l, known, r) = ChooseRelease(l, known, r)
    BY <1>Resolve, <1>InvalidateCustom DEF Cards!ChooseRelease, ChooseRelease,
       Cards!NoRelease, NoRelease, Cards!NoPlatform, NoPlatform, Cards!NoLanguage,
       NoLanguage
  <1>RouteBack. ASSUME NEW l, NEW known PROVE Cards!RouteBack(l, known) = RouteBack(l, known)
    BY <1>InvalidateCustom, <1>Cardinality DEF Cards!RouteBack, RouteBack, Cards!Identities,
       Identities
  <1>ReconcileReleases. ASSUME NEW l, NEW known
        PROVE  Cards!ReconcileReleases(l, known) = ReconcileReleases(l, known)
    BY <1>ForgetRelease, <1>InvalidateCustom DEF Cards!ReconcileReleases, ReconcileReleases,
       Cards!NoRelease, NoRelease, Cards!NoPlatform, NoPlatform, Cards!Identities,
       Identities
  <1>ReleaseIsSelected. ASSUME NEW l PROVE Cards!ReleaseIsSelected(l) = ReleaseIsSelected(l)
    BY DEF Cards!ReleaseIsSelected, ReleaseIsSelected, Cards!NoRelease, NoRelease,
       Cards!NoPlatform, NoPlatform, Cards!NoLanguage, NoLanguage
  <1>CanLaunch. ASSUME NEW l PROVE Cards!CanLaunch(l) = CanLaunch(l)
    BY <1>ReleaseIsSelected DEF Cards!CanLaunch, CanLaunch
  <1>SourceIdentity. ASSUME NEW l PROVE Cards!SourceIdentity(l) = SourceIdentity(l)
    BY DEF Cards!SourceIdentity, SourceIdentity
  <1>CardCount. ASSUME NEW l, NEW known PROVE Cards!CardCount(l, known) = CardCount(l, known)
    BY DEF Cards!CardCount, CardCount, Cards!GameCards, GameCards, Cards!ProfileCards,
       ProfileCards, Cards!Supported, Supported, Cards!Identities, Identities
  <1>SetFocus. ASSUME NEW l, NEW page, NEW count, NEW index
        PROVE  Cards!SetFocus(l, page, count, index) = SetFocus(l, page, count, index)
    BY DEF Cards!SetFocus, SetFocus
  <1>ResetFocus. ASSUME NEW l, NEW pages PROVE Cards!ResetFocus(l, pages) = ResetFocus(l, pages)
    BY DEF Cards!ResetFocus, ResetFocus, Cards!Pages, Pages
  <1>AfterGameChange. ASSUME NEW l PROVE Cards!AfterGameChange(l) = AfterGameChange(l)
    BY <1>ResetFocus DEF Cards!AfterGameChange, AfterGameChange
  <1>AfterPlatformChange. ASSUME NEW l PROVE Cards!AfterPlatformChange(l) = AfterPlatformChange(l)
    BY <1>ResetFocus DEF Cards!AfterPlatformChange, AfterPlatformChange
  <1>FocusSelectedPlatform. ASSUME NEW l
        PROVE  Cards!FocusSelectedPlatform(l) = FocusSelectedPlatform(l)
    BY <1>SetFocus DEF Cards!FocusSelectedPlatform, FocusSelectedPlatform, Cards!Supported,
       Supported
  <1>Synchronize. ASSUME NEW l, NEW known
        PROVE  Cards!Synchronize(l, known) = Synchronize(l, known)
    BY <1>FocusGame, <1>ReconcileReleases, <1>CardCount, <1>SetFocus,
       <1>FocusSelectedPlatform DEF Cards!Synchronize, Synchronize, Cards!GameCards,
       GameCards
  <1>MovePlatformFocus. ASSUME NEW l, NEW known, NEW direction
        PROVE  Cards!MovePlatformFocus(l, known, direction) = MovePlatformFocus(l, known, direction)
    BY <1>SetFocus DEF Cards!MovePlatformFocus, MovePlatformFocus, Cards!Supported,
       Supported, Cards!Selectable, Selectable, Cards!Launchable, Launchable,
       Cards!Identities, Identities
  <1>EdgePlatformFocus. ASSUME NEW l, NEW known, NEW first
        PROVE  Cards!EdgePlatformFocus(l, known, first) = EdgePlatformFocus(l, known, first)
    BY <1>SetFocus DEF Cards!EdgePlatformFocus, EdgePlatformFocus, Cards!Supported,
       Supported, Cards!Selectable, Selectable, Cards!Launchable, Launchable,
       Cards!Identities, Identities
  <1>AfterFocus. ASSUME NEW l, NEW known, NEW page
        PROVE  Cards!AfterFocus(l, known, page) = AfterFocus(l, known, page)
    BY <1>InvalidateCustom, <1>Synchronize DEF Cards!AfterFocus, AfterFocus
  <1>Move. ASSUME NEW l, NEW known, NEW direction
        PROVE  Cards!Move(l, known, direction) = Move(l, known, direction)
    BY <1>CardCount, <1>SetFocus, <1>MovePlatformFocus, <1>AfterFocus DEF Cards!Move, Move
  <1>Edge. ASSUME NEW l, NEW known, NEW first
        PROVE  Cards!Edge(l, known, first) = Edge(l, known, first)
    BY <1>CardCount, <1>SetFocus, <1>EdgePlatformFocus, <1>AfterFocus DEF Cards!Edge, Edge
  <1>Back. ASSUME NEW l, NEW known PROVE Cards!Back(l, known) = Back(l, known)
    BY <1>RouteBack, <1>Synchronize DEF Cards!Back, Back
  <1>NthIdentity. ASSUME NEW ids, NEW index
        PROVE  Cards!NthIdentity(ids, index) = NthIdentity(ids, index)
    BY <1>Cardinality DEF Cards!NthIdentity, NthIdentity
  <1>LaunchIf. ASSUME NEW l PROVE Cards!LaunchIf(l) = LaunchIf(l)
    BY <1>CanLaunch DEF Cards!LaunchIf, LaunchIf
  <1>ActivateProfile. ASSUME NEW l PROVE Cards!ActivateProfile(l) = ActivateProfile(l)
    BY <1>ChooseOriginal, <1>ChooseModern, <1>BeginCustom, <1>LaunchIf DEF
       Cards!ActivateProfile, ActivateProfile, Cards!ProfileCards, ProfileCards
  <1>Activate. ASSUME NEW l, NEW known PROVE Cards!Activate(l, known) = Activate(l, known)
    BY <1>ChoosePlatform, <1>ChooseRelease, <1>CardCount, <1>SetFocus, <1>AfterGameChange,
       <1>AfterPlatformChange, <1>Synchronize, <1>NthIdentity, <1>ActivateProfile DEF
       Cards!Activate, Activate, Cards!NoPlatform, NoPlatform, Cards!Supported, Supported,
       Cards!Identities, Identities, Cards!Selectable, Selectable, Cards!Launchable,
       Launchable
  <1>ActivateCard. ASSUME NEW l, NEW known, NEW index
        PROVE  Cards!ActivateCard(l, known, index) = ActivateCard(l, known, index)
    BY <1>CardCount, <1>SetFocus, <1>Synchronize, <1>Activate DEF Cards!ActivateCard,
       ActivateCard
  <1>ResetForData. ASSUME NEW l, NEW game
        PROVE  Cards!ResetForData(l, game) = ResetForData(l, game)
    BY <1>ForgetRelease, <1>ChooseOriginal, <1>AfterGameChange DEF Cards!ResetForData,
       ResetForData, Cards!NoPlatform, NoPlatform, Cards!GameCards, GameCards
  <1>OnGames. ASSUME NEW l PROVE Cards!OnGames(l) = OnGames(l)
    BY <1>FocusSelectedPlatform DEF Cards!OnGames, OnGames
  <1>MoveCards. ASSUME NEW l, NEW known, NEW direction
        PROVE  Cards!MoveCards(l, known, direction) = MoveCards(l, known, direction)
    BY <1>AfterGameChange, <1>Move, <1>OnGames DEF Cards!MoveCards, MoveCards,
       Cards!NoPlatform, NoPlatform
  <1>EdgeCards. ASSUME NEW l, NEW known, NEW first
        PROVE  Cards!EdgeCards(l, known, first) = EdgeCards(l, known, first)
    BY <1>Edge, <1>OnGames DEF Cards!EdgeCards, EdgeCards
  <1>BackCards. ASSUME NEW l, NEW known PROVE Cards!BackCards(l, known) = BackCards(l, known)
    BY <1>Back, <1>OnGames DEF Cards!BackCards, BackCards
  <1>FocusMenuCard. ASSUME NEW l, NEW known
        PROVE  Cards!FocusMenuCard(l, known) = FocusMenuCard(l, known)
    BY <1>SetFocus, <1>AfterGameChange, <1>FocusSelectedPlatform, <1>Synchronize DEF
       Cards!FocusMenuCard, FocusMenuCard, Cards!NoPlatform, NoPlatform, Cards!GameCards,
       GameCards
  <1>ReplaceData. ASSUME NEW l PROVE Cards!ReplaceData(l) = ReplaceData(l)
    BY <1>ResetForData, <1>FocusMenuCard DEF Cards!ReplaceData, ReplaceData,
       Cards!GameCards, GameCards
  <1>OnCustomCard. ASSUME NEW l PROVE Cards!OnCustomCard(l) = OnCustomCard(l)
    BY DEF Cards!OnCustomCard, OnCustomCard, Cards!ProfileCards, ProfileCards
  <1> QED BY <1>InitLauncher, <1>Synchronize, <1>FocusMenuCard, <1>ReplaceData,
         <1>MoveCards, <1>EdgeCards, <1>BackCards, <1>Activate, <1>ActivateCard,
         <1>OnCustomCard, <1>ConfirmCustom, <1>SourceIdentity

(* The loop starts with the cards as Launcher starts them.                 *)
LEMMA CardsStart == Init => Cards!Init
  <1> SUFFICES ASSUME Init PROVE Cards!Init
    OBVIOUS
  <1>1. launcher = InitLauncher /\ launcher.ready = FALSE
    BY DEF Init, InitLauncher
  <1>2. launcher = Cards!InitLauncher
    BY <1>1, CardsOperations
  <1>3. (IF launcher.ready THEN SourceIdentity(launcher) ELSE << >>) = << >>
    BY <1>1
  <1> QED BY <1>2, <1>3 DEF Init, Cards!Init, Cards!Unconfirmed

(* A route that keeps its Custom keeps the identity it was confirmed for.  *)
LEMMA CustomStays ==
  ASSUME KeepsCustom(launcher, launcher')
  PROVE  Cards!StillConfirmed
  <1>1. CASE launcher'.ready
    BY <1>1 DEF KeepsCustom, Cards!StillConfirmed, SourceIdentity
  <1>2. CASE ~launcher'.ready
    BY <1>2 DEF Cards!StillConfirmed, Cards!Unconfirmed
  <1> QED BY <1>1, <1>2

LEMMA ScanOfCards ==
  ASSUME LoopInv, Scan
  PROVE  Cards!Scan
  <1>1. PICK more \in SUBSET (Release \ found) :
          LET releases == found \cup more
              synced   == Synchronize(launcher, releases)
          IN  /\ found' = releases
              /\ launcher' = IF screen = "menu" THEN FocusMenuCard(synced, releases) ELSE synced
    BY DEF Scan
  <1> DEFINE releases == found \cup more
             synced   == Synchronize(launcher, releases)
  <1>2. releases \subseteq Release /\ found \subseteq releases
    BY DEF LoopInv
  <1>3. RouteOK(launcher, releases) /\ ProfileShown(launcher) /\ GameShown(launcher)
    BY <1>2, RouteGrows DEF LoopInv, CardsOK
  <1>4. CardsOK(synced, releases) /\ KeepsCustom(launcher, synced)
    BY <1>2, <1>3, CardsSynchronized
  <1>5. KeepsCustom(synced, FocusMenuCard(synced, releases))
    BY <1>2, <1>4, FocusMenuCardKeeps DEF CardsOK
  <1>6. KeepsCustom(launcher, launcher')
    <2> HIDE DEF releases, synced
    <2>1. launcher' = IF screen = "menu" THEN FocusMenuCard(synced, releases) ELSE synced
      BY <1>1 DEF releases, synced
    <2> QED BY <1>4, <1>5, <2>1, KeepsAreTransitive
  <1>7. /\ found' = releases
        /\ launcher' = IF screen = "menu" THEN Cards!FocusMenuCard(synced, releases)
                       ELSE synced
        /\ synced = Cards!Synchronize(launcher, releases)
    BY <1>1, CardsOperations
  <1>8. Cards!StillConfirmed
    BY <1>6, CustomStays
  <1> QED BY <1>7, <1>8 DEF Scan, Cards!Scan

(* A dialog's result replaces the data over the cards, or is dropped over  *)
(* a launched game.                                                        *)
LEMMA SourceOfCards ==
  ASSUME LoopInv, ConsumeSource
  PROVE  Cards!SelectDataSource \/ UNCHANGED <<launcher, found, scanning, settings, screen>>
  <1>1. KeepsCustom(launcher, ReplaceData(launcher))
    BY ReplaceDataKeeps DEF LoopInv
  <1>2. CASE launcher' = ReplaceData(launcher)
    BY <1>1, <1>2, CustomStays, CardsOperations DEF ConsumeSource, Cards!SelectDataSource
  <1> QED BY <1>2 DEF ConsumeSource

LEMMA NavigationOfCards ==
  ASSUME LoopInv, MoveCard \/ EdgeCard \/ BackCard
  PROVE  Cards!Next
  <1>1. OnCards /\ UNCHANGED <<found, scanning, settings, screen>> /\ Cards!OnCards
    BY DEF MoveCard, EdgeCard, BackCard, Navigate, OnCards, Cards!OnCards
  <1>2. /\ found \subseteq Release /\ CardsOK(launcher, found) /\ FocusOK(launcher, found)
    BY DEF LoopInv
  <1>3. CASE MoveCard
    <2>1. PICK direction \in {-1, 1} : launcher' = MoveCards(launcher, found, direction)
      BY <1>3 DEF MoveCard, Navigate
    <2>2. KeepsCustom(launcher, launcher')
      BY <1>2, <2>1, MoveCardsKeeps DEF EventKeeps
    <2>3. launcher' = Cards!MoveCards(launcher, found, direction)
      BY <2>1, CardsOperations
    <2>4. Cards!StillConfirmed
      BY <2>2, CustomStays
    <2> QED BY <1>1, <2>3, <2>4 DEF Cards!MoveCard, Cards!Next
  <1>4. CASE EdgeCard
    <2>1. PICK first \in BOOLEAN : launcher' = EdgeCards(launcher, found, first)
      BY <1>4 DEF EdgeCard, Navigate
    <2>2. KeepsCustom(launcher, launcher')
      BY <1>2, <2>1, EdgeCardsKeeps DEF EventKeeps
    <2>3. launcher' = Cards!EdgeCards(launcher, found, first)
      BY <2>1, CardsOperations
    <2>4. Cards!StillConfirmed
      BY <2>2, CustomStays
    <2> QED BY <1>1, <2>3, <2>4 DEF Cards!EdgeCard, Cards!Next
  <1>5. CASE BackCard
    <2>1. launcher.page # "games" /\ launcher' = BackCards(launcher, found)
      BY <1>5 DEF BackCard, Navigate
    <2>2. KeepsCustom(launcher, launcher')
      BY <1>2, <2>1, BackCardsKeeps DEF EventKeeps
    <2>3. launcher' = Cards!BackCards(launcher, found)
      BY <2>1, CardsOperations
    <2>4. Cards!StillConfirmed
      BY <2>2, CustomStays
    <2> QED BY <1>1, <2>1, <2>3, <2>4 DEF Cards!BackCard, Cards!Next
  <1> QED BY <1>3, <1>4, <1>5

(* What the loop makes of an activated card is what the cards allow.       *)
LEMMA ApplicationOfCards ==
  ASSUME OnCards, settings \in BOOLEAN, NEW result, KeepsCustom(launcher, result.launcher),
         result.effect \in Effects, ActivateLauncherCard(result)
  PROVE  Cards!Apply(result)
  <1>1. /\ launcher' = result.launcher /\ UNCHANGED <<found, scanning>>
        /\ settings = FALSE
    BY DEF ActivateLauncherCard, OnCards
  <1>2. Cards!StillConfirmed
    BY <1>1, CustomStays
  <1>3. CASE result.effect = "open_custom_settings"
    <2>1. settings' = TRUE /\ screen' = screen
      BY <1>3, Zenon DEF ActivateLauncherCard
    <2> QED BY <1>1, <1>2, <1>3, <2>1 DEF Cards!Apply
  <1>4. CASE result.effect = "launch"
    <2>1. /\ screen' = IF front'.runtime.active = NoRelease THEN "menu" ELSE "launching"
          /\ settings' = settings
      BY <1>4 DEF ActivateLauncherCard
    <2> QED BY <1>1, <1>2, <1>4, <2>1 DEF Cards!Apply
  <1>5. CASE result.effect = "none"
    <2>1. settings' = settings /\ screen' = screen
      BY <1>5 DEF ActivateLauncherCard
    <2> QED BY <1>1, <1>2, <1>5, <2>1 DEF Cards!Apply
  <1> QED BY <1>3, <1>4, <1>5 DEF Effects

LEMMA ActivationOfCards ==
  ASSUME LoopInv, ActivateFocused \/ PointAtCard
  PROVE  Cards!Next
  <1>1. /\ found \subseteq Release /\ CardsOK(launcher, found) /\ FocusOK(launcher, found)
        /\ OnCards /\ Cards!OnCards /\ settings \in BOOLEAN
    BY DEF LoopInv, ActivateFocused, PointAtCard, OnCards, Cards!OnCards
  <1>2. CASE ActivateFocused
    <2> DEFINE result == Activate(launcher, found)
    <2>1. ActivateLauncherCard(result)
      BY <1>2 DEF ActivateFocused
    <2>2. KeepsCustom(launcher, result.launcher) /\ result.effect \in Effects
      BY <1>1, ActivateKeeps DEF ActivationKeeps, EventKeeps
    <2>3. result = Cards!Activate(launcher, found)
      BY CardsOperations
    <2> HIDE DEF result
    <2>4. Cards!Apply(result)
      BY <1>1, <2>1, <2>2, ApplicationOfCards
    <2> QED BY <1>1, <2>3, <2>4 DEF Cards!ActivateFocused, Cards!Next
  <1>3. CASE PointAtCard
    <2>1. PICK index \in 0..2 : ActivateLauncherCard(ActivateCard(launcher, found, index))
      BY <1>3 DEF PointAtCard
    <2> DEFINE result == ActivateCard(launcher, found, index)
    <2>2. KeepsCustom(launcher, result.launcher) /\ result.effect \in Effects
      BY <1>1, ActivateCardKeeps DEF EventKeeps
    <2>3. result = Cards!ActivateCard(launcher, found, index)
      BY CardsOperations
    <2>4. ActivateLauncherCard(result)
      BY <2>1
    <2> HIDE DEF result
    <2>5. Cards!Apply(result)
      BY <1>1, <2>2, <2>4, ApplicationOfCards
    <2> QED BY <1>1, <2>3, <2>5 DEF Cards!PointAtCard, Cards!Next
  <1> QED BY <1>2, <1>3

(* The modal, over the cards and over a launched game.                     *)
LEMMA ModalOfCards ==
  ASSUME LoopInv, OpenSettings \/ CloseSettings \/ ReturnToMenu
  PROVE  Cards!Next
  <1>1. CASE OpenSettings
    BY <1>1 DEF OpenSettings, Cards!OpenSettings, Cards!Next
  <1>2. CASE ReturnToMenu
    BY <1>2 DEF ReturnToMenu, Cards!ReturnToMenu, Cards!Next
  <1>3. CASE CloseSettings /\ screen = "menu" /\ OnCustomCard(launcher)
    <2>1. launcher' = ConfirmCustom(launcher) /\ launcher' = Cards!ConfirmCustom(launcher)
      BY <1>3, CardsOperations DEF CloseSettings
    <2>2. /\ launcher'.ready /\ launcher'.game = launcher.game
          /\ launcher'.sha = launcher.sha /\ launcher'.language = launcher.language
          /\ launcher'.platform = launcher.platform
      BY <2>1, ConfirmCustomKeeps DEF LoopInv, NotSubstituted
    <2>3. (IF launcher.ready THEN SourceIdentity(launcher) ELSE << >>)' =
            Cards!SourceIdentity(launcher)
      BY <2>2, CardsOperations DEF SourceIdentity
    <2>4. Cards!OnCustomCard(launcher)
      BY <1>3, CardsOperations
    <2>5. Cards!CloseSettings
      BY <1>3, <2>1, <2>3, <2>4 DEF CloseSettings, Cards!CloseSettings
    <2> QED BY <2>5 DEF Cards!Next
  <1>4. CASE CloseSettings /\ ~(screen = "menu" /\ OnCustomCard(launcher))
    <2>1. launcher' = launcher
      BY <1>4 DEF CloseSettings
    <2>2. Cards!StillConfirmed
      BY <2>1, CustomStays DEF KeepsCustom
    <2>3. Cards!OnCustomCard(launcher) = OnCustomCard(launcher)
      BY CardsOperations
    <2>4. Cards!CloseSettings
      BY <1>4, <2>1, <2>2, <2>3 DEF CloseSettings, Cards!CloseSettings
    <2> QED BY <2>4 DEF Cards!Next
  <1> QED BY <1>1, <1>2, <1>3, <1>4

(* Every step of the loop is a step of the cards, or leaves them alone.    *)
LEMMA CardsSteps ==
  ASSUME LoopInv, [Next]_vars
  PROVE  [Cards!Next]_(Cards!vars)
  <1> DEFINE shown == <<launcher, found, scanning, settings, screen>>
  <1>1. ASSUME UNCHANGED shown PROVE UNCHANGED Cards!vars
    BY <1>1 DEF Cards!vars
  <1>2. CASE Scan
    BY <1>2, ScanOfCards DEF Cards!Next
  <1>3. CASE ConsumeSource
    BY <1>1, <1>3, SourceOfCards DEF Cards!Next
  <1>4. CASE MoveCard \/ EdgeCard \/ BackCard
    BY <1>4, NavigationOfCards
  <1>5. CASE ActivateFocused \/ PointAtCard
    BY <1>5, ActivationOfCards
  <1>6. CASE OpenSettings \/ CloseSettings \/ ReturnToMenu
    BY <1>6, ModalOfCards
  <1>7. CASE OpenSourceDialog \/ CloseSourceDialog \/ OpenPackDialog \/ ClosePackDialog
             \/ ConsumePack
    <2>1. UNCHANGED shown
      BY <1>7 DEF OpenSourceDialog, CloseSourceDialog, OpenPackDialog, ClosePackDialog,
         ConsumePack
    <2> QED BY <1>1, <2>1
  <1>8. CASE PressFire \/ ReleaseFire \/ LoseFocus \/ TypeText \/ DriveSession
             \/ AdvanceOpening
    <2>1. UNCHANGED shown
      BY <1>8 DEF PressFire, ReleaseFire, LoseFocus, TypeText, DriveSession, AdvanceOpening
    <2> QED BY <1>1, <2>1
  <1>9. CASE UNCHANGED vars
    <2>1. UNCHANGED shown
      BY <1>9 DEF vars
    <2> QED BY <1>1, <2>1
  <1> QED BY <1>2, <1>3, <1>4, <1>5, <1>6, <1>7, <1>8, <1>9 DEF Next

(* The event loop uses the cards only as Launcher lets a user and a        *)
(* scanner do: a runtime call, a dialog or a fire button never moves them, *)
(* and what happens to them between two frames is one of their own steps.  *)
THEOREM LoopImplementsLauncher == Spec => ImplementsLauncher
  <1>1. Init => Cards!Init
    BY CardsStart
  <1>2. LoopInv /\ [Next]_vars => [Cards!Next]_(Cards!vars)
    BY CardsSteps
  <1> QED BY <1>1, <1>2, LoopInvariant, PTL DEF Spec, Cards!Spec, ImplementsLauncher
=============================================================================

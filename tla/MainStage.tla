------------------------------ MODULE MainStage ------------------------------
(***************************************************************************)
(* The main stage of the Amiga Deuteros, from the bootstrap that loads it  *)
(* to the hand-over back to the title: the main_stage_ members of          *)
(* DeuterosAmigaTitleServiceBatchBoundarySession, the recovered routines   *)
(* of its outer loop, and the coordinator's operations on both.            *)
(*                                                                         *)
(* The session stands at a boundary: stage.phase while it starts up, and   *)
(* then stage.at, the one address its loop plan names (a pending read, a   *)
(* call, or an instruction).  What the bounded Motorola code decides from  *)
(* memory is a choice here, except the words that later guards read.       *)
(*                                                                         *)
(* Every coordinator operation works on copies of the session and of the   *)
(* memory and then commits both, so a refused one changes nothing, and the *)
(* trace sequence every observation must raise is the step count.          *)
(***************************************************************************)
EXTENDS Naturals, Edges

CONSTANTS WordLimit,      \* values of the resource word $21704 (2^16)
          FadeSteps,      \* palette pairs of one fade (32)
          CommandBudget,  \* commands of one scheduler pass (4096)
          StepLimit       \* transitions of one drive (64)

ASSUME StageAssumption ==
  /\ WordLimit \in Nat /\ WordLimit >= 3
  /\ FadeSteps \in Nat \ {0} /\ CommandBudget \in Nat \ {0} /\ StepLimit \in Nat \ {0}

VARIABLES stage,  \* the session
          frame   \* the coordinator's palette, and the frame it has composed

stageVars == <<stage, frame>>

NewStage ==
  [phase |-> "awaiting_profile_two_bootstrap", at |-> "none", body |-> FALSE,
   graphics |-> 0, requested |-> FALSE, opaque |-> "none", first |-> TRUE,
   caller |-> "none", exit |-> "none", word |-> 0, fade |-> 0, budget |-> 0]

NewFrame == [palette |-> FALSE, pending |-> FALSE]

StageInit == stage = NewStage /\ frame = NewFrame

(* reset_main_stage_loop_continuations, at each return to $21816.          *)
Restarted(s) ==
  [s EXCEPT !.at = "restart", !.body = FALSE, !.graphics = 0, !.requested = FALSE,
            !.opaque = "none", !.first = TRUE, !.caller = "none", !.exit = "none"]

-----------------------------------------------------------------------------
(* Start-up: each phase is left by one answer.                             *)

EntryEdges ==
  {<<"awaiting_first_exec_return", "awaiting_second_exec_return">>,
   <<"awaiting_second_exec_return", "awaiting_first_local_return">>,
   <<"awaiting_first_local_return", "awaiting_pointer_service_return">>,
   <<"awaiting_pointer_service_return", "awaiting_audio_setup">>,
   <<"awaiting_audio_setup", "awaiting_20994_entry">>}

DeviceEdges ==
  {<<"awaiting_2099e_exec_return", "awaiting_209ca_exec_return">>,
   <<"awaiting_209ca_exec_return", "awaiting_209f0_exec_return">>}

LoopEdges ==
  {<<"awaiting_cia_a_bit_set", "awaiting_initial_resource_load">>,
   <<"awaiting_initial_loop_service_return", "awaiting_loop_prepare_body">>}

(* The phases in which the loop's own body has been reached.               *)
LoopPhases ==
  {"awaiting_loop_prepare_body", "awaiting_first_loop_graphics_return",
   "awaiting_second_loop_graphics_return", "awaiting_loop_request_service",
   "awaiting_optional_resource_cia", "awaiting_record_loop", "loop_runtime_active"}

StartupEdges == EntryEdges \cup DeviceEdges \cup LoopEdges

(* The re-entry brings the resource word; a device that does not open ends *)
(* in a spin; the first resource is loaded only for one of the two words.  *)
Startup(s) ==
  {[s EXCEPT !.phase = p] : p \in EdgeEnds(StartupEdges, s.phase)} \cup
  CASE s.phase = "awaiting_reentry_d0" ->
         {[s EXCEPT !.phase = "awaiting_first_exec_return", !.word = w] : w \in 0..(WordLimit - 1)}
    [] s.phase = "awaiting_209f0_exec_return" ->
         {[s EXCEPT !.phase = p] : p \in {"terminal_209fa_spin", "awaiting_cia_a_bit_set"}}
    [] s.phase = "awaiting_initial_resource_load" /\ s.word <= 1 ->
         {[s EXCEPT !.phase = "awaiting_initial_loop_service_return"]}
    [] OTHER -> {}

(* Two phases are left by a step of the program itself.                    *)
EnterBootstrap(s) ==
  {[s EXCEPT !.phase = "awaiting_reentry_d0"]
     : p \in {"awaiting_profile_two_bootstrap"} \cap {s.phase}}

EnterAudioService(s) ==
  {[s EXCEPT !.phase = "awaiting_2099e_exec_return"] : p \in {"awaiting_20994_entry"} \cap {s.phase}}

-----------------------------------------------------------------------------
(* One turn of the loop: its preparation, the records, a frame.            *)

PrepareBody(s) ==
  IF s.phase \notin LoopPhases \/ s.body \/ s.opaque # "none" THEN {}
  ELSE {[s EXCEPT !.body = TRUE,
                  !.phase = IF @ = "awaiting_loop_prepare_body"
                            THEN "awaiting_first_loop_graphics_return" ELSE @,
                  !.at = IF @ = "restart" THEN "none" ELSE @]}

(* Instead of its body, the return of the whole preparation can be         *)
(* observed, and then that of the scheduler; nothing goes on from there.   *)
PrepareReturn(s) ==
  IF s.phase \notin LoopPhases \/ s.body \/ s.opaque # "none" THEN {}
  ELSE {[s EXCEPT !.opaque = "prepared"]}

SchedulerReturn(s) ==
  IF s.opaque = "prepared" THEN {[s EXCEPT !.opaque = "scheduled"]} ELSE {}

GraphicsPhases ==
  {<<"awaiting_first_loop_graphics_return", "awaiting_second_loop_graphics_return">>,
   <<"awaiting_second_loop_graphics_return", "awaiting_loop_request_service">>}

GraphicsReturn(s) ==
  IF ~s.body \/ s.graphics >= 2 THEN {}
  ELSE {[s EXCEPT !.graphics = @ + 1, !.phase = p,
                  !.at = IF s.graphics = 0 THEN "second_palette" ELSE "request"]
          : p \in IF s.phase \in Sources(GraphicsPhases)
                  THEN EdgeEnds(GraphicsPhases, s.phase) ELSE {s.phase}}

(* The request's return names an optional resource or none.                *)
RequestReturn(s) ==
  IF s.at = "none" \/ s.graphics # 2 \/ s.requested
     \/ s.phase \notin {"awaiting_loop_request_service", "loop_runtime_active"} THEN {}
  ELSE {[s EXCEPT !.requested = TRUE, !.at = "optional_resource",
                  !.phase = "awaiting_optional_resource_cia"],
        [s EXCEPT !.requested = TRUE, !.at = "records", !.phase = "awaiting_record_loop"]}

OptionalResource(s) ==
  IF s.phase # "awaiting_optional_resource_cia" THEN {}
  ELSE {[s EXCEPT !.at = "records", !.phase = "awaiting_record_loop"]}

RecordLoop(s) ==
  IF ~s.requested \/ s.at # "records" \/ s.phase # "awaiting_record_loop" THEN {}
  ELSE {[s EXCEPT !.at = "scheduler", !.phase = "loop_runtime_active"]}

(* A pass runs the records' commands out of one budget.  A palette command *)
(* stops it, and after the palette it goes on with what is left; without   *)
(* any left it is refused.                                                 *)
SchedulerPass(s) ==
  LET left == IF s.at = "scheduler" THEN CommandBudget ELSE s.budget
  IN IF s.at \notin {"scheduler", "command_resume"} \/ left = 0 THEN {}
     ELSE {[s EXCEPT !.at = "frame_buffer", !.budget = 0]}
          \cup {[s EXCEPT !.at = "palette_command", !.budget = b] : b \in 0..(left - 1)}

CommandPalette(s) ==
  IF s.at = "palette_command" THEN {[s EXCEPT !.at = "first_command_palette"]} ELSE {}

(* Mutant: the fade starts again instead of counting down.                 *)
PaletteReturnEndless(s) ==
  CASE s.at = "first_command_palette" -> {[s EXCEPT !.at = "second_command_palette"]}
    [] s.at = "second_command_palette" -> {[s EXCEPT !.at = "command_resume"]}
    [] s.at = "first_fade_palette" -> {[s EXCEPT !.at = "second_fade_palette"]}
    [] s.at = "second_fade_palette" -> {[s EXCEPT !.at = "fade_wait"]}
    [] OTHER -> {}

(* The two palettes of a command stop, and the two of a fade step.         *)
PaletteReturn(s) ==
  CASE s.at = "first_command_palette" -> {[s EXCEPT !.at = "second_command_palette"]}
    [] s.at = "second_command_palette" -> {[s EXCEPT !.at = "command_resume"]}
    [] s.at = "first_fade_palette" -> {[s EXCEPT !.at = "second_fade_palette"]}
    [] s.at = "second_fade_palette" ->
         {[s EXCEPT !.fade = @ - 1, !.at = IF s.fade = 1 THEN "fade_buffers" ELSE "fade_wait"]}
    [] OTHER -> {}

FrameBuffer(s) ==
  IF s.at = "frame_buffer" THEN {[s EXCEPT !.at = "view_selection"]} ELSE {}

ViewSelection(s) ==
  IF s.at = "view_selection" THEN {[s EXCEPT !.at = "view_call"]} ELSE {}

(* The view is loaded, and bit five of the beam position waited for.  The  *)
(* first view of a turn returns to the scheduler, the others to the input. *)
ViewLoaded(s) == [s EXCEPT !.at = IF s.first THEN "scheduler" ELSE "outer_input", !.first = FALSE]

ViewWait(s) ==
  IF s.at \notin {"view_call", "view_wait"} THEN {}
  ELSE {[s EXCEPT !.at = "view_wait"], ViewLoaded(s)}


-----------------------------------------------------------------------------
(* The end of a turn: the inputs, the fade, the counter and the services.  *)

(* Where a transition goes: with a palette to fade out, or straight to the *)
(* counter.                                                                *)
Transition(s, exit, caller) ==
  {[s EXCEPT !.exit = exit, !.caller = caller, !.at = "fade_wait", !.fade = FadeSteps],
   [s EXCEPT !.exit = exit, !.caller = caller, !.at = "counter"]}

PrimaryInput(s) ==
  Transition(s, "request", "primary") \cup Transition(s, "restart", "none")
    \cup {[s EXCEPT !.at = "secondary_input", !.caller = "none"]}

(* The bounded code from $2185e ends in one of two ways: idle, at $2181c,  *)
(* or with the transition, which compares the low byte of the resource     *)
(* word and raises a low one.                                              *)
IdleRoute(s) == {[s EXCEPT !.at = "idle_2181c", !.caller = "none"]}

TransitionRoute(s) ==
  IF s.word % 256 > 2 THEN {[s EXCEPT !.at = "scheduler", !.caller = "none"]}
  ELSE Transition([s EXCEPT !.word = IF @ % 256 < 2 THEN 1 ELSE @], "request", "none")

(* The session accepts three continuations from there and throws on others.*)
SecondaryInput(s) ==
  {t \in IdleRoute(s) \cup TransitionRoute(s) : t.at \in {"scheduler", "fade_wait", "counter"}}

(* A fade step waits for bit five, a restart for the released button.      *)
OuterInput(s) ==
  CASE s.at = "outer_input" -> PrimaryInput(s)
    [] s.at = "secondary_input" -> SecondaryInput(s)
    [] s.at = "fade_wait" -> {s, [s EXCEPT !.at = "first_fade_palette"]}
    [] s.at = "release" -> {s, Restarted(s)}
    [] OTHER -> {}

FadeBuffers(s) == IF s.at = "fade_buffers" THEN {[s EXCEPT !.at = "counter"]} ELSE {}

Counter(s) ==
  IF s.at \notin {"counter", "counter_again"} THEN {}
  ELSE {[s EXCEPT !.at = "counter_again"], [s EXCEPT !.at = "counter_service"]}

(* The next resource word, and which of three ways it goes on.             *)
Selector(s) == (s.word + 1) % WordLimit

Selected(s) ==
  CASE Selector(s) = 2 -> "special"
    [] Selector(s) = 3 -> "disk"
    [] OTHER -> "resource"

ResourceIndex(s) == IF Selector(s) >= 5 THEN 0 ELSE Selector(s)

(* The hand-over to the title: its service answers, one after another.     *)
Handoff ==
  {<<"special", "handoff_return">>, <<"handoff_return", "bootstrap">>,
   <<"bootstrap", "at_12818">>, <<"at_12818", "at_128be">>, <<"at_128be", "at_128ea">>,
   <<"at_128ea", "at_12910">>}

(* Only when the auxiliary graphics are not configured are they set up.    *)
HandoffGraphics ==
  {<<"at_13034", "at_13058">>, <<"at_13058", "at_13068">>, <<"at_13068", "at_1309e">>,
   <<"at_1309e", "at_13154">>, <<"at_13154", "at_13188">>, <<"at_13188", "at_1319a">>,
   <<"at_1319a", "at_131a6">>, <<"at_131a6", "at_131bc">>, <<"at_131bc", "at_131cc">>,
   <<"at_131cc", "at_13202">>, <<"at_13202", "at_132c0">>, <<"at_132c0", "at_132f4">>,
   <<"at_132f4", "at_13306">>, <<"at_13306", "at_12a7a">>}

HandoffAuxiliary ==
  {<<"at_12a7a", "at_13322">>, <<"at_13322", "at_13354">>, <<"at_13354", "auxiliary">>,
   <<"at_133aa", "at_12a7e">>}

HandoffLoad ==
  {<<"at_12a7e", "at_12a92">>, <<"at_12a92", "at_12ad2">>, <<"at_12ad2", "at_12aee">>,
   <<"at_12aee", "at_12afc">>, <<"at_12afc", "at_12b0a">>, <<"at_12b0a", "title_entry">>}

HandoffEdges == Handoff \cup HandoffGraphics \cup HandoffAuxiliary \cup HandoffLoad

OuterService(s) ==
  {[s EXCEPT !.at = a] : a \in EdgeEnds(HandoffEdges, s.at)} \cup
  CASE s.at = "counter_service" ->
         {[s EXCEPT !.at = IF s.exit = "restart" THEN "release" ELSE "request_service"]}
    [] s.at = "request_service" -> {[s EXCEPT !.at = Selected(s)]}
    [] s.at = "at_12910" ->
         {[s EXCEPT !.at = a] : a \in {"spin_1291a", "at_12a7e", "at_12a76"}}
    [] s.at = "at_12a76" -> {[s EXCEPT !.at = "at_13028"]}
    [] s.at = "at_13028" -> {[s EXCEPT !.at = a] : a \in {"at_13034", "at_13058"}}
    [] OTHER -> {}

AuxiliaryLocalPath(s) == IF s.at = "auxiliary" THEN {[s EXCEPT !.at = "at_133aa"]} ELSE {}

(* A resource of the request is loaded, and the loop restarts for the      *)
(* caller that comes back; from another caller nothing follows.            *)
RecurringResource(s) ==
  IF s.at # "resource" \/ ResourceIndex(s) > 1 THEN {}
  ELSE IF s.caller = "primary" THEN {[Restarted(s) EXCEPT !.word = ResourceIndex(s)]}
  ELSE {[s EXCEPT !.at = "resource_done"]}

-----------------------------------------------------------------------------
(* What the program does by itself, and the boundaries the driver knows.   *)

PhaseSteps == {"awaiting_20994_entry", "awaiting_loop_prepare_body", "awaiting_record_loop"}
PlanSteps ==
  {"scheduler", "command_resume", "view_selection", "palette_command", "fade_buffers"}

OwnSteps(s) ==
  EnterBootstrap(s) \cup EnterAudioService(s) \cup PrepareBody(s) \cup RecordLoop(s)
    \cup SchedulerPass(s) \cup CommandPalette(s) \cup ViewSelection(s) \cup FadeBuffers(s)
    \cup AuxiliaryLocalPath(s)

(* The driver goes by the phase first and by the plan after it.            *)
DriverSteps(s) ==
  CASE s.phase = "awaiting_20994_entry"       -> EnterAudioService(s)
    [] s.phase = "awaiting_loop_prepare_body" -> PrepareBody(s)
    [] s.phase = "awaiting_record_loop"       -> RecordLoop(s)
    [] s.at \in {"scheduler", "command_resume"} -> SchedulerPass(s)
    [] s.at = "view_selection"  -> ViewSelection(s)
    [] s.at = "palette_command" -> CommandPalette(s)
    [] s.at = "fade_buffers"    -> FadeBuffers(s)
    [] OTHER -> {}

(* Where the driver stops on a step it knows: its limit, or a refusal.     *)
Knows(s) == s.phase \in PhaseSteps \/ s.at \in PlanSteps

(* The stages a drive of at most n steps can end in.  The outcome of each  *)
(* step is a choice, so they are a set, folded over the steps made.        *)
DriveStepped(ends) == UNION {IF DriverSteps(s) = {} THEN {s} ELSE DriverSteps(s) : s \in ends}

StageDriven(s) ==
  LET after[n \in 0..StepLimit] == IF n = 0 THEN {s} ELSE DriveStepped(after[n - 1])
  IN after[StepLimit]

-----------------------------------------------------------------------------
(* The coordinator's operations.                                           *)

Answers(s) ==
  Startup(s) \cup PrepareReturn(s) \cup SchedulerReturn(s) \cup RequestReturn(s)
    \cup OptionalResource(s) \cup OuterInput(s) \cup Counter(s) \cup OuterService(s)
    \cup RecurringResource(s)

StageAnswered == \E s \in Answers(stage) : stage' = s /\ UNCHANGED frame

(* The beam position a fade step waits for comes round.                    *)
BeamAnswered == stage.at = "fade_wait" /\ StageAnswered

(* The second palette of each pair is the one the frames are shown with.   *)
PaletteAnswered ==
  \E s \in GraphicsReturn(stage) \cup PaletteReturn(stage) :
    /\ stage' = s
    /\ frame' = [frame EXCEPT !.palette = @ \/ stage.at \in
                   {"second_palette", "second_command_palette", "second_fade_palette"}]

(* A frame is composed with the palette and waits to be shown.             *)
FrameComposed ==
  \E s \in FrameBuffer(stage) :
    /\ frame.palette
    /\ stage' = s
    /\ frame' = [frame EXCEPT !.pending = TRUE]

(* Mutant: a view that is still waited for shows the frame.                *)
FrameShownEarly ==
  \E s \in ViewWait(stage) : stage' = s /\ frame' = [frame EXCEPT !.pending = FALSE]

(* It is shown when the view has been waited for.                          *)
FrameShown ==
  \E s \in ViewWait(stage) :
    /\ stage' = s
    /\ frame' = [frame EXCEPT !.pending = @ /\ s.at = "view_wait"]

OwnStep == \E s \in OwnSteps(stage) : stage' = s /\ UNCHANGED frame

DriveStage == \E s \in StageDriven(stage) : stage' = s /\ UNCHANGED frame

StageStep == StageAnswered \/ PaletteAnswered \/ FrameComposed \/ FrameShown \/ OwnStep \/ DriveStage

StageSpec ==
  /\ StageInit /\ [][StageStep]_stageVars
  /\ WF_stageVars(DriveStage) /\ WF_stageVars(PaletteAnswered) /\ WF_stageVars(BeamAnswered)

-----------------------------------------------------------------------------
(* Properties.                                                             *)

StagePhases ==
  {"awaiting_profile_two_bootstrap", "awaiting_reentry_d0", "awaiting_20994_entry",
   "awaiting_209f0_exec_return", "awaiting_initial_resource_load", "terminal_209fa_spin"}
    \cup Sources(StartupEdges) \cup LoopPhases

StagePlaces ==
  {"none", "restart", "second_palette", "request", "optional_resource", "records", "frame_buffer",
   "first_command_palette", "second_command_palette", "first_fade_palette",
   "second_fade_palette", "view_call", "view_wait", "outer_input", "secondary_input",
   "fade_wait", "release", "counter", "counter_again", "counter_service",
   "request_service", "resource", "disk", "resource_done", "spin_1291a", "at_12a76",
   "at_13028", "auxiliary", "at_12910", "title_entry"} \cup PlanSteps \cup Sources(HandoffEdges)

Stages ==
  [phase : StagePhases, at : StagePlaces, body : BOOLEAN, graphics : 0..2,
   requested : BOOLEAN, opaque : {"none", "prepared", "scheduled"}, first : BOOLEAN,
   caller : {"none", "primary"}, exit : {"none", "request", "restart"},
   word : 0..(WordLimit - 1), fade : 0..FadeSteps, budget : 0..(CommandBudget - 1)]

(* The type invariant.                                                     *)
StageTypeOK == stage \in Stages /\ frame \in [palette : BOOLEAN, pending : BOOLEAN]

(* A composed frame waits exactly while its view is selected, loaded and   *)
(* waited for: it is neither shown over a view of an earlier frame, nor    *)
(* kept for a later one, nor composed twice (FrameComposed, FrameShown).   *)
FrameIsPending == frame.pending <=> stage.at \in {"view_selection", "view_call", "view_wait"}

(* A resource request always finds a resource that can be loaded and the   *)
(* caller it returns to, and the branch to the disk is never taken: the    *)
(* resource word is raised past one on the way to the title only.          *)
ResourceReturns ==
  /\ stage.at = "resource" => stage.caller = "primary" /\ ResourceIndex(stage) <= 1
  /\ stage.at \notin {"disk", "resource_done"}

(* A pass of the main stage shows the frame it composed, and comes back    *)
(* from the resources it asked for.                                        *)
StageIsSound == FrameIsPending /\ ResourceReturns

(* A scheduler pass and a fade come to their end while the driver runs,    *)
(* palettes are answered and the beam comes round: a pass at its frame, or *)
(* at a palette command that used up its budget, a fade at the counter.    *)
PassesEnd ==
  stage.at \in {"scheduler", "fade_wait"}
    ~> \/ stage.at \in {"frame_buffer", "counter"}
       \/ stage.at = "command_resume" /\ stage.budget = 0

(* The secondary input's code either goes on or returns idle through       *)
(* $2181c; both ends ought to be accepted.                                 *)
IdleRouteIsAccepted ==
  stage.at = "secondary_input" => IdleRoute(stage) \subseteq SecondaryInput(stage)
=============================================================================

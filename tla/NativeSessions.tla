--------------------------- MODULE NativeSessions ---------------------------
(***************************************************************************)
(* The release coordinator over the native sessions it can own.  One       *)
(* release is active; its session alone takes the coordinator's operations *)
(* and the others are not there.  The main stage of the Amiga Deuteros     *)
(* begins where its title stage ends: the same session object goes on, and *)
(* refuses the bootstrap before the title's last answer.  Of the English   *)
(* DOS release the console's poll leads to the game and the choice of a    *)
(* sound leads to the loads and then the title: the two never meet again.  *)
(* The functions of its video driver are sessions the coordinator does not *)
(* own yet.                                                                *)
(***************************************************************************)
EXTENDS DosTitle, MainStage, TitleBatch, AtariEntry, GamePath, VideoFunctions, AmigaBootstrap,
        DriverLoad

VARIABLE active  \* the release, and its route, whose sessions are followed

sessionVars ==
  <<titleVars, batchVars, stageVars, entryVars, pathVars, videoVars, bootVars, loadVars, active>>

ReleasesHere ==
  {"dos_millennium", "dos_loads", "dos_game", "dos_video", "amiga_deuteros",
   "amiga_millennium", "atari_millennium"}

NoDriverCall == card = "mcga" /\ call = NoCall
NoLoadCall == met.front = "host" /\ \A size \in DriverSizes : dos.size <= size

(* Who calls a session that is not there makes no difference.              *)
SessionsInit ==
  /\ active \in ReleasesHere /\ TitleInit /\ BatchInit /\ StageInit /\ EntryInit
  /\ PathInit /\ VideoInit /\ BootInit /\ LoadInit
  /\ active = "dos_video" \/ NoDriverCall
  /\ active = "dos_loads" \/ NoLoadCall
  /\ active = "amiga_deuteros" \/ caller = "coordinator"
  /\ active = "atari_millennium" \/ Coordinator
  /\ active = "dos_game" \/ front = "host"
  /\ active = "amiga_millennium" \/ holder = "coordinator"

DosTitleStep ==
  /\ active = "dos_millennium" /\ TitleStep
  /\ UNCHANGED <<batchVars, stageVars, entryVars, pathVars, videoVars, bootVars, loadVars, active>>

TitleStageStep ==
  /\ active = "amiga_deuteros" /\ BatchStep
  /\ UNCHANGED <<titleVars, stageVars, entryVars, pathVars, videoVars, bootVars, loadVars, active>>

MainStageStep ==
  /\ active = "amiga_deuteros" /\ batch.at = "profile_two"
  /\ StageStep
  /\ UNCHANGED <<titleVars, batchVars, entryVars, pathVars, videoVars, bootVars, loadVars, active>>

AtariSessionStep ==
  /\ active = "atari_millennium" /\ AtariStep
  /\ UNCHANGED <<titleVars, batchVars, stageVars, pathVars, videoVars, bootVars, loadVars, active>>

GameSessionStep ==
  /\ active = "dos_game" /\ PathStep
  /\ UNCHANGED <<titleVars, batchVars, stageVars, entryVars, videoVars, bootVars, loadVars, active>>

DriverStep ==
  /\ active = "dos_video"
  /\ VideoStep
  /\ UNCHANGED <<titleVars, batchVars, stageVars, entryVars, pathVars, bootVars, loadVars, active>>

BootstrapStep ==
  /\ active = "amiga_millennium"
  /\ BootStep
  /\ UNCHANGED <<titleVars, batchVars, stageVars, entryVars, pathVars, videoVars, loadVars, active>>

LoaderStep ==
  /\ active = "dos_loads"
  /\ LoadStep
  /\ UNCHANGED <<titleVars, batchVars, stageVars, entryVars, pathVars, videoVars, bootVars, active>>

SessionsNext ==
  \/ DosTitleStep \/ TitleStageStep \/ MainStageStep \/ AtariSessionStep \/ GameSessionStep
  \/ DriverStep \/ BootstrapStep \/ LoaderStep

(* The drives are made in every frame; the palette and the beam position   *)
(* are answered by the machine that shows the picture.                     *)
SessionsSpec ==
  /\ SessionsInit /\ [][SessionsNext]_sessionVars
  /\ WF_sessionVars(DosTitleStep /\ Drive) /\ WF_sessionVars(DosTitleStep /\ LoopCaller)
  /\ WF_sessionVars(TitleStageStep /\ LocalStep)
  /\ WF_sessionVars(MainStageStep /\ DriveStage)
  /\ WF_sessionVars(MainStageStep /\ PaletteAnswered)
  /\ WF_sessionVars(MainStageStep /\ BeamAnswered)

-----------------------------------------------------------------------------
(* The type invariant of the sessions.                                     *)
TypeOK ==
  /\ active \in ReleasesHere /\ TitleTypeOK /\ BatchTypeOK /\ StageTypeOK
  /\ ConfigTypeOK /\ EntryTypeOK /\ GameTypeOK /\ PathTypeOK /\ VideoTypeOK /\ BootTypeOK
  /\ LoadTypeOK

(* The machines' bootstraps: the picture's entry of the Atari follows its  *)
(* loader, and the Amiga's first stage moves with the memory it runs in.   *)
BootstrapsAreSound == EntryFollowsLoader /\ BootMovesWithMemory

(* The title stage's own steps, which one drive takes without bound,       *)
(* always end at an answer to wait for: no pass of a nested loop and no    *)
(* call of a descriptor is found twice (RouteLoop, DescriptorLoop).        *)
LocalStepsEnd ==
  (active = "amiga_deuteros" /\ LocalSteps(batch) # {}) ~> LocalSteps(batch) = {}
=============================================================================

# Project Eon: a verification development in TLA+

Project Eon recovers two 1990s games, *Millennium 2.2* and *Deuteros*, from the
user's own original media. It never ships game code: a scanner recognises files
by hash, a launcher offers what it recognised, and a native runtime replays the
recovered program one *observed boundary* at a time, stopping where evidence
ends. The program is about 87,000 lines of C++20. What can go wrong in it comes
in three kinds, and the project follows them: *orders of calls* (the loop, the
host, the cards), *protocols* (the sessions behind the hand-offs, each a chain of
observations and of steps the program takes by itself) and *files that change
while they are used* (the scan, the media, the pictures, the traces).

Everything below is relative to the repository root; modules are in this
directory. `PROJECT.json` lists the components, runs, mutants, findings,
hazards and theorems, and maps every definition to the lines it stands for.

## 1. Inventory

### 1.1 The frame around a session

**Release manifest and capability table** (`src/src/domain/release_manifest.cpp`,
`src/src/engine/release_runtime_capability.cpp`). Eight immutable identities, each
a hash with a game, a platform, a language and a runtime adapter. Spanish
Millennium DOS is *preservation only*: recognised, shown, never launched.

**Release runtime coordinator** (`src/src/engine/release_runtime.cpp`). State: the
active release, an admission verdict, a session kind, a 64-bit generation, some
seventy optional child sessions, the native memory, two latches (the sound choice,
the title hand-off), the held flag of the opening. Operations: `acquire` (borrow the
exact media again, reset, prepare the adapter's first session), `reset`, the
literal choices and polls, the drives, and some 150 observations, each of which
moves a *copy* of a session and of the memory and then keeps both or neither.
Hard: every operation can fail half way, and `reset` must leave nothing of an
earlier release. Correct when what exists belongs to the active release, a
session only moves forward, and memory and session move together.

**Native session controller** (`src/src/engine/native_session_controller.cpp`).
State: one lifecycle state derived from the coordinator's session kind, and the
opening scheduler. Operations: launch, input, drive, advance, the return to the
menu in two halves, and a gate by state in front of every observation. Hard: the
state is a *copy*, to be synchronised after every call that moves the session.
Correct when it is never stale.

**Runtime host facade** (`src/src/engine/runtime_host.cpp`). State: a source
generation and an input gate. Operations: everything above behind the gate, and a
source revocation in two halves, between which the caller drops what it borrowed.
Hard: calls arriving between the halves; the gate closing over a held key.
Correct when a revoked session is inert and a held signal never survives the gate.

**Deuteros Amiga opening scheduler**
(`src/src/engine/deuteros_amiga_opening_runner.cpp`). State: the next due time, a
suspended flag. Hard: irregular frames, a long suspension, catching up without
owing. Correct when time is played once or given up, in bounded bursts.

**Launcher cards** (`src/src/launcher.cpp`). State: the route, the chosen game,
platform, release, language, presentation, the Custom confirmation, focus per
page. Hard: the scanner adds releases between any two inputs. Correct when what is
launched is what the card shows and what the scan found.

**SDL event loop** (`src/src/main.cpp`). State: screen, F10 settings modal, two
native dialogs, the devices' fire flags, and what it derives from the live
session. Hard: dialogs return whenever they like; three devices share one held
flag; some routes back to the menu clear more than others. Correct when nothing
outlives its session and the modal is an input boundary.

### 1.2 The sessions behind the hand-offs

A session stands at one boundary, and takes the one observation that boundary
asks for; a wrong address, kind, value or sequence number is refused and changes
nothing. Steps the recovered program takes by itself are *drives*. All of them are
reached through the coordinator, and some also by a direct caller.

| Chain | State | Hard | Correct when |
|---|---|---|---|
| DOS title (`millennium_dos_title_initialization_session.cpp`) | one of about ninety boundaries, what is published of an owned loop | manual observations and drives of one loop mixed in any order; a short library read | the loop goes on where it was taken over, and ends when driven |
| DOS loads (`millennium_dos_sound_driver_load_session.cpp`, `..._video_driver_load_session.cpp`, the compatibility runner, its arena) | two loads, the runner's number, paragraphs handed out, one memory | three sequence numbers, a service and a hand observing the same step, observed segments beside engine keys | the numbers agree; what was loaded lies apart and is kept; a title runs in its child |
| DOS game (`millennium_dos_title_to_game_session.cpp`, the loop and ten `*_function_session.cpp`, the shared helper, the GX adapter) | the loop's place, the running handler's, a 20-slot table | completions that look alike; two special actions; one caller gated, one not | a dispatch returns by its own return |
| DOS video driver (`millennium_dos_video_function_*`) | stack words, counts, a copy's limits | word wrap, two counters for one loop, refused copies | returns balanced, copies bounded |
| Amiga Deuteros title stage and main stage (`deuteros_amiga_title_*`) | one operation of a long batch, two nested loops, resources, a disk | local passes without bound; answers older than their successors | commands come from a whole copy; a pass shows its frame and comes back |
| Atari Millennium (`millennium_atari_*`) | handles, a picture being unpacked, a fade, the native memory | a batch that overlaps itself, a short read | the picture is unpacked whole and once; the entry runs what was read |
| Amiga Millennium (`millennium_amiga_bootstrap*`) | stage bytes, exception frames, library answers, memory | a stack over the stage; ten traces in one batch | session and memory move together |

### 1.3 The user's files

| Part | Read | Hard | Correct when |
|---|---|---|---|
| Scanner (`src/src/platform/game_data.cpp`) | directories, sizes, bytes, sets, over many frames | listing order, a file changing between two reads | each candidate counted once; a quiet disk yields what it holds |
| Verified media (same) | a leaf at each borrow, or an archive kept in memory | an earlier loan, a replaced file | only original bytes are lent, and no loan moves |
| Modern pack (`src/src/data/modern_asset_pack.cpp`, the resolver, the loop) | the manifest twice, each picture up to three times | a picture changed between preflight, creation and upload | what is shown is listed, and a lost pack stays lost |
| Reference trace (`src/src/data/reference_trace.cpp`, two replays) | manifest, text (twice), artifacts | change between hash and parse | what is accepted nests its calls and is bound to its release |

### 1.4 How they interact

Everything runs on one thread. A frame of the loop handles pending events, then
consumes dialog results, steps the scanner, drives the session and advances the
opening. Only the native dialogs are asynchronous: their callback stores a result
that a later frame consumes. The loop resolves a launch to an identity and calls
`RuntimeHost::launch`; the host forwards to `NativeSessionController`, which forwards
to `ReleaseRuntime` and copies its session kind into a lifecycle state. The
concurrency to be verified is therefore the *interleaving of event handlers, frame
steps, dialog results, observations and the writes of other programs*, each atomic.

## 2. Modules

```
Releases ─┬─ RuntimeOps ─┬─ RuntimeHost ── RuntimeHostProofs (over OpsProofs)
          │              │        └─ refines SessionLifecycle
          ├─ LauncherOps ┼─ Launcher ── LauncherProofs (over OpsProofs)
          │              └─ Shell ── ShellProofs (over OpsProofs)
          │                   └─ refines Launcher
          OpeningRunner ── OpeningRunnerProofs

NativeSessions ─┬─ DosTitle                                   NativeProofs,
                ├─ TitleBatch, MainStage (over Edges)         StartupProofs (over it)
                ├─ AtariConfig ── AtariEntry
                ├─ AmigaBootstrap, DriverLoad
                ├─ GameHandlers ── GameLoop ── GamePath
                └─ VideoCallback ── VideoFunctions

SessionFiles ─┬─ ReleaseScanner                               FileProofs
              ├─ VerifiedMedia
              ├─ ModernPack
              └─ TraceGrammar ── ReferenceTrace
```

| Module | Models | Code (under `src/src/`) |
|---|---|---|
| `Releases`, `MCReleases` | the manifest's constants and assumptions; its eight rows | `domain/release_manifest.cpp`, `engine/release_runtime_capability.cpp` |
| `RuntimeOps` | coordinator, controller and host as operators from one runtime record to the next | `engine/release_runtime.cpp`, `native_session_controller.cpp`, `runtime_host.cpp` |
| `RuntimeHost`, `SessionLifecycle` | the host under any order of its calls; what a caller may rely on | `engine/runtime_host.cpp`, `.hpp` |
| `LauncherOps`, `Launcher` | cards as operators; a user and a scanner that use them | `launcher.cpp` |
| `Shell` | the event loop over both | `main.cpp` |
| `OpeningRunner` | the scheduler against the frame clock | `engine/deuteros_amiga_opening_runner.cpp` |
| `DosTitle` | TITLES.EXE from its first instruction to the wait behind its descriptor loop | `engine/millennium_dos_title_initialization_session.cpp` |
| `TitleBatch`, `MainStage` | the Amiga title stage to the bootstrap; the main stage and its loop, its ways on as sets of pairs (`Edges`) | `engine/deuteros_amiga_title_service_batch_boundary_session.hpp` and the sessions it owns |
| `AtariConfig`, `AtariEntry` | the picture loader; the module's entry over the memory it left | `engine/millennium_atari_config_consumer_session.cpp`, `..._post_config_entry_session.cpp` |
| `AmigaBootstrap` | relocation, exceptions, libraries, allocation | `engine/millennium_amiga_bootstrap*.cpp` |
| `DriverLoad` | MILL.COM's loads: the runner's passes, the arena, EXEC and the child's entry by service or by hand; the video driver on observations; their gates | `engine/release_runtime.cpp`, `engine/millennium_dos_*_load_session.cpp`, `..._compatibility_runner.cpp`, `..._paragraph_arena.cpp` |
| `GameHandlers`, `GameLoop`, `GamePath` | ten handlers as the places they wait at; the hand-over, the loop, helper and adapter; the two ways in to them | `engine/millennium_dos_*_function_session.cpp`, `..._post_overlay_loop_session.cpp`, controller and host |
| `VideoCallback`, `VideoFunctions` | the driver's interrupt; functions zero, six, thirteen and thirty-one | `engine/millennium_dos_video_function_*` |
| `NativeSessions` | one release active, its session alone taking the operations | `engine/release_runtime.cpp` |
| `ReleaseScanner`, `VerifiedMedia` | a scan, an admission and its loans over a changing disk | `platform/game_data.cpp` |
| `ModernPack` | preflight, creation, upload and the route shown | `data/modern_asset_pack.cpp`, `presentation/`, `main.cpp` |
| `TraceGrammar`, `ReferenceTrace` | twelve grammars; admission and replay | `data/reference_trace.cpp`, `data/millennium_dos_reference_trace.cpp` |
| `SessionFiles` | all readers of the user's files beside their writer | |

`MC*` modules give the constants their values. In `RuntimeOps` the definition to read
first is `RuntimeType`: one record holds the coordinator's, the controller's and the
host's fields, and every public operation is an operator on it, so that `RuntimeHost`
offers the operations in any order while `Shell` composes them in the loop's. In
a protocol module it is the record named for the session (`title`, `batch`, `stage`,
`atari`, `loop`, `callback`, `call`, `dos`) with its field `at` (`state` in `DosTitle`): the
boundary, named as the enumerator of the code is or for the operation that comes next.

## 3. How the model stands for the code

* **A step is a call.** No operation is re-entrant, so each handler is one action
  with every call it makes inside it.
* **What an operation cannot know is chosen**: what the file system, an archive or a
  decoder answered, the value an observation carries, which way a recovered branch
  goes. Addresses an observation must repeat, and the sequence number that must be
  newer, are left out: a wrong one is refused and changes nothing, and the sequence is
  the step count. Where the code compares with an *older* number than the newest, or
  with two numbers, the model says so (`batch.behind`, `dos.seq` and `dos.last`).
* **An early return is a stutter**, and so is an exception the coordinator catches
  after working on copies. Where a throw leaves something changed (a row counted
  before its width is refused, `RowPop`), the action changes it.
* **Identities are numbers** in the order of their hashes, because the code sorts by
  hash and the card index depends on it. 0 is the empty hash.
* **Memory is the batches it took** (Atari, Amiga): a batch is refused when one of its
  id was applied, or when it writes a byte twice; where an observation puts a stack
  frame is one of a few spots, over the stage, the count or beside them.
* **Handlers are places.** `GameHandlers` gives each place what it asks for and where
  each side of its answer leads. What a handler writes is left out, for nothing it
  decides reads it back; the sixth's table is kept, for it does.
* **Contents are values.** A content stands for its bytes, hence for its hash. A read
  of a size, of a whole file or of one set is a step, and the disk may change between
  any two. How many steps one call of `advance` takes is left open.
* **A trace is a sequence of events**, a kind standing for the type with its literal
  operands; `Parsed` is the parser's state after each of them.
* **Generations.** `MaxSerial` is the coordinator's counter limit, `UINT64_MAX` in the
  code, where a launch is refused: a *guard of the code*, and the run reaches it.
  `MaxGeneration` bounds the host's revocation count, which the code only increments.
* **Reading is not a step**, and **frame phases interleave freely** in `Shell`: any
  number of frames may pass with no event.

The operators marked as mutants, placed before the definition they resemble, are
*deliberately wrong variants* that no specification uses. Each is a plausible slip in
that code, and each property of a passing run is known to fail when its variant
replaces the original; `PROJECT.json` pairs them.

## 4. Runs

| Run | Configuration | Question |
|---|---|---|
| `host` | `MCRuntimeHost.cfg` | Under every order of host calls: is everything owned by one release, is the lifecycle state never stale, does no held signal leak, and is the host a `SessionLifecycle`? |
| `launcher` | `MCLauncher.cfg` | While releases appear: do cards, selection, confirmation, focus and launch stay about one found release? |
| `shell` | `MCShell.cfg` | Two fire buttons, the modal, relaunches up to the counter's limit: do loop, cards and runtime stay in step, and does the loop use the cards as `Launcher` allows? |
| `shell_dialogs` | `MCShellDialogs.cfg` | Both dialogs return at any later time: does a late answer disturb a session or a pack? |
| `opening_runner` | `MCOpeningRunner.cfg` | Is time played once or given up, in bounded bursts, and does a due tick get played? (Its type is proved.) |
| `native_sessions` | `MCNativeSessions.cfg` | Any order of observations and drives in each of the seven chains: do loops end, do returns match calls, are pictures, tables and copies whole, do loads keep apart, do session and memory move together? |
| `files` | `MCSessionFiles.cfg` | With another program writing at any moment: is what is found, lent, shown and accepted what was verified, and does the scan end? |
| `shell_gate`, `idle_route`, `supervisor`, `branch_chain`, `replay_order` | `MCShellGate.cfg`, `MCIdleRoute.cfg`, `MCSupervisor.cfg`, `MCBranchChain.cfg`, `MCReplayOrder.cfg` | The five disagreements of section 6. |

`CHECK_DEADLOCK FALSE` is said where the system may really stop: a clock at its bound
(`opening_runner`), a recovered program at the end of what is known of it
(`native_sessions` and the runs on it), a collection that stopped changing (`files`).

### Bounds and why they are enough

* **`host`**: releases {3, 5, 6, 8}, one per adapter; any two releases of one adapter
  are the same to the coordinator. `MaxSerial = 3`: a first launch, a relaunch over a
  live session, one more before the limit refuses. `MaxGeneration = 3`. 876 states, with
  every admission outcome free.
* **`launcher`**: {2, 3, 6, 7, 8}. Two English Amiga identities need the releases page;
  English beside Spanish DOS needs the default language; Deuteros is the second game.
  Releases appear in any order and any grouping. 21,360 states.
* **`shell`**: {3, 6, 8}: an ambiguous card, the DOS adapter, the Amiga adapter;
  `MaxSerial = 2`; two devices, because the disagreements of two are those of three.
  **`shell_dialogs`**: `MaxSerial = 1` and no devices, since no dialog reads either;
  about 1.3 million states.
* **`opening_runner`**: a period of 4 and a catch-up of 2; gaps 1, 3, 6 and 13 are all
  the cases of the arithmetic; `MaxElapsed = 32` allows two resynchronisations.
* **`native_sessions`**: every loop count is two or three, so that a loop is entered,
  repeated and left; `CommandBudget = 3` is met and exceeded; words of 0..7 and bytes of
  0..1 let every sum of the driver go round; `MaxRows = 2` and `MaxBytes = 5` let a
  drawing fit and not fit; the sixth handler's table has 5 slots, one excluded, instead
  of 20; one release is active, because the sessions share nothing. The
  loads: an arena of six paragraphs and a child of three, which fits behind a driver of
  one or two and is refused behind one of four; the observed segments lie before, on and behind the driver, so that
  a video driver may be put over what the arena gave out. 522,064 states.
* **`files`**: two directories that may both hold one installed release, an archive of
  the same release, the two disks of another, a file of the right size and wrong bytes,
  known and unknown leaves, a link and a missing member, so that all verdicts of the
  report occur; one write between the reads of a scan, any number of them elsewhere;
  three leaves and `MaxReads = 4`; two frames of a presentation, so that one follows a
  lost picture; texts up to the whole grammar of each adapter. 708,828 states.

### Fairness

* `files`: `WF(ScanStep)`. The loop calls `scanner->advance` in every frame until it
  is done (`src/src/main.cpp:6376-6380`), and the bounded writes say that a collection
  stops changing sooner or later.
* `opening_runner`: `WF(Advance)`. The loop calls `advance` in every frame of a live
  opening. Nothing is assumed of time, of a stuck opening or of the restart.
* `native_sessions`: `WF` of each *drive* (the DOS title's, its loop's caller, the
  Amiga title's local steps, the main stage's), which the loop makes in every frame, and
  of the palette and beam answers, which the machine showing the picture gives without a
  user. No fairness is assumed of any observation a recorder has to supply.

The other modules have no liveness: a user may do nothing for ever, and a dialog may
stay open for ever.

## 5. What the properties say

*Host.* `Ownership`: children, latches, kind and held flag belong to the adapter of the
active release. `StateIsPublished`: the state that gates calls is the session's.
`NoLeakedHold`: the opening is held only in a live opening behind an open gate.
`TeardownIsInert`: between the halves of a revocation no call changes the coordinator.
`ForwardOnly`: a session never goes back to an earlier stage. `ImplementsLifecycle`.

*Cards.* `CardsAreSound`: a selection was found by the scan, the profile page is about
one, focus is on a card. `CustomIsForThisRelease`, `LaunchResolvesTheSelection`.
`NeverSubstituted`: a scan step may withdraw a selection, never replace it.

*Loop.* `LiveIsShown`, `PresentedIsLive`, `LoopIsSound` (what was typed, held and
derived is the live session's), `ModalIsABoundary`, `PackIsForSelection`,
`SessionEndsForAReason`, `ImplementsLauncher`.

*Scheduler.* `TimeIsAccounted`, `BoundedBursts`, `DueTicksArePlayed`.

*Sessions.* `OwnedLoopIsSound`: the title's loop goes on where it was taken over, is
published as far as it came, and began with its data there. `OwnedLoopEnds`. `BatchIsSound`:
commands are interpreted from a whole copy, and the main stage follows the whole tail.
`LocalStepsEnd`: no drive of the title stage goes round for ever. `StageIsSound`,
`PassesEnd`: a pass of the main stage shows the frame it composed, comes back from the
resources it asked for, and ends. `PictureIsSound`: unpacked whole and once, shown by an
exact fade. `BootstrapsAreSound`: the Atari's entry runs the bytes that were read; the
Amiga's session and memory took the same steps. `GameIsSound`: a handler runs for the key
dispatched while the loop waits there; the sixth's table is full and laid out once; the
gate of the controller goes by the session's state. `DispatchReturnsByItsOwn`: no
completion of one dispatch ends another. `DriverIsSound`: interrupt and functions return
balanced; copy, palette and drawing stay within counts and limits. `LoadsAreSound`: the
load's number is the runner's; what the arena gave out lies apart and is kept, but under an
observed video driver; a title is initialized exactly in the child that was loaded.

*Files.* `InventoryIsSound`: each candidate is under one verdict, releases and duplicates
add up, and on a quiet disk the result is a definition over the disk. `FilesAreVerified`:
originals are lent, a picture shown is as listed, a trace accepted nests its calls and is
bound to its release. `BorrowAnswersThePresent`, `LoansAreStable`, `RouteIsOne` (a pack
and its size last for the session, and a lost pack stays lost), `ScanEnds`.

## 6. Findings

1. **A fresh Deuteros session does not hear its input** (`shell_gate`, code).
   `start_deuteros` runs a clean-up written for the outgoing session after `launch_menu`
   admitted the new one; it closes the input gate (`main.cpp:5219`), and the opening
   refuses the held signal until the settings are opened and closed.
2. **The idle route has no continuation** (`idle_route`, code). A main-stage pass on it
   stops at `$2181c`, which no session accepts; `docs/PRESERVATION.md:4183-4184` says
   that it returns to the native scheduler.
3. **A supervisor's status register is refused for ever** (`supervisor`, code). Its three
   writes to the sound chip are one batch, two of them to one byte, and the memory refuses
   a batch that overlaps itself.
4. **The ten branch traces cannot be admitted** (`branch_chain`, code). All write the
   cursor and are one batch: the Amiga Millennium's bootstrap ends there.
5. **The hand-off trace is replayed out of its order** (`replay_order`, comment). The
   grammar takes the stack word fifth, the session third.

Smaller observations, with no run of their own:

* *Loop and cards.* A default language starts a game although `launcher.hpp:287-289`
  says a choice is always asked for; each device sends its own edge to the one held flag
  (`main.cpp:6243`); a pack dialog outlives its modal (`main.cpp:6036` against 6029-6031);
  F10 confirms Custom without saving preferences (`main.cpp:6074`); the right mouse button
  is read at one address only (`main.cpp:6335-6375`).
* *Files.* The kept copy of an installed release depends on the listing order
  (`game_data.cpp:395`). A preflight says READY for a pack with no picture for its screen
  or an unfit one, and the session later runs without it; a title picture once uploaded
  stays when its file changes. A trace's text is hashed, opened again to be parsed, and
  hashed again: a change that is undone in time is not seen (the replay, which hashes what
  it parses, is immune). The read said to be bounded for an adapter is not.
* *DOS title.* A short first read of TITLE.LIB stalls the drive; a hand-made far-word
  observation at the far read makes the drive unavailable; `PrepareReturn` from an opaque
  state has no way on; the parent's stack word has no source in the English release.
* *DOS loads.* The video driver is written at the segment that was observed, into the one
  memory in which the arena's segments are "engine keys, never captured original DOS
  allocation results" (`millennium_dos_paragraph_arena.hpp:37-39`): an observation that
  happens to name one overwrites the sound driver or the child
  (`release_runtime.cpp:1203-1211`). A child entered by hand leads to a title whose
  initialization is never begun, for only the service begins it (1613; 1917-1938).
* *DOS game.* The first special action can be taken once, for its helper is cleared only
  by a reset (`release_runtime.cpp:3062`), though `docs/PRESERVATION.md:6953-6962` says the
  owner resumes; the seventh handler's call can be completed directly with its helper
  outstanding (3041); the ninth's jump and the list callback never return to the loop; a
  wrapping far offset of the sixth is refused for ever; the callback's entry goes by the
  last completion alone (3416). The completion has no gate of the controller's, and the
  launcher's controller has none at all.
* *DOS video.* Behind a palette two counters step one loop (`$0dad`), and either is
  admitted; a second copy in one callback stops at `$0e46`; a callback with no palette
  waits at `$0db5` for ever; a copy limit of zero never ends; a row too wide is counted
  before it is refused; the sessions have no caller in the coordinator yet.
* *Amiga Deuteros.* Opcodes `$16`, `$12` and from `$90` have no operation; a load gate
  that fails stays failed (`release_runtime.cpp:4561-4580`); a command's writes move the
  session before its batch (4788-4807); an exhausted command budget leaves the scheduler
  refused; selector one ends there although `docs/PRESERVATION.md:8241` goes on; a restart
  of the main stage's driver can stall (`release_runtime.hpp:146`).
* *Atari, Amiga Millennium.* A generic close is accepted in the second phase; the game's
  set-up has one fixed batch id; a source read past the loaded bytes sees zeros
  (`release_runtime.cpp:8052-8054`); the first illegal instruction's frame may lie over the
  stage's code or the open count; a nonzero open count refuses the graphics library for
  ever (886-895); the session, unlike the coordinator, accepts the first trace handler again.

## 7. Proofs

The proofs hold for any releases, leaves, files, pictures, traces, tables and writers, any
word size, limit, period and bound, under the named assumptions beside the constants.
Eight modules hold them. Every inductive invariant was checked with TLC first.

**Assumptions.** `Releases` states what the manifest's rows guarantee: there are finitely
many, their identities are positive, their game, platform, language and adapter are of
the enumerated kinds, and no Deuteros is for DOS (`ManifestAssumption`); where one
release of a game and platform can be launched, the English one can
(`PreservationAssumption`), on which the preferred launch rests; and the adapter of the
opening is Deuteros' (`OpeningAssumption`). `ReleaseScanner` takes the files to be finitely
many, the directories to be a tree below the root (`TreeAssumption`), and no disk of a
container set to be an archive of the manifest (`SetsAssumption`), or its archive would be
passed over with the disk. `MCReleases` has the eight rows of
`release_manifest.cpp`, and TLC evaluates the assumptions on them. `DosTitle` takes a
record and a picture's rows to fit the decoder's 16-bit count (`TitleAssumption`), and
`AtariConfig` a run to fit a byte and a highest picture a 16-bit counter
(`ConfigAssumption`): the code's numbers, without which a count would wrap within one
record or picture. The other modules assume that limits, words and bounds are numbers, and
that an absent value is no value.

**`OpsProofs`** proves, for each operation of the host, that it preserves
`RuntimeInv`: the type, `OwnedByOneRelease`, `StateFollowsSession`, `HeldOnlyInOpenGate`
and `SchedulerHasSession`. None is inductive alone: that the state follows the session
after a tick needs that a scheduler has a session of the Amiga adapter, that nothing is
held after a suppression needs that the state is not stale, and ownership after an
observation needs all of them. The controller leaves the state stale for a moment, so a
coordinator operation preserves the invariant *but for* `StateFollowsSession`, and
`SynchronizeInv` restores it. **`RuntimeHostProofs`** derives from it, for every order of
calls, `TypeOK`, `Ownership`, `StateIsPublished`, `NoLeakedHold`, `SchedulerOwned`,
`TeardownIsInert`, `ForwardOnly` (operation by operation, over `MovesForward`, which is
transitive), and `HostImplementsLifecycle`: the initial state maps to the initial state
and every operation to a lifecycle step or a stutter.

`OpsProofs` has one lemma, too, per operation of the cards: what a discovery, a move,
an activation or a way back leaves of selection, focus and page (`CardsOK`), what it keeps
of a confirmed Custom profile, and that a resolved release is a found one. Sorting by hash
comes in through two facts only: a selection has one owner, and the *n*th card of a list
is on it. **`LauncherProofs`** concludes the run's four properties from them, for any
manifest.

**`ShellProofs`** reuses both: each lambda of the loop is a chain of host calls on one side
and of card operations on the other. `LoopInv` ties the two together (`FrontFor`): a session
in memory is the cards' selection behind the game screen, what is presented is its own,
and an admitted pack was made for the selection. Two parts of it are in no property. No
teardown is left half done between two events, without which a card could be taken for a
session that is going. And of the fire buttons, `GateOK`: the record may name a button
that was let go only while the opening was not heard yet, and an open modal suppresses
input, so that the gate's opening, which forgets the record, comes before the title
reads it. The invariant gives the five state properties of the two runs;
`SessionEndsForAReason` is a step property over it. `LoopImplementsLauncher` is the
refinement: the operators of the instance `Cards` are shown equal to the loop's own, one
by one (`CardsOperations`), so that each of the loop's steps is a step of a user or of the
scanner, or leaves the cards alone.

**`OpeningRunnerProofs`**: the accounting and the range of the lag, and that a suspended
runner is not scheduled, are inductive; the facts about division are lemmas.

**`FileProofs`** is about the user's files: lending, traces, pictures, all, inventory.

* *Lending*: nothing but originals is held or lent; `MediaInv` adds that an open session
  on archives holds originals only, which is why it need not look at the disk again.
* *Traces*: that an accepted text nests its calls (`EveryEventNests`) is a property of texts
  of any length, and the parser is a function on their prefixes; induction is out of the
  provers' reach as a rule with an operator, so the proof takes the *least
  counterexample*: a set of prefix lengths without a least member is empty
  (`NatSetInduction`), and the parser's state before a least prefix that fails does not
  fail. Counting lemmas carry the bridge's returns over its calls. `TraceInv` then says of
  an admission what was bound, accepted and listed at which of its reads.
* *Pictures*: `RouteIsOne` and "a picture shown is as listed" relate four moments: the
  preflight, the creation, the upload and the frame. `PackInv` has a part for each:
  `TaskIsForRoute`, `ResolverIsForRoute`, `TextureIsListed`, `FrameIsOfTexture`.
* *All*: `FilesAreVerifiedHolds` follows from the three, since a step of one reader leaves
  the others alone.
* *Inventory*: `ScanInv` judges a scan by a disk and a start that are parameters, so that
  a step that leaves the disk alone is judged by the same. Whatever the disk does
  (`ScanOK`): the counters agree with the candidates taken (`CountsAgree`), identities are
  distinct, each layout adds up, and what was taken lies before what is left. Sorting is
  shown to be a permutation, and keeps all of it. On a quiet disk (`FoundOnQuiet`) the
  invariant says of every phase what has been found of the final answer (`FoundSoFar`):
  of an opened directory every entry was taken or is listed, a cursor stands for the pairs
  of directory and set before it (`Division`, `Numbering`), and the first copy of an archive
  is the least because its earlier copies would have been found.

**`NativeProofs`** and, over it, **`StartupProofs`** are about the composition of all
protocol sessions; the second begins with the DOS title below.

* *Video driver* (`DriverIsSound`). The interrupt's invariant gives every place what is on
  the stack (`StackIsKept`), how many pointers it has read (`ReadsAreCounted`: three of
  them are why a second copy is never entered, and why the second counter exists only
  behind a palette) and the range of its counts. The functions' gives each place its
  depth (`DepthIsOfPlace`), over every way to it, with the rows and bytes still to draw.
* *Loads* (`LoadsAreSound`), for an arena, drivers and a child of any size: `LoadInv` adds
  which place of the load goes with which entry (`LoadOrder`), and that no video driver
  has a segment before its allocation was observed (`VideoUnplaced`), without which an
  allocation could be said to cover what it does not.
* *Main stage* (`StageIsSound`). Neither part is inductive. That a frame is shown before
  the next is composed needs the order within a turn, graphics before request
  (`TurnGoes`); that the resource word is raised past one on the way to the title only
  needs that it is low in the loop and one where the loop is left with no caller waiting
  (`StageGoes`, `LeavesLow`). One lemma per operation, and one for the drive, a recursive
  function of the steps left: that a drive keeps what a step keeps is shown on the set of
  counts for which it does (`NatSetInduction`). The ways on are sets of pairs (`Edges`), so
  that a fact about a place is a fact about a finite set.
* *Game* (`GameIsSound`, `DispatchReturnsByItsOwn`). The handlers are sequences of places
  put together from parts; table lemmas (`Laid`, `LaidJoin`, one lemma per handler) give
  for every place what it asks for and where it leads, part by part. `GameInv` says that a
  handler waits at a place of its own table (`HandlerIsPlaced`), that the loop stands at
  `dispatch` with the action and key it took (`LoopIsOpen`), and how far the sixth
  function's table has grown (`TableGrows`): fewer than the wanted slots up to the draw,
  all of them behind it.

* *DOS title* (`OwnedLoopIsSound`). `TitleInv` fixes what every place before the loop has
  behind it (`PassesAreMade`): no palette pass, one, or two, and nothing or all of the
  library (`LibraryIsIn`), for the same places are passed twice; and which places of the
  loop have columns or bytes left (`LoopCounts`). A drive is a recursive function of its
  quantum, and mode two's columns are another inside it: that both keep what a step keeps
  is shown on the set of counts for which they do.
* *Title batches* (`BatchIsSound`). That no command is interpreted from half a copy is
  known only by what was read and copied at the places *before* the first command
  (`LoadGoesOn`), and that the tail is whole by what is left of it at each of its places
  (`PassesGoOn`), over every route, nested loop and descriptor between them. That the least
  clear bit of a stream is a pass of it holds for the two streams the code selects.
* *Atari picture* (`PictureIsSound`). `WordsBefore` reads the words drawn off the counters;
  the invariant (`UnderWay`) has besides the plane, line and group the counters stand for,
  the address the unpacker keeps separately, and that the address is that place's. A word
  has one plane, line and group, as a number has its digits (`DigitsApart`), so a word
  drawn at its place was not drawn before; a run crosses lines and planes one word at a
  time, by induction on its length. The fade is an identity (`FadeOK`) of colour, level, step
  and passes, kept by carry and no carry alike.
* *Bootstraps* (`BootstrapsAreSound`). `BootInv` counts the batches of every place by its
  rank; one lemma (`KeepStays`) is for the three outcomes of the coordinator's update: no
  memory, both copies kept, neither. It also covers the places behind the branch
  chain, which the coordinator cannot reach (section 6). The Atari's part,
  `EntryFollowsLoader`, is inductive beside what the loader's places say of its close
  and of the module's entry (`AtariOK`).
* *Types* (`TypeOK`) follow from the invariants above, each of which has the type of its
  own sessions and the bounds of its counters.

**Model-checked only**: liveness (`OwnedLoopEnds`, `PassesEnd`, `LocalStepsEnd`, `ScanEnds`,
`DueTicksArePlayed`), which is out of the prover's reach, and the five properties that are
violated. Every invariant, action property and refinement of the passing runs is proved.

## 8. Not modelled

* *DOS startup*: the title's own arena is the same object with other bounds. *DOS
  game*: the save session, the second function's mode files, the text
  services of the driver. *Amiga title*: the captured selector passage. *Atari Deuteros*:
  its bootstrap is one construction from constants.
* *Gates of the controller and host* for the protocol sessions other than the game's
  and the loads': they repeat the pattern `GamePath` models.
* *Decoders, containers, hashes, the M68K executor, the Paula mixer, the channel VM*:
  functions from bytes to bytes over literal offsets. Their verdict is the outcome of an
  admission; they keep no state between calls that another part reads, but for the mixer
  and the VM, whose state is the opening's alone.
* *Function and recovery maps, diagnostics, localisation, layout, preferences, tools,
  tests, packaging*: data and wording. Of the loop: rendering, options, the command
  line's direct launch, quitting; of the cards: a second page of releases (the manifest has
  two identities of one platform at most).

### What the plan has left

The gates of the other chains as `GamePath` and `DriverLoad` have them; the channel VM and the mixer under
the opening; the container walks as algorithms with a
reference definition.

---------------------------- MODULE AmigaBootstrap ----------------------------
(***************************************************************************)
(* The bootstrap of the Amiga Millennium from the byte its copy loop reads *)
(* too many to the interrupts its first stage turns off.  The session      *)
(* takes one observation at a time; the coordinator moves a copy of it,    *)
(* applies what the step writes to a copy of the memory as one batch, and  *)
(* keeps both copies or neither.  A caller may also hold the session       *)
(* alone, without memory.  A step's number, which must be later than the   *)
(* one before it, and the addresses the observation must repeat are left   *)
(* out; where the observation puts a stack frame is a spot of the memory.  *)
(***************************************************************************)
EXTENDS Naturals, Sequences, Functions

(* Exceptions of the two runs of decrypted instructions.                   *)
ChainTraces == 10
PrefixTraces == 8

VARIABLES holder,  \* who holds the session: the coordinator, or a caller alone
          boot     \* its place, what it remembers, and the memory's batches

bootVars == <<holder, boot>>

Overread == "overread"       TerminalJump == "terminal_jump"
SetupCall == "setup_call"    FirstRead == "first_read"
FirstStage == "first_stage"  FirstIllegal == "first_illegal"
SecondIllegal == "second_illegal"  FirstTrace == "first_trace"
Decrypted == "decrypted"     RegisterTrace == "register_trace"
MemoryWrite == "memory_write"  ChipAwaited == "chip_write"
ExecService == "exec_service"  OpenGraphics == "open_graphics"
Allocation == "allocation"   GraphicsInit == "graphics_init"
ViewInit == "view_init"      InterruptControl == "interrupt_control"
Ended == "ended"

(* The places in the order of the code; two of them wait for a trace.      *)
Places == <<Overread, TerminalJump, SetupCall, FirstRead, FirstStage, FirstIllegal,
  SecondIllegal, FirstTrace, Decrypted, RegisterTrace, MemoryWrite, ChipAwaited,
  ExecService, OpenGraphics, Allocation, GraphicsInit, ViewInit, InterruptControl, Ended>>

Rank(place) == CHOOSE i \in DOMAIN Places : Places[i] = place

(* Where the observed stack can be: over vector four, over the vectors of  *)
(* the traces, over the saved registers, over the words of the stage which *)
(* the step itself writes, over its count of openings, over the rest of    *)
(* it, in the memory behind it, or beyond the memory's end.                *)
Vector == 1   TraceVectors == 2   SavedRegs == 3   Work == 4   Count == 5
Body == 6     Pool == 7         Free == 8    Beyond == 9
Spots == Vector..Beyond
Cursor == 0

Stage == {SavedRegs, Work, Count, Body}

Held == {"first", "second"}   \* two values of a register or library base

BootInit ==
  /\ holder \in {"coordinator", "alone"}
  /\ boot = [at |-> Overread, kept |-> "first", base |-> "first", graphics |-> "first",
             area |-> 0, owned |-> {}, count |-> "absent", batches |-> 0, refused |-> {}]

-----------------------------------------------------------------------------
(* What the memory takes as one batch: the writes of each part of a step,  *)
(* none of them past its end and no byte of it written twice.              *)
Admits(batch) ==
  /\ \A i \in DOMAIN batch : Beyond \notin batch[i]
  /\ \A i, j \in DOMAIN batch : i # j => batch[i] \cap batch[j] = {}

Written(batch) == UNION {batch[i] : i \in DOMAIN batch}

(* A mutant: the moved session is kept although the memory refused.        *)
KeepSessionFirst(next, new, batch) ==
  IF holder = "coordinator" /\ Admits(batch)
  THEN boot' = [new EXCEPT !.at = next, !.batches = @ + 1, !.owned = @ \cup Written(batch)]
  ELSE boot' = [new EXCEPT !.at = next]

(* One step of the session, to the place `next` and with the changes `new` *)
(* of what it remembers.  The coordinator keeps the moved copy only with   *)
(* the memory that took the batch.                                         *)
Keep(next, new, batch) ==
  IF holder = "alone"
  THEN boot' = [new EXCEPT !.at = next]
  ELSE IF Admits(batch)
       THEN \E count \in IF Count \in Written(batch) THEN {"zero", "other"}
                                                      ELSE {boot.count} :
              boot' = [new EXCEPT !.at = next, !.batches = @ + 1, !.count = count,
                                  !.owned = @ \cup Written(batch)]
       ELSE boot' = [boot EXCEPT !.refused = @ \cup {boot.at}]

-----------------------------------------------------------------------------
(* The relocated loop writes no memory of the runtime's.                   *)
ObserveOverreadByte ==
  boot.at = Overread /\ boot' = [boot EXCEPT !.at = TerminalJump]

ObserveTerminalJump ==
  boot.at = TerminalJump /\ boot' = [boot EXCEPT !.at = SetupCall]

ObserveSetupCallReturn ==
  boot.at = SetupCall /\ boot' = [boot EXCEPT !.at = FirstRead]

(* The read brings the first stage whole; an error of the drive is refused *)
(* and may be answered again.                                              *)
ObserveFirstReadReturn ==
  \E ioError \in BOOLEAN :
    /\ boot.at = FirstRead /\ ~ioError
    /\ IF holder = "alone"
       THEN boot' = [boot EXCEPT !.at = FirstStage]
       ELSE boot' = [boot EXCEPT !.at = FirstStage, !.batches = @ + 1,
                                 !.owned = @ \cup Stage, !.count = "zero"]

-----------------------------------------------------------------------------
(* The entry saves the registers and points vector four at its handler; a  *)
(* longword below the stack is used on the way.                            *)
EntryWrites(stack) == <<{SavedRegs, Vector}, {stack}>>

EntryTakes(stack) == boot.at = FirstStage /\ stack \notin {Vector, SavedRegs}

ObserveFirstStageEntry ==
  \E stack \in Spots, d0 \in Held :
    /\ EntryTakes(stack)
    /\ holder = "coordinator" => Body \in boot.owned
    /\ Keep(FirstIllegal, [boot EXCEPT !.kept = d0], EntryWrites(stack))

(* The frame must leave the saved registers alone, and the vectors the     *)
(* handler reads must hold what the entry saved.                           *)
IllegalWrites(frame) == <<{frame}, {SavedRegs, Vector}>>

IllegalTakes(frame, vector) ==
  boot.at = FirstIllegal /\ frame \notin {Vector, TraceVectors, SavedRegs, Beyond}
  /\ vector = boot.kept

ObserveFirstIllegalHandler ==
  \E frame \in Spots, vector \in Held :
    /\ IllegalTakes(frame, vector)
    /\ Keep(SecondIllegal, boot, IllegalWrites(frame))

(* From here on the frames must be away from the stage; the first of them  *)
(* away from the vectors it installs, too.                                 *)
SecondIllegalWrites(frame) == <<{frame}, {TraceVectors}, {Cursor}, {Work}>>

SecondIllegalTakes(frame, traced) ==
  boot.at = SecondIllegal /\ frame \in {Pool, Free} /\ ~traced

ObserveSecondIllegalHandler ==
  \E frame \in Spots, traced \in BOOLEAN :
    /\ SecondIllegalTakes(frame, traced)
    /\ Keep(FirstTrace, boot, SecondIllegalWrites(frame))

(* The session alone takes the first trace again after the branch chain:   *)
(* it waits for a trace there too, and does not ask which.                 *)
TraceFrames == {Vector, TraceVectors, Pool, Free}

FirstTraceWrites(frame) == <<{frame}, {Cursor}, {Work}>>

FirstTraceTakes(frame) == boot.at \in {FirstTrace, RegisterTrace} /\ frame \in TraceFrames

ObserveFirstTraceHandler ==
  \E frame \in Spots :
    /\ FirstTraceTakes(frame)
    /\ holder = "coordinator" => boot.at = FirstTrace
    /\ Keep(Decrypted, boot, FirstTraceWrites(frame))

(* A run of traces is one observation, and one batch: every trace writes   *)
(* its own frame and, each of them, the cursor and the saved word.         *)
Frames(count) ==
  {[i \in 1..count |-> spot] : spot \in TraceFrames}
    \cup {[i \in 1..count |-> IF i = 1 THEN Pool ELSE Free]}

TraceWrites(frames) == [i \in DOMAIN frames |-> {frames[i], Cursor}]

(* The status every trace saved is the one the decrypted addition left.    *)
ChainTakes(frames, status) ==
  boot.at = Decrypted /\ status = "of_the_addition"
  /\ \A i \in DOMAIN frames : frames[i] \in TraceFrames

ObserveTraceBranchChain ==
  \E frames \in Frames(ChainTraces), status \in {"of_the_addition", "another"} :
    ChainTakes(frames, status) /\ Keep(RegisterTrace, boot, TraceWrites(frames))

PrefixTakes(frames) ==
  boot.at = RegisterTrace /\ \A i \in DOMAIN frames : frames[i] \in TraceFrames

ObserveTraceRegisterPrefix ==
  \E frames \in Frames(PrefixTraces) :
    PrefixTakes(frames) /\ Keep(MemoryWrite, boot, TraceWrites(frames))

-----------------------------------------------------------------------------
(* The write to an address that is not there; its frame may be anywhere.   *)
BusErrorWrites(frame) == <<{frame}, {Work}>>

BusErrorTakes(frame) == boot.at = MemoryWrite /\ frame # Beyond

ObserveBusErrorPrefix ==
  \E frame \in Spots :
    BusErrorTakes(frame) /\ Keep(ChipAwaited, boot, BusErrorWrites(frame))

(* The base of the first library is read and kept; each later call names   *)
(* the same one.                                                           *)
ChipTakes == boot.at = ChipAwaited

ObserveCustomChipExecPrefix ==
  \E base \in Held :
    ChipTakes /\ Keep(ExecService, [boot EXCEPT !.base = base], << >>)

ExecWrites(stack) == <<{stack}>>

ExecTakes(base, stack) == boot.at = ExecService /\ base = boot.base /\ stack # Beyond

ObserveExecTransition ==
  \E base \in Held, stack \in Spots :
    ExecTakes(base, stack) /\ Keep(OpenGraphics, boot, ExecWrites(stack))

(* The count of openings must still be zero in memory: an earlier frame    *)
(* may have been written over it.                                          *)
OpenTakes(base) == boot.at = OpenGraphics /\ base = boot.base

ObserveOpenGraphics ==
  \E base, graphics \in Held :
    /\ OpenTakes(base)
    /\ holder = "coordinator" => boot.count = "zero"
    /\ Keep(Allocation, [boot EXCEPT !.graphics = graphics,
                         !.count = IF holder = "alone" THEN @ ELSE "other"], <<{Work}>>)

(* What the allocation answers must be memory nobody owns yet.             *)
AllocationWrites(area) == <<{area}, {Work}>>

AllocationTakes(base, area, cleared) ==
  boot.at = Allocation /\ base = boot.base /\ cleared /\ area # Beyond

ObserveAllocation ==
  \E base \in Held, area \in Spots, cleared \in BOOLEAN :
    /\ AllocationTakes(base, area, cleared)
    /\ holder = "coordinator" => area \notin boot.owned
    /\ Keep(GraphicsInit, [boot EXCEPT !.area = area], AllocationWrites(area))

GraphicsInitTakes(graphics) == boot.at = GraphicsInit /\ graphics = boot.graphics

ObserveGraphicsInitialization ==
  \E graphics \in Held :
    GraphicsInitTakes(graphics) /\ Keep(ViewInit, boot, <<{Work}>>)

(* The four services leave the stack where their arguments put it.         *)
ViewWrites(spot) == <<{spot}, {Work}, {boot.area}>>

ViewTakes(graphics, stacks) ==
  boot.at = ViewInit /\ graphics = boot.graphics
  /\ stacks[2] + 8 = stacks[1] /\ stacks[3] + 4 = stacks[1] /\ stacks[4] = stacks[1]

ObserveViewServices ==
  \E graphics \in Held, stacks \in [1..4 -> {8, 12, 16}], spot \in Spots :
    /\ ViewTakes(graphics, stacks)
    /\ holder = "coordinator" => boot.area \in boot.owned
    /\ Keep(InterruptControl, boot, ViewWrites(spot))

ObserveInterruptControl ==
  boot.at = InterruptControl /\ boot' = [boot EXCEPT !.at = Ended]

BootStep ==
  /\ \/ ObserveOverreadByte \/ ObserveTerminalJump \/ ObserveSetupCallReturn
     \/ ObserveFirstReadReturn \/ ObserveFirstStageEntry \/ ObserveFirstIllegalHandler
     \/ ObserveSecondIllegalHandler \/ ObserveFirstTraceHandler \/ ObserveTraceBranchChain
     \/ ObserveTraceRegisterPrefix \/ ObserveBusErrorPrefix \/ ObserveCustomChipExecPrefix
     \/ ObserveExecTransition \/ ObserveOpenGraphics \/ ObserveAllocation
     \/ ObserveGraphicsInitialization \/ ObserveViewServices \/ ObserveInterruptControl
  /\ UNCHANGED holder

-----------------------------------------------------------------------------
BootTypeOK ==
  /\ holder \in {"coordinator", "alone"}
  /\ boot.at \in Range(Places) /\ {boot.kept, boot.base, boot.graphics} \subseteq Held
  /\ boot.area \in 0..Free /\ boot.owned \subseteq Cursor..Free
  /\ boot.count \in {"absent", "zero", "other"}
  /\ boot.refused \subseteq Range(Places)

(* The session and the runtime memory move together: the batches the       *)
(* memory took are those of the steps the session has made, though a       *)
(* stack may lie where the memory cannot take it, and the first stage is   *)
(* owned whole from its read on.                                           *)
BootMovesWithMemory ==
  LET writing == Rank(boot.at) - Rank(FirstRead)
      steps == IF writing < 0 THEN 0
               ELSE IF boot.at = Ended THEN writing - 1 ELSE writing
  IN  holder = "coordinator" =>
        /\ boot.batches = steps
        /\ steps > 0 => Stage \subseteq boot.owned

(* The memory takes the ten traces of the branch chain, as the test of the *)
(* coordinator asserts (tests/native_tests.cpp:5594).  It does not: all    *)
(* ten write the cursor at $410b4 in the one batch.                        *)
BranchChainIsAdmitted == Decrypted \notin boot.refused
=============================================================================

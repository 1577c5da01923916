------------------------------ MODULE TitleBatch ------------------------------
(***************************************************************************)
(* The title stage of the Amiga Deuteros: DeuterosAmigaTitleStageSession   *)
(* with the boundary sessions it owns (Exec, open library, custom chips,   *)
(* service set-up, and the title's part of the service batch), from the    *)
(* first Exec call to the bootstrap of the main stage.                     *)
(*                                                                         *)
(* Each operation needs its predecessor's answer and refuses a second one, *)
(* so the session is at one place, batch.at, named for the operation that  *)
(* comes next.  Steps the program takes by itself are marked as Local; the *)
(* driver takes those.  What an answer's data decides is a choice.         *)
(*                                                                         *)
(* An answer must be newer than last_command_sequence_.  Four operations   *)
(* in the middle are checked against each other instead and leave it       *)
(* alone: batch.behind says that it is older than the newest answer, and   *)
(* batch.late that an answer has been admitted out of order.               *)
(***************************************************************************)
EXTENDS Naturals, FiniteSets, Edges

CONSTANTS Chunks,        \* disk reads of the load service (4)
          CopyLongs,     \* longwords copied out of the read buffer (2,592)
          ChunkLongs,    \* longwords in one copy chunk at most (256)
          Repeats,       \* iterations of the repeat command at most (256)
          NestedPasses   \* passes of a nested loop after its first (7)

ASSUME BatchAssumption ==
  /\ Chunks \in Nat \ {0} /\ CopyLongs \in Nat \ {0} /\ ChunkLongs \in Nat \ {0}
  /\ Repeats \in Nat \ {0} /\ NestedPasses \in Nat

VARIABLES batch,   \* the session
          caller   \* who calls it: the coordinator, or a test directly

batchVars == <<batch, caller>>

NewBatch ==
  [at |-> "local_prefix", done |-> 0, selector |-> "none", left |-> 0,
   stream |-> "none", entered |-> FALSE, behind |-> FALSE, late |-> FALSE]

BatchInit == batch = NewBatch /\ caller \in {"coordinator", "session"}

(* From a place along the edges that begin there.                          *)
EdgeSteps(edges, b) == {[b EXCEPT !.at = a] : a \in EdgeEnds(edges, b.at)}

-----------------------------------------------------------------------------
(* From the entry to the service batch.                                    *)

ExecEdges == {<<"exec_first", "exec_second">>, <<"exec_second", "open_library">>}

(* Without its library the title spins.                                    *)
LibraryOpened(b) ==
  {[b EXCEPT !.at = a] : a \in {"spin_1edf6", "post_open_library"}}

(* Four writes to the custom chips, each at its own site.                  *)
ChipWrites == 4

ChipWrite(b) ==
  {[b EXCEPT !.done = (@ + 1) % ChipWrites,
             !.at = IF b.done + 1 = ChipWrites THEN "callback" ELSE @]}

(* The third service spins when it fails; the fifth goes on either way.    *)
ServiceEdges ==
  {<<"callback", "first_service">>, <<"first_service", "second_service">>,
   <<"second_service", "third_service">>, <<"fourth_service", "fifth_service">>,
   <<"fifth_service", "controller_seed">>}

ThirdService(b) ==
  {[b EXCEPT !.at = a] : a \in {"spin_2073a", "fourth_service"}}

EntryAnswers(b) ==
  CASE b.at = "open_library"  -> LibraryOpened(b)
    [] b.at = "display_base"  -> {[b EXCEPT !.at = "chip_write"]}
    [] b.at = "chip_write"    -> ChipWrite(b)
    [] b.at = "third_service" -> ThirdService(b)
    [] OTHER -> EdgeSteps(ExecEdges \cup ServiceEdges, b)

(* The calls of the title's first picture, in their one order.             *)
GraphicsEdges ==
  {<<"batch_graphics", "runtime_word">>, <<"runtime_word", "graphics_first">>,
   <<"graphics_first", "graphics_second">>, <<"graphics_second", "graphics_third">>,
   <<"graphics_third", "tail_graphics">>}

TailEdges ==
  {<<"tail_graphics", "tail_copy_words">>, <<"tail_copy_words", "tail_selection">>,
   <<"tail_selection", "tail_second">>, <<"tail_second", "repeated_selection">>,
   <<"repeated_selection", "repeated_graphics">>,
   <<"repeated_graphics", "repeated_wrapper">>}

TailReturnEdges ==
  {<<"repeated_wrapper", "source_table">>, <<"source_table", "tail_exec">>,
   <<"tail_exec", "load_call">>}

PictureEdges == GraphicsEdges \cup TailEdges \cup TailReturnEdges

PictureAnswers(b) == EdgeSteps(PictureEdges, b)

-----------------------------------------------------------------------------
(* The load service: its disk reads, and the copy of the part selected.    *)

(* A read that is not the next one, or does not end well, fails the gate   *)
(* for good: its sequence is consumed.                                     *)
LoadCall(b) ==
  IF b.at = "load_call" THEN {[b EXCEPT !.at = a] : a \in {"load_status", "load_failed"}} ELSE {}

LoadStatus(b) ==
  IF b.at # "load_status" THEN {}
  ELSE {[b EXCEPT !.at = "load_failed"],
        [b EXCEPT !.done = @ + 1,
                  !.at = IF b.done + 1 = Chunks THEN "load_service" ELSE "load_call"]}

LoadService(b) ==
  IF b.at = "load_service" THEN {[b EXCEPT !.at = "selector"]} ELSE {}

(* Zero tries again at a place without an operation; one copies nothing.   *)
LoadSelector(b) ==
  IF b.at # "selector" THEN {}
  ELSE {[b EXCEPT !.selector = s[1], !.at = s[2], !.behind = TRUE, !.done = 0]
          : s \in {<<"zero", "retry_389a6">>, <<"one", "table_base">>, <<"copy", "copy">>}}

CopyChunk(b) ==
  IF b.at # "copy" THEN {}
  ELSE {[b EXCEPT !.done = n, !.at = IF n = CopyLongs THEN "table_base" ELSE @]
          : n \in {m \in (b.done + 1)..CopyLongs : m <= b.done + ChunkLongs}}

(* Mutant: the base is read while the copy is under way.                   *)
TableBaseEarly(b) ==
  IF b.at \in {"copy", "table_base"} THEN {[b EXCEPT !.at = "table_word"]} ELSE {}

(* The session goes on from selector one; the coordinator only from a copy *)
(* it has completed.                                                       *)
TableBase(b) ==
  IF b.at = "table_base" /\ (b.selector = "copy" \/ caller = "session")
  THEN {[b EXCEPT !.at = "table_word"]} ELSE {}

TableWord(b) ==
  IF b.at = "table_word" THEN {[b EXCEPT !.at = "opcode"]} ELSE {}

(* These four are checked against each other, not against the last command.*)
TableAnswers(b) == LoadSelector(b) \cup CopyChunk(b) \cup TableBase(b) \cup TableWord(b)

LoadAnswers(b) == LoadCall(b) \cup LoadStatus(b) \cup LoadService(b)

-----------------------------------------------------------------------------
(* The command interpreter.                                                *)

(* What an opcode needs next.  The call opcodes, and those of the planar   *)
(* range, wait for a return.                                               *)
OpcodeRoutes ==
  {"pointer_route", "operand_byte", "pointer_long", "eight_pointer", "two_mode",
   "repeat_bytes", "call_return", "planar", "opcode"}

Opcode(b) ==
  IF b.at # "opcode" THEN {}
  ELSE {[b EXCEPT !.at = a] : a \in OpcodeRoutes \cup {"high_first_byte"}}

CommandEdges ==
  {<<"operand_byte", "opcode">>, <<"pointer_long", "opcode">>, <<"call_return", "opcode">>,
   <<"eight_pointer", "eight_mode">>, <<"eight_scale", "opcode">>}

EightMode(b) ==
  IF b.at = "eight_mode" THEN {[b EXCEPT !.at = a] : a \in {"opcode", "eight_scale"}} ELSE {}

(* A planar opcode ends with one of its three typed observations, never    *)
(* with a plain return.                                                    *)
PlanarWrite(b) == IF b.at = "planar" THEN {[b EXCEPT !.at = "opcode"]} ELSE {}

PlanarVariantWrite(b) == IF b.at = "planar" THEN {[b EXCEPT !.at = "opcode"]} ELSE {}

NegativeService(b) == IF b.at = "planar" THEN {[b EXCEPT !.at = "opcode"]} ELSE {}

(* The coordinator has no operation for the two operands of $16, for the   *)
(* repeats of $12 and for the two characters of $90 and above.             *)
TwoOperandEdges ==
  {<<"two_mode", "two_operands">>, <<"two_operands", "two_long">>, <<"two_long", "opcode">>}

RepeatBytes(b) ==
  IF b.at # "repeat_bytes" THEN {}
  ELSE {[b EXCEPT !.at = "repeat_call", !.left = n] : n \in 1..Repeats}

RepeatCall(b) ==
  IF b.at # "repeat_call" THEN {}
  ELSE {[b EXCEPT !.left = @ - 1, !.at = IF b.left = 1 THEN "opcode" ELSE @]}

HighEdges ==
  {<<"high_first_byte", "high_first_call">>, <<"high_first_call", "high_second_byte">>,
   <<"high_second_byte", "high_second_call">>, <<"high_second_call", "opcode">>}

SessionOnly(b) ==
  EdgeSteps(TwoOperandEdges, b) \cup EdgeSteps(HighEdges, b) \cup RepeatBytes(b) \cup RepeatCall(b)

CommandAnswers(b) ==
  Opcode(b) \cup EightMode(b) \cup PlanarWrite(b) \cup PlanarVariantWrite(b) \cup NegativeService(b)
    \cup EdgeSteps(CommandEdges, b)
    \cup (IF caller = "session" THEN SessionOnly(b) ELSE {})

-----------------------------------------------------------------------------
(* After the commands: two dispatches, three services and a nested loop.   *)

(* Only a cleared flag leads on; a set one completes the call, and no      *)
(* operation follows.                                                      *)
PointerRoute(b) ==
  IF b.at # "pointer_route" THEN {}
  ELSE {[b EXCEPT !.at = a] : a \in {"graphics_return", "pointer_done"}}

FirstDispatchAnswers ==
  {<<"graphics_return", "first_dispatch">>, <<"dispatch_header", "first_packet">>,
   <<"first_merge", "second_dispatch">>}

FirstDispatchLocal ==
  {<<"first_dispatch", "dispatch_header">>, <<"first_packet", "first_decode">>,
   <<"first_decode", "first_tail">>, <<"first_tail", "first_merge">>}

SecondDispatchLocal ==
  {<<"second_dispatch", "second_decode">>, <<"second_decode", "second_merge">>}

ServiceRouteAnswers ==
  {<<"second_merge", "service_prefix">>, <<"route_first", "route_second">>,
   <<"route_second", "route_third">>, <<"route_third", "nested_words">>}

ServiceRouteLocal == {<<"service_prefix", "route_first">>}

(* A nested loop: its words start it, each pass may wait for a call, and   *)
(* the last pass leads on.                                                 *)
NestedWords(b, words, call, loop) ==
  IF b.at # words THEN {}
  ELSE {[b EXCEPT !.left = NestedPasses, !.at = a] : a \in {call, loop}}

NestedCall(b, call, loop) == IF b.at = call THEN {[b EXCEPT !.at = loop]} ELSE {}

(* Mutant: the end of the count is missed and it wraps.                    *)
NestedLoopWrapping(b, call, loop, next) ==
  IF b.at # loop THEN {}
  ELSE {[b EXCEPT !.left = (@ + NestedPasses) % (NestedPasses + 1), !.at = a] : a \in {call, loop}}

NestedLoop(b, call, loop, next) ==
  IF b.at # loop THEN {}
  ELSE IF b.left = 0 THEN {[b EXCEPT !.at = next]}
  ELSE {[b EXCEPT !.left = @ - 1, !.at = a] : a \in {call, loop}}

RouteLoopAnswers(b) ==
  NestedWords(b, "nested_words", "nested_call", "nested_loop")
    \cup NestedCall(b, "nested_call", "nested_loop")

RouteLoop(b) == NestedLoop(b, "nested_call", "nested_loop", "continuation")

-----------------------------------------------------------------------------
(* The selected stream and its descriptor loop.                            *)

ChainAnswers ==
  {<<"continuation", "pointer_chain">>, <<"pointer_chain", "dispatch_destination">>,
   <<"dispatch_destination", "selected_stream">>}

DescriptorPasses == 12

(* The set bits of $00b0 and $00bd; the passes that call are those of the  *)
(* clear ones, but the sixth and the seventh.                              *)
Streams == {"b0", "bd"}
SetBits(d) == IF d = "b0" THEN {4, 5, 7} ELSE {0, 2, 3, 4, 5, 7}

CallPasses(d) == (0..(DescriptorPasses - 1)) \ (SetBits(d) \cup {6, 7})

Least(S) == CHOOSE n \in S : \A m \in S : n <= m

SelectedStream(b) ==
  IF b.at # "selected_stream" THEN {}
  ELSE {[b EXCEPT !.stream = d, !.left = Least(CallPasses(d)), !.at = "descriptor_call"]
          : d \in Streams}

DescriptorCall(b) ==
  IF b.at = "descriptor_call" THEN {[b EXCEPT !.at = "descriptor_loop"]} ELSE {}

DescriptorLoop(b) ==
  LET later == {n \in CallPasses(b.stream) : n > b.left}
  IN IF b.at # "descriptor_loop" THEN {}
     ELSE IF later = {} THEN {[b EXCEPT !.left = 0, !.at = "descriptor_byte"]}
     ELSE {[b EXCEPT !.left = Least(later), !.at = "descriptor_call"]}

(* The byte must raise the descriptor to $c0, and the caller must have a   *)
(* pointer, or nothing goes on.                                            *)
DescriptorByte(b) ==
  IF b.at # "descriptor_byte" THEN {}
  ELSE {[b EXCEPT !.at = a] : a \in {"adjusted_dispatch", "other_descriptor"}}

CallerPointer(b) ==
  IF b.at # "caller_pointer" THEN {}
  ELSE {[b EXCEPT !.at = a] : a \in {"object_gate", "null_pointer_20cb8"}}

AdjustedAnswers ==
  {<<"adjusted_dispatch", "caller_pointer">>, <<"object_gate", "first_helper">>,
   <<"first_helper", "second_helper">>, <<"second_helper", "rts_frame">>,
   <<"rts_frame", "repeated_words">>}

RepeatedLoopAnswers(b) ==
  NestedWords(b, "repeated_words", "repeated_call", "repeated_loop")
    \cup NestedCall(b, "repeated_call", "repeated_loop")

RepeatedLoop(b) ==
  NestedLoop(b, "repeated_call", "repeated_loop", "caller_indirect")

-----------------------------------------------------------------------------
(* The title's own loop, and its end.                                      *)

IndirectLocal == {<<"caller_indirect", "indirect_return">>}

LoopEntryAnswers ==
  {<<"indirect_return", "return_37180">>, <<"return_37180", "mode_return">>,
   <<"mode_return", "return_222c0">>}

(* Every turn of the loop begins at $40574 with this return, which is      *)
(* observed once.                                                          *)
Return222c0(b) ==
  IF b.at \notin {"return_222c0", "loop_40574"} \/ b.entered THEN {}
  ELSE {[b EXCEPT !.entered = TRUE, !.at = "timer_state"]}

(* A timer that is due has its own call before the join; a zero byte at    *)
(* the join leads nowhere.                                                 *)
TimerState(b) ==
  IF b.at # "timer_state" THEN {}
  ELSE {[b EXCEPT !.at = a] : a \in {"return_4069a", "join_byte"}}

JoinByte(b) ==
  IF b.at # "join_byte" THEN {}
  ELSE {[b EXCEPT !.at = a] : a \in {"return_1f9a4", "zero_join"}}

JoinAnswers ==
  {<<"return_4069a", "join_byte">>, <<"return_1f9a4", "return_1fe88">>,
   <<"return_1fe88", "final_gate">>}

FinalGate(b) ==
  IF b.at # "final_gate" THEN {}
  ELSE {[b EXCEPT !.at = a] : a \in {"tail_copy", "input_return"}}

(* The input repeats its own loop, or branches back to $40574.             *)
InputReturn(b) ==
  IF b.at # "input_return" THEN {}
  ELSE {[b EXCEPT !.at = a] : a \in {"repeated_input", "loop_40574"}}

RepeatedInput(b) ==
  IF b.at # "repeated_input" THEN {} ELSE {b, [b EXCEPT !.at = "loop_40574"]}

TailCopyAnswers == {<<"tail_copy", "tail_subroutine">>, <<"initial_service", "tail_call">>}

TailLocal == {<<"tail_subroutine", "initial_service">>}

(* Seven Exec calls in order; after the third two longs are compared, and  *)
(* equal ones skip the next two calls.                                     *)
TailCalls == 7

TailCall(b) ==
  IF b.at # "tail_call" \/ b.left >= TailCalls THEN {}
  ELSE {[b EXCEPT !.left = @ + 1,
                  !.at = IF b.left = 2 THEN "tail_compare"
                         ELSE IF b.left = TailCalls - 1 THEN "controller_long" ELSE @]}

TailCompare(b) ==
  IF b.at # "tail_compare" THEN {}
  ELSE {[b EXCEPT !.left = n, !.at = "tail_call"] : n \in {3, 5}}

ControllerLong(b) ==
  IF b.at = "controller_long" THEN {[b EXCEPT !.at = "profile_two"]} ELSE {}

-----------------------------------------------------------------------------
(* The coordinator's operations.                                           *)

AnswerEdges ==
  FirstDispatchAnswers \cup ServiceRouteAnswers \cup ChainAnswers \cup AdjustedAnswers
    \cup LoopEntryAnswers \cup JoinAnswers \cup TailCopyAnswers

LocalEdges ==
  {<<"local_prefix", "exec_first">>, <<"post_open_library", "display_base">>,
   <<"controller_seed", "batch_graphics">>}
    \cup FirstDispatchLocal \cup SecondDispatchLocal \cup ServiceRouteLocal
    \cup IndirectLocal \cup TailLocal

RouteAnswers(b) ==
  PointerRoute(b) \cup RouteLoopAnswers(b) \cup DescriptorCall(b) \cup DescriptorByte(b)
    \cup CallerPointer(b) \cup RepeatedLoopAnswers(b)
    \cup EdgeSteps(AnswerEdges, b)

TitleLoopAnswers(b) ==
  Return222c0(b) \cup TimerState(b) \cup JoinByte(b) \cup FinalGate(b) \cup InputReturn(b)
    \cup RepeatedInput(b)
    \cup TailCall(b) \cup TailCompare(b) \cup ControllerLong(b)

LocalSteps(b) ==
  RouteLoop(b) \cup SelectedStream(b) \cup DescriptorLoop(b) \cup RepeatedLoop(b)
    \cup EdgeSteps(LocalEdges, b)

(* An answer newer than the last command is admitted although it may be    *)
(* older than one of the four between.                                     *)
Ordered(b) ==
  {[b EXCEPT !.behind = FALSE]} \cup {[b EXCEPT !.late = TRUE] : x \in {TRUE} \cap {b.behind}}

ChainAnswered ==
  \E b \in EntryAnswers(batch) \cup PictureAnswers(batch) \cup TableAnswers(batch) :
    batch' = b /\ UNCHANGED caller

CommandAnswered ==
  \E b \in LoadAnswers(batch) \cup CommandAnswers(batch) \cup RouteAnswers(batch)
             \cup TitleLoopAnswers(batch) :
    batch' \in Ordered(b) /\ UNCHANGED caller

LocalStep == \E b \in LocalSteps(batch) : batch' = b /\ UNCHANGED caller

BatchStep == ChainAnswered \/ CommandAnswered \/ LocalStep

BatchSpec == BatchInit /\ [][BatchStep]_batchVars /\ WF_batchVars(LocalStep)

-----------------------------------------------------------------------------
(* Properties.                                                             *)

BatchPlaces ==
  {"open_library", "spin_1edf6", "display_base", "chip_write", "third_service", "spin_2073a",
   "load_call", "load_status", "load_failed", "load_service", "selector", "retry_389a6",
   "copy", "table_base", "table_word", "opcode", "repeat_bytes", "repeat_call",
   "eight_mode", "eight_scale", "planar", "pointer_route", "pointer_done",
   "nested_words", "nested_call", "nested_loop", "selected_stream", "descriptor_call",
   "descriptor_loop", "descriptor_byte", "other_descriptor", "caller_pointer",
   "null_pointer_20cb8", "repeated_words", "repeated_call", "repeated_loop",
   "return_222c0", "timer_state", "join_byte", "zero_join", "final_gate", "tail_copy",
   "input_return", "repeated_input", "loop_40574", "tail_call", "tail_compare",
   "controller_long", "profile_two"}
  \cup Sources(ExecEdges) \cup Sources(ServiceEdges) \cup Sources(PictureEdges)
  \cup Sources(CommandEdges) \cup Sources(TwoOperandEdges) \cup Sources(HighEdges)
  \cup Sources(AnswerEdges) \cup Sources(LocalEdges)

Batches ==
  [at : BatchPlaces, done : Nat, selector : {"none", "zero", "one", "copy"}, left : Nat,
   stream : {"none"} \cup Streams, entered : BOOLEAN, behind : BOOLEAN, late : BOOLEAN]

(* The type invariant, with the bounds of both counters: four reads, or    *)
(* the longwords copied; calls, passes or repeats still to make.           *)
BatchTypeOK ==
  /\ batch \in Batches /\ caller \in {"coordinator", "session"}
  /\ batch.done <= ChipWrites \/ batch.done <= Chunks \/ batch.done <= CopyLongs
  /\ batch.left < DescriptorPasses \/ batch.left <= Repeats \/ batch.left <= NestedPasses

(* No command is read before all reads of the load service ended well and  *)
(* the whole of the selected part was copied; only the session itself goes *)
(* on from the selector that copies nothing (LoadStatus, TableBase).       *)
CommandsAreLoaded ==
  /\ batch.at = "selector" => batch.done = Chunks
  /\ batch.at \in {"table_word", "opcode"} =>
       \/ batch.selector = "copy" /\ batch.done = CopyLongs
       \/ batch.selector = "one" /\ caller = "session"

(* The main stage is reached only after the last of the seven calls of the *)
(* tail, whichever way the two longs compared (TailCall, TailCompare).     *)
TailIsWhole ==
  /\ batch.at \in {"controller_long", "profile_two"} => batch.left = TailCalls
  /\ batch.at = "tail_call" => batch.left < TailCalls
  /\ batch.at = "tail_compare" => batch.left = 3

(* Commands are interpreted only from a copy that is whole, and the main   *)
(* stage follows the whole tail.                                           *)
BatchIsSound == CommandsAreLoaded /\ TailIsWhole

=============================================================================

------------------------------- MODULE DosTitle -------------------------------
(***************************************************************************)
(* MillenniumDosTitleInitializationSession: the DOS title program from its *)
(* first instruction to the wait after its descriptor loop.  The session   *)
(* stands at one boundary at a time and every answer it is given (an       *)
(* interrupt's result, a file result, a far read) moves it to the next.    *)
(* A state is named for its enumerator, without the _boundary suffix.      *)
(*                                                                         *)
(* Every operation demands sequence = last + 1 and changes nothing when it *)
(* refuses, so the sequence itself is left out: it is the step count.      *)
(* The session is used in two ways: through the release coordinator, which *)
(* runs the local calls that follow an answer in the same transaction and  *)
(* publishes its memory effects as one batch, and directly.                *)
(***************************************************************************)
EXTENDS Naturals, FiniteSets, Edges

CONSTANTS Records,      \* descriptors in the loop (37)
          PaletteSize,  \* palette registers set through the BIOS (16)
          LibraryReads, \* reads of TITLE.LIB (9)
          RecordBytes,  \* bytes a record decodes to (368)
          WordSize,     \* the width of the decoder's remaining count (2^16)
          Rows, Columns,\* the dimensions of a mode-two picture
          Quantum       \* observations in one hash-bound drive (256)

ASSUME TitleAssumption ==
  /\ Records \in Nat /\ Records >= 2
  /\ PaletteSize \in Nat \ {0} /\ LibraryReads \in Nat \ {0}
  /\ RecordBytes \in Nat /\ RecordBytes >= 4
  /\ WordSize \in Nat /\ RecordBytes < WordSize
  /\ Rows \in 1..(WordSize - 1) /\ Columns \in Nat \ {0} /\ Quantum \in Nat \ {0}

VARIABLES title,      \* the session
          published,  \* pointer words of the loop in NativeRuntimeMemory
          via         \* who calls: the coordinator, or a test directly

titleVars == <<title, published, via>>

(* The modes with a picture path of their own; 3 stands for all others.    *)
DisplayModes == {1, 2, 3, 4}

(* What the first library read brought in: less than the header, the       *)
(* header, the palette as well, or the descriptor records too.             *)
Prefixes == 0..3

NewTitle ==
  [state |-> "awaiting_entry", mode |-> 0, iter |-> 0, owned |-> FALSE,
   second |-> FALSE, repeat |-> FALSE, results |-> 0, reads |-> 0,
   prefix |-> 0, dx |-> 0, bx |-> 0]

TitleInit == title = NewTitle /\ published = 0 /\ via \in {"coordinator", "direct"}

-----------------------------------------------------------------------------
(* Local calls: execute_* operations that need no answer from outside.     *)

(* Calls that lead to one place whatever the session holds.                *)
LocalCalls ==
  {<<"awaiting_entry", "private_interrupt_result">>,
   <<"selected_local_call", "selected_callee_private_interrupt_result">>,
   <<"selected_followup_call", "bios_palette_interrupt">>,
   <<"title_main_allocation_call", "dos_resize_result">>}

SetupCalls ==
  {<<"post_library_setup_call", "dos_get_vector_zero_result">>,
   <<"post_library_next_setup_call", "post_library_followup_call">>,
   <<"post_library_followup_call", "timer_vector_far_read">>,
   <<"post_vector_hook_call", "video_vector_far_read">>}

VideoCalls ==
  {<<"post_video_hook_mode_call", "selected_callee_private_interrupt_result">>,
   <<"post_video_setup_call", "post_video_graphics_call">>,
   <<"post_video_graphics_call", "post_video_private_interrupt_result">>,
   <<"post_video_followup_call", "graphics_descriptor_far_read">>}

(* Mode one sets its palette from the library first, and is refused when   *)
(* the first read did not bring the palette in.                            *)
PostRelocation(t) ==
  IF t.mode # 1 THEN {[t EXCEPT !.state = "post_library_setup_call"]}
  ELSE IF t.prefix >= 2 THEN {[t EXCEPT !.state = "library_palette_bios_interrupt"]}
  ELSE {}

Along(edges, t) == {[t EXCEPT !.state = next] : next \in EdgeEnds(edges, t.state)}

(* The sessions a local call can lead to: none when the call is refused.   *)
Execute(t) ==
  Along(LocalCalls, t) \cup Along(SetupCalls, t)
    \cup Along(VideoCalls, [t EXCEPT !.repeat = @ \/ t.state = "post_video_hook_mode_call"])
    \cup (IF t.state = "library_relocation_complete" THEN PostRelocation(t) ELSE {})

-----------------------------------------------------------------------------
(* Answers up to the descriptor loop.  Each operator gives the sessions an *)
(* answer of its kind can lead to; none when the kind is not awaited.      *)

(* The private interrupt's first answer chooses the display mode; three    *)
(* later ones only move on.  The last of them must bring the ten bytes of  *)
(* the record and starts the descriptor loop.                              *)
PrivateInterruptEdges ==
  {<<"post_video_private_interrupt_result", "post_video_followup_call">>,
   <<"graphics_record_private_interrupt_result", "post_descriptor_private_interrupt_result">>}

PrivateInterrupt(t) ==
  CASE t.state = "private_interrupt_result" ->
         {[t EXCEPT !.state = "selected_local_call", !.mode = m] : m \in DisplayModes}
    [] t.state = "post_descriptor_private_interrupt_result" ->
         {[t EXCEPT !.state = "loop_far_read", !.iter = 1]}
    [] OTHER -> Along(PrivateInterruptEdges, t)

SelectedCallee(t) ==
  IF t.state = "selected_callee_private_interrupt_result"
  THEN {[t EXCEPT !.state = "selected_followup_call"]} ELSE {}

(* The palette results admitted: one pass, and a second after the video    *)
(* mode has been set again.                                                *)
PaletteLimit(t) == IF t.repeat THEN 2 * PaletteSize ELSE PaletteSize

(* Where a palette result leads: the next register, or the caller.         *)
AfterPalette(t) ==
  IF (t.results + 1) % PaletteSize # 0 THEN t.state
  ELSE IF t.repeat THEN "post_video_setup_call"
  ELSE "title_main_allocation_call"

PaletteResult(t) ==
  CASE t.state = "library_palette_bios_interrupt" ->
         {[t EXCEPT !.state = "post_library_setup_call"]}
    [] t.state = "bios_palette_interrupt" /\ t.results < PaletteLimit(t) ->
         {[t EXCEPT !.state = AfterPalette(t), !.results = @ + 1]}
    [] OTHER -> {}

(* The DOS memory services.  Where carry ends the allocation the session   *)
(* rests in allocation_failure; elsewhere carry changes nothing.           *)
MemoryEdges ==
  {<<"dos_resize_result", "dos_large_allocation_result">>,
   <<"dos_large_allocation_result", "dos_free_result">>,
   <<"dos_free_result", "dos_first_buffer_allocation_result">>,
   <<"dos_first_buffer_allocation_result", "dos_second_buffer_allocation_result">>,
   <<"dos_second_buffer_allocation_result", "dos_file_open_result">>,
   <<"dos_file_sized_allocation_result", "dos_single_paragraph_allocation_result">>,
   <<"dos_single_paragraph_allocation_result", "dos_scratch_allocation_result">>,
   <<"dos_scratch_allocation_result", "dos_scratch_free_result">>,
   <<"dos_scratch_free_result", "dos_library_open_result">>}

FatalAllocations == {"dos_first_buffer_allocation_result",
  "dos_second_buffer_allocation_result", "dos_file_sized_allocation_result"}

DosMemory(t) ==
  Along(MemoryEdges, t)
    \cup {[t EXCEPT !.state = "allocation_failure"] : s \in FatalAllocations \cap {t.state}}

(* The DOS file services.  A read that fails is counted like any other,    *)
(* and the last close is refused when the first read brought no header.    *)
FileEdges ==
  {<<"dos_file_open_result", "dos_file_seek_result">>,
   <<"dos_file_seek_result", "dos_file_close_result">>,
   <<"dos_file_close_result", "dos_file_sized_allocation_result">>,
   <<"dos_library_open_result", "dos_library_read_result">>,
   <<"dos_library_close_result", "library_relocation_complete">>}

FatalFiles == {"dos_file_open_result", "dos_file_seek_result", "dos_library_open_result"}

FileAdmitted(t) ==
  t.state = "dos_library_close_result" => t.prefix # 0

(* Mutant: one read too many is taken.                                     *)
LibraryReadAgain(t) ==
  {[t EXCEPT !.reads = @ + 1,
             !.prefix = IF t.reads = 0 THEN p ELSE @,
             !.state = IF t.reads < LibraryReads THEN @ ELSE "dos_library_close_result"]
     : p \in Prefixes}

LibraryRead(t) ==
  {[t EXCEPT !.reads = @ + 1,
             !.prefix = IF t.reads = 0 THEN p ELSE @,
             !.state = IF t.reads + 1 < LibraryReads THEN @ ELSE "dos_library_close_result"]
     : p \in Prefixes}

DosFile(t) ==
  IF t.state = "dos_library_read_result" THEN LibraryRead(t)
  ELSE IF ~FileAdmitted(t) THEN {}
  ELSE Along(FileEdges, t)
       \cup {[t EXCEPT !.state = "dos_file_failure"] : s \in FatalFiles \cap {t.state}}

VectorEdges ==
  {<<"dos_get_vector_zero_result", "dos_set_vector_zero_result">>,
   <<"dos_set_vector_zero_result", "dos_get_vector_four_result">>,
   <<"dos_get_vector_four_result", "dos_set_vector_four_result">>,
   <<"dos_set_vector_four_result", "bios_int15_first_result">>}

SetupBiosEdges ==
  {<<"bios_int15_first_result", "bios_int15_second_result">>,
   <<"bios_int15_second_result", "post_library_next_setup_call">>}

-----------------------------------------------------------------------------
(* The descriptor loop.  post_descriptor_first_loop_ is written loop_ (and *)
(* left out of the decoder's states), post_descriptor_next_loop_ and       *)
(* post_descriptor_second_loop_ are next_loop_ and second_loop_.           *)
(*                                                                         *)
(* A loop the session owns is moved by a drive alone: the far observers    *)
(* take nothing once it is owned unless the drive itself calls them.       *)
Open(t, driving) == driving \/ ~t.owned

FarWordsEdges ==
  {<<"timer_vector_far_read", "post_vector_hook_call">>,
   <<"video_vector_far_read", "post_video_hook_mode_call">>,
   <<"graphics_descriptor_far_read", "graphics_record_word_read">>,
   <<"loop_far_read", "loop_record_word_read">>,
   <<"next_loop_far_read", "next_loop_record_word_read">>,
   <<"second_loop_far_read", "second_loop_record_word_read">>}

(* A drive knows the pair of the next descriptor, any other caller is left *)
(* in a state no operation takes further.                                  *)
FarWords(t, driving) ==
  IF ~Open(t, driving) THEN {}
  ELSE {[t EXCEPT !.state = IF driving THEN "loop_record_word_read" ELSE next]
          : next \in EdgeEnds(FarWordsEdges, t.state)}

(* The three words of a record header.                                     *)
RecordWordEdges ==
  {<<"graphics_record_word_read", "graphics_record_second_word_read">>,
   <<"graphics_record_second_word_read", "graphics_record_third_word_read">>,
   <<"graphics_record_third_word_read", "graphics_record_byte_read">>,
   <<"loop_record_word_read", "loop_second_word_read">>,
   <<"loop_second_word_read", "loop_third_word_read">>,
   <<"loop_third_word_read", "loop_byte_read">>,
   <<"second_loop_record_word_read", "second_loop_second_word_read">>,
   <<"second_loop_second_word_read", "second_loop_third_word_read">>,
   <<"second_loop_third_word_read", "second_loop_byte_read">>}

(* A decoded record goes to the picture code of its mode, and a second     *)
(* descriptor's record ends the session's knowledge.                       *)
AfterRecord(t) ==
  CASE t.second -> "second_loop_decoded_record"
    [] ~t.second /\ t.mode = 1 -> "mode_one_header_byte"
    [] ~t.second /\ t.mode = 2 -> "mode_two_header_byte"
    [] ~t.second /\ t.mode = 4 -> "mode_four_header_byte"
    [] OTHER -> "other_header_byte"

(* k decoded bytes are written; the count of the rest is 16 bits wide and  *)
(* a run that passes the end of the record wraps it.                       *)
Decoded(t, k, next) ==
  LET remaining == (t.dx + WordSize - k) % WordSize
  IN [t EXCEPT !.dx = remaining,
               !.state = IF remaining = 0 THEN AfterRecord(t) ELSE next]

(* The lengths a run may have.  The hash-bound library's runs are not      *)
(* empty and end with their record; an observer's words are whatever its   *)
(* caller gives.                                                           *)
Runs(t, driving, shortest) ==
  {k \in shortest..(WordSize - 1) : driving => k \in 1..t.dx}

(* A nibble selects a lookup, an escape, or in mode two a run.             *)
LowNibble == {<<"xlat_byte", 0>>, <<"escape_word", 0>>, <<"mode_two_word", 2>>}
HighNibble ==
  {<<"high_xlat_byte", 0>>, <<"high_escape_word", 0>>, <<"high_mode_two_word", 2>>}

Nibble(t, operands) ==
  {[t EXCEPT !.state = o[1]] : o \in {o \in operands : o[2] \in {0, t.mode}}}

(* The low nibble's operand leads to the high nibble of the same byte, the *)
(* high nibble's to the next byte of the stream.                           *)
AfterLow == "high_nibble_byte"
AfterHigh == "stream_byte"

XlatEnds == {<<"xlat_byte", AfterLow>>, <<"high_xlat_byte", AfterHigh>>}
EscapeEnds == {<<"escape_word", AfterLow>>, <<"high_escape_word", AfterHigh>>}
RunEnds == {<<"mode_two_word", AfterLow>>, <<"high_mode_two_word", AfterHigh>>}
LongRunEnds ==
  {<<"mode_two_second_escape_word", AfterLow>>,
   <<"high_mode_two_second_escape_word", AfterHigh>>}

RunEdges ==
  {<<"mode_two_word", "mode_two_escape_word">>,
   <<"high_mode_two_word", "high_mode_two_escape_word">>}
RunEscapeEdges ==
  {<<"mode_two_escape_word", "mode_two_second_escape_word">>,
   <<"high_mode_two_escape_word", "high_mode_two_second_escape_word">>}

(* The decoder's word operands: an escaped byte, a run, a run's length in  *)
(* two more words (the sum of two is taken in 16 bits, so it may be zero). *)
DecoderWord(t, driving) ==
  {Decoded(t, 1, next) : next \in EdgeEnds(EscapeEnds, t.state)}
    \cup Along(RunEdges, t) \cup Along(RunEscapeEdges, t)
    \cup {Decoded(t, k, next) : k \in Runs(t, driving, 2), next \in EdgeEnds(RunEnds, t.state)}
    \cup {Decoded(t, k, next) : k \in Runs(t, driving, 0),
                               next \in EdgeEnds(LongRunEnds, t.state)}

(* The last header word of mode two clears the picture and starts its      *)
(* columns; that of mode four leads to the planar body.                    *)
HeaderWord(t) ==
  CASE t.state = "mode_two_header_word" ->
         {[t EXCEPT !.state = "mode_two_source_byte", !.dx = Rows, !.bx = Columns]}
    [] t.state = "mode_four_header_word" /\ t.mode = 4 ->
         {[t EXCEPT !.state = "mode_four_body"]}
    [] OTHER -> {}

FarWord(t, driving) ==
  IF ~Open(t, driving) THEN {}
  ELSE Along(RecordWordEdges, t) \cup DecoderWord(t, driving) \cup HeaderWord(t)

(* The bytes of a record header: a loop record whose second byte is 1 or 2 *)
(* is encoded.  The first record that is not moves the pointers on by hand *)
(* and the loop stands at its second descriptor; a second one ends here.   *)
SecondByte(t) ==
  {[t EXCEPT !.state = "payload_byte"],
   [t EXCEPT !.state = "second_loop_far_read", !.iter = 2]}

SecondLoopSecondByte(t) ==
  {[t EXCEPT !.state = "payload_byte", !.second = TRUE],
   [t EXCEPT !.state = "second_loop_local_return"]}

RecordByteEdges ==
  {<<"graphics_record_byte_read", "graphics_record_second_byte_read">>,
   <<"graphics_record_second_byte_read", "graphics_record_private_interrupt_result">>,
   <<"loop_byte_read", "loop_second_byte_read">>,
   <<"second_loop_byte_read", "second_loop_second_byte_read">>}

RecordByte(t) ==
  CASE t.state = "loop_second_byte_read" -> SecondByte(t)
    [] t.state = "second_loop_second_byte_read" -> SecondLoopSecondByte(t)
    [] OTHER -> Along(RecordByteEdges, t)

(* The decoder's bytes: the first byte is stored as it is, a stream byte   *)
(* holds two nibbles, a lookup yields one byte.                            *)
DecoderByte(t) ==
  CASE t.state = "payload_byte" ->
         {Decoded([t EXCEPT !.dx = RecordBytes], 1, AfterHigh)}
    [] t.state \in {"stream_byte", "next_loop_stream_byte"} -> Nibble(t, LowNibble)
    [] t.state = "high_nibble_byte" -> Nibble(t, HighNibble)
    [] OTHER -> {Decoded(t, 1, next) : next \in EdgeEnds(XlatEnds, t.state)}

(* Mutant: the loop runs one descriptor too far.                           *)
ReturnToLoopLate(t) ==
  CASE ~t.owned /\ t.iter = 2 -> [t EXCEPT !.state = "loop_return"]
    [] t.owned /\ t.iter > Records -> [t EXCEPT !.state = "descriptor_loop_complete"]
    [] OTHER -> [t EXCEPT !.state = "next_loop_far_read", !.iter = @ + 1]

(* A picture is done: the loop's next descriptor, the end of the loop, or, *)
(* for a loop nobody owns, the end of what is known after the second.      *)
ReturnToLoop(t) ==
  CASE ~t.owned /\ t.iter = 2 -> [t EXCEPT !.state = "loop_return"]
    [] t.iter = Records /\ (t.owned \/ t.iter # 2) ->
         [t EXCEPT !.state = "descriptor_loop_complete"]
    [] OTHER -> [t EXCEPT !.state = "next_loop_far_read", !.iter = @ + 1]

(* Mode two reads the picture two pixels at a time, down each column.      *)
ColumnEnd(t) ==
  IF t.bx = 1 THEN ReturnToLoop([t EXCEPT !.bx = 0, !.dx = 0])
  ELSE [t EXCEPT !.bx = @ - 1, !.dx = Rows, !.state = "mode_two_source_byte"]

ModeTwoByte(t) ==
  CASE t.state = "mode_two_header_byte" ->
         {[t EXCEPT !.state = "mode_two_header_second_byte"]}
    [] t.state = "mode_two_header_second_byte" ->
         {[t EXCEPT !.state = "mode_two_header_word"]}
    [] t.state = "mode_two_source_byte" ->
         {[t EXCEPT !.state = "mode_two_first_lookup_byte"]}
    [] t.state = "mode_two_second_source_byte" ->
         {[t EXCEPT !.state = "mode_two_second_lookup_byte"]}
    [] t.state = "mode_two_first_lookup_byte" /\ t.dx > 1 ->
         {[t EXCEPT !.state = "mode_two_second_source_byte", !.dx = @ - 1]}
    [] t.state = "mode_two_second_lookup_byte" /\ t.dx > 1 ->
         {[t EXCEPT !.state = "mode_two_source_byte", !.dx = @ - 1]}
    [] t.state \in {"mode_two_first_lookup_byte", "mode_two_second_lookup_byte"} /\ t.dx = 1 ->
         {ColumnEnd(t)}
    [] OTHER -> {}

ModeFourByte(t) ==
  CASE t.mode = 4 /\ t.state = "mode_four_header_byte" ->
         {[t EXCEPT !.state = "mode_four_header_second_byte"]}
    [] t.mode = 4 /\ t.state = "mode_four_header_second_byte" ->
         {[t EXCEPT !.state = "mode_four_header_word"]}
    [] OTHER -> {}

FarByte(t, driving) ==
  IF ~Open(t, driving) THEN {}
  ELSE RecordByte(t) \cup DecoderByte(t) \cup ModeTwoByte(t) \cup ModeFourByte(t)

(* The far bytes whose observation writes no memory.                       *)
SilentBytes ==
  {"stream_byte", "next_loop_stream_byte", "high_nibble_byte",
   "mode_two_header_byte", "mode_two_header_second_byte", "mode_two_source_byte",
   "mode_two_second_source_byte", "mode_four_header_byte", "mode_four_header_second_byte"}

Writes(t) ==
  t.state \notin SilentBytes /\ ~(t.state = "mode_two_first_lookup_byte" /\ t.dx > 1)

-----------------------------------------------------------------------------
(* The drive: observations answered from the verified TITLE.LIB.           *)

DrivableStates ==
  {"loop_far_read", "next_loop_far_read", "loop_record_word_read", "loop_second_word_read",
   "loop_third_word_read", "loop_byte_read", "loop_second_byte_read", "payload_byte",
   "stream_byte", "high_nibble_byte"}
  \cup Sources(LowNibble) \cup Sources(HighNibble)
  \cup Sources(RunEscapeEdges) \cup Sources(LongRunEnds)
  \cup {"mode_two_header_byte", "mode_two_header_second_byte", "mode_two_header_word",
        "mode_two_source_byte", "mode_two_first_lookup_byte",
        "mode_two_second_source_byte", "mode_two_second_lookup_byte"}
ModeOneStates == {"mode_one_header_byte", "mode_one_translation"}
ModeFourStates == {"mode_four_header_byte", "mode_four_header_second_byte",
                   "mode_four_header_word", "mode_four_body"}

(* descriptor_loop_can_drive: a loop is taken over at its first read only. *)
CanDrive(t) ==
  /\ t.mode \in {1, 2, 4} /\ t.iter \in 1..Records
  /\ t.owned \/ (t.iter = 1 /\ t.state = "loop_far_read")
  /\ \/ t.state \in DrivableStates
     \/ t.mode = 1 /\ t.state \in ModeOneStates
     \/ t.mode = 4 /\ t.state \in ModeFourStates

(* Mode one translates the record's bytes one by one.                      *)
TranslateByte(t) ==
  CASE t.state = "mode_one_header_byte" ->
         {[t EXCEPT !.state = "mode_one_translation", !.dx = RecordBytes]}
    [] t.state = "mode_one_translation" ->
         {IF t.dx = 1 THEN ReturnToLoop([t EXCEPT !.dx = 0]) ELSE [t EXCEPT !.dx = @ - 1]}
    [] OTHER -> {}

(* Mode four draws the whole planar picture in one observation.            *)
PlanarBody(t) == IF t.state = "mode_four_body" THEN {ReturnToLoop(t)} ELSE {}

(* What one observation of a drive makes of the session.                   *)
DriveOnce(t) ==
  FarWords(t, TRUE) \cup FarWord(t, TRUE) \cup FarByte(t, TRUE)
    \cup TranslateByte(t) \cup PlanarBody(t)

(* Pointer words written by an observation that moved the loop on.         *)
Pointers(t, u, p) == IF u.iter # t.iter THEN u.iter ELSE p

(* The loop's pointer words in the memory after an observation: each       *)
(* observation's effects are applied as one batch, except that the planar  *)
(* body applies two batches of its own and the rest of its effects, the    *)
(* pointer words of the return among them, are not applied at all.         *)
DrivenPointers(t, u, p) ==
  IF t.state = "mode_four_body" THEN p ELSE Pointers(t, u, p)

(* Mutant: the drive goes on from where it cannot be continued.            *)
DriveStepUnchecked(x) ==
  IF x.t.state = "descriptor_loop_complete" THEN {x}
  ELSE {[t |-> u, p |-> DrivenPointers(x.t, u, x.p)] : u \in DriveOnce(x.t)}

(* A drive ends early at the end of the loop, and refuses altogether when  *)
(* an observation leads where it cannot go on (a record that is not        *)
(* encoded): the library is one file, so only the paths that do not are    *)
(* left.                                                                   *)
DriveStep(x) ==
  IF x.t.state = "descriptor_loop_complete" THEN {x}
  ELSE {[t |-> u, p |-> DrivenPointers(x.t, u, x.p)] : u \in
          {u \in DriveOnce(x.t) : CanDrive(u) \/ u.state = "descriptor_loop_complete"}}

(* All or nothing: the session and the memory after n observations.        *)
Driven(x, n) ==
  LET after[i \in 0..n] == IF i = 0 THEN {x} ELSE UNION {DriveStep(y) : y \in after[i - 1]}
  IN after[n]

(* The library must have been read as far as the records reach.            *)
Drive ==
  /\ CanDrive(title) /\ title.prefix = 3
  /\ \E n \in 1..Quantum :
       /\ via = "coordinator" => n = Quantum
       /\ \E x \in Driven([t |-> [title EXCEPT !.owned = TRUE], p |-> published], n) :
            title' = x.t /\ published' = x.p
  /\ UNCHANGED via

(* The owned loop's caller reads the wait word and asks for the interrupt. *)
LoopCaller ==
  /\ title.owned /\ title.state = "descriptor_loop_complete"
  /\ title' = [title EXCEPT !.state = "descriptor_loop_wait_private_interrupt"]
  /\ UNCHANGED <<published, via>>

-----------------------------------------------------------------------------
(* The session's callers.                                                  *)

(* Kinds of answer, and the local calls the coordinator runs in the same   *)
(* transaction as an answer of that kind.                                  *)
Kinds ==
  {"private_interrupt", "selected_callee", "palette_bios", "dos_memory", "dos_file",
   "dos_vector", "setup_bios", "far_words", "far_word", "far_byte"}

Chained ==
  {<<"private_interrupt", "post_video_followup_call">>,
   <<"palette_bios", "post_library_setup_call">>,
   <<"palette_bios", "post_video_setup_call">>,
   <<"palette_bios", "post_video_graphics_call">>,
   <<"dos_file", "library_relocation_complete">>,
   <<"dos_file", "post_library_setup_call">>,
   <<"setup_bios", "post_library_next_setup_call">>,
   <<"setup_bios", "post_library_followup_call">>,
   <<"far_words", "post_vector_hook_call">>,
   <<"far_words", "post_video_hook_mode_call">>}

Answered(kind, t) ==
  CASE kind = "private_interrupt" -> PrivateInterrupt(t)
    [] kind = "selected_callee" -> SelectedCallee(t)
    [] kind = "palette_bios" -> PaletteResult(t)
    [] kind = "dos_memory" -> DosMemory(t)
    [] kind = "dos_file" -> DosFile(t)
    [] kind = "dos_vector" -> Along(VectorEdges, t)
    [] kind = "setup_bios" -> Along(SetupBiosEdges, t)
    [] kind = "far_words" -> FarWords(t, FALSE)
    [] kind = "far_word" -> FarWord(t, FALSE)
    [] OTHER -> FarByte(t, FALSE)

(* One local call of the chain, on every session it applies to.  A session *)
(* whose call is refused is dropped: the answer is refused with it.        *)
Settled(kind, ts) ==
  UNION {IF t.state \in EdgeEnds(Chained, kind) THEN Execute(t) ELSE {t} : t \in ts}

(* The longest chain is two calls.                                         *)
CoordinatorAnswered(kind, t) == Settled(kind, Settled(kind, Answered(kind, t)))

(* The coordinator applies an answer's memory effects as one batch, and    *)
(* for a far byte without asking whether there are any: the memory refuses *)
(* an empty batch, and the byte with it.                                   *)
Applied(kind, t) == kind = "far_byte" => Writes(t)

(* One answer from outside, through the coordinator or given directly.     *)
Observe ==
  /\ \E kind \in Kinds :
       \/ /\ via = "coordinator" /\ Applied(kind, title)
          /\ title' \in CoordinatorAnswered(kind, title)
          /\ published' = Pointers(title, title', published)
       \/ /\ via = "direct"
          /\ title' \in Answered(kind, title)
          /\ UNCHANGED published
  /\ UNCHANGED via

(* A local call on its own: the coordinator's frame runs those that follow *)
(* no answer; used directly, the session runs any of them.                 *)
LocalCall ==
  /\ via = "coordinator" => title.state \in Sources(LocalCalls)
  /\ title' \in Execute(title)
  /\ UNCHANGED <<published, via>>

(* The compatibility runner answers every DOS memory and file call of the  *)
(* frame from its own arena and the verified library, up to the first      *)
(* boundary that is neither; an allocation may fail, a file call does not, *)
(* and the first read brings in the whole library.                         *)
CompatibilityAnswer(t) ==
  IF t.state \in Sources(MemoryEdges) THEN DosMemory(t)
  ELSE {u \in CoordinatorAnswered("dos_file", t) :
          u.state # "dos_file_failure" /\ (t.reads = 0 /\ u.reads = 1 => u.prefix = 3)}

CompatibilityStates == Sources(MemoryEdges) \cup Sources(FileEdges) \cup {"dos_library_read_result"}

CompatibilityChain(t) ==
  LET longest == Cardinality(CompatibilityStates) + LibraryReads
      after[i \in 0..longest] ==
        IF i = 0 THEN {t}
        ELSE UNION {IF u.state \in CompatibilityStates THEN CompatibilityAnswer(u) ELSE {u}
                      : u \in after[i - 1]}
  IN after[longest]

CompatibilityTick ==
  /\ via = "coordinator" /\ title.state \in CompatibilityStates
  /\ title' \in CompatibilityChain(title)
  /\ UNCHANGED <<published, via>>

(* Operations the coordinator never calls, or that never get past a loop   *)
(* it owns: they are the session's own.                                    *)

(* consume_next_descriptor_pair reads the second descriptor's whole header *)
(* and its first three bytes at once.                                      *)
ConsumeNextPair ==
  /\ via = "direct" /\ title.state = "next_loop_far_read" /\ ~title.owned /\ title.iter = 2
  /\ title' = [title EXCEPT !.state = "next_loop_stream_byte", !.dx = RecordBytes - 3]
  /\ UNCHANGED <<published, via>>

(* consume_next_descriptor_mode_two_header: two bytes and a word at once.  *)
ConsumeModeTwoHeader ==
  /\ via = "direct" /\ title.state = "mode_two_header_byte"
  /\ ~title.owned /\ title.iter = 2 /\ ~title.second
  /\ title' \in HeaderWord([title EXCEPT !.state = "mode_two_header_word"])
  /\ UNCHANGED <<published, via>>

ModeTwoStates == {"mode_two_source_byte", "mode_two_first_lookup_byte",
                  "mode_two_second_source_byte", "mode_two_second_lookup_byte"}

(* drive_mode_two_from_owned_memory, up to the return to the loop; it uses *)
(* the observers as any caller does, so an owned loop refuses it.          *)
ModeTwoDriven(t, n) ==
  LET after[i \in 0..n] ==
        IF i = 0 THEN {t}
        ELSE UNION {IF u.state \in ModeTwoStates THEN FarByte(u, FALSE) ELSE {u}
                      : u \in after[i - 1]}
  IN after[n]

DriveModeTwo ==
  /\ via = "direct" /\ title.state \in ModeTwoStates
  /\ \E n \in 1..Quantum : \E u \in ModeTwoDriven(title, n) :
       title' = u /\ published' = Pointers(title, u, published)
  /\ UNCHANGED via

TitleStep ==
  Observe \/ LocalCall \/ CompatibilityTick \/ Drive \/ LoopCaller
    \/ ConsumeNextPair \/ ConsumeModeTwoHeader \/ DriveModeTwo

-----------------------------------------------------------------------------
(* Properties.                                                             *)

(* The states no table above leads out of, or only a choice does.          *)
OtherStates ==
  {"private_interrupt_result", "selected_callee_private_interrupt_result",
   "post_descriptor_private_interrupt_result", "bios_palette_interrupt",
   "library_palette_bios_interrupt", "library_relocation_complete",
   "dos_library_read_result", "allocation_failure", "dos_file_failure",
   "second_loop_decoded_record", "second_loop_local_return", "loop_return",
   "next_loop_record_word_read", "next_loop_stream_byte", "mode_two_word",
   "high_mode_two_word", "loop_second_byte_read", "second_loop_second_byte_read",
   "second_loop_byte_read", "other_header_byte", "descriptor_loop_complete",
   "descriptor_loop_wait_private_interrupt"}

TitleStates ==
  OtherStates \cup Sources(LocalCalls) \cup Sources(SetupCalls) \cup Sources(VideoCalls)
    \cup Sources(PrivateInterruptEdges) \cup Sources(MemoryEdges) \cup Sources(FileEdges)
    \cup Sources(VectorEdges) \cup Sources(SetupBiosEdges) \cup Sources(FarWordsEdges)
    \cup Sources(RecordWordEdges) \cup Sources(RecordByteEdges)
    \cup DrivableStates \cup ModeOneStates \cup ModeFourStates

Sessions ==
  [state : TitleStates, mode : {0} \cup DisplayModes, iter : 0..Records,
   owned : BOOLEAN, second : BOOLEAN, repeat : BOOLEAN,
   results : 0..(2 * PaletteSize), reads : 0..LibraryReads, prefix : Prefixes,
   dx : 0..(WordSize - 1), bx : 0..Columns]

(* The type invariant: in particular no counter of the loop, of the        *)
(* palette or of the library passes its end.                               *)
TitleTypeOK == title \in Sessions /\ published \in 0..Records /\ via \in {"coordinator", "direct"}

(* A loop that a drive has taken over never gets where no drive goes on    *)
(* before its end: a drive that would end there is refused as a whole, and *)
(* the observers cannot move the loop meanwhile (Drive, DriveStep, Open).  *)
OwnedLoopGoesOn ==
  title.owned =>
    \/ CanDrive(title)
    \/ title.state \in {"descriptor_loop_complete", "descriptor_loop_wait_private_interrupt"}

(* The pointer words the coordinator has published are those of the        *)
(* session's descriptor, whoever moved the loop and however many           *)
(* observations one drive made (Observe, Drive); mode four is the          *)
(* exception, which publishes its planes and not its pointers.             *)
LoopIsPublished == via = "coordinator" /\ title.mode # 4 => published = title.iter

(* The loop begins only after the whole library was read with its header,  *)
(* and both palette passes were made, the second after the video mode was  *)
(* set again; mode one had the palette from the library.                   *)
LoopFollowsSetup ==
  title.iter > 0 =>
    /\ title.repeat /\ title.results = 2 * PaletteSize
    /\ title.reads = LibraryReads /\ title.prefix # 0
    /\ title.mode = 1 => title.prefix >= 2

(* The title's loop goes on where it was taken over, is published as far   *)
(* as it has come, and began when its data were there.                     *)
OwnedLoopIsSound == OwnedLoopGoesOn /\ LoopIsPublished /\ LoopFollowsSetup

(* Driven often enough, a loop that was taken over reaches its end, and    *)
(* its caller the wait: no drive goes round in the decoder or the picture. *)
OwnedLoopEnds == title.owned ~> title.state = "descriptor_loop_wait_private_interrupt"

(* The coordinator's drive names far_byte as what the title waits for; so  *)
(* an observation of that byte ought to be admitted.                       *)
ByteAskedForIsAdmitted ==
  via = "coordinator" /\ ~title.owned /\ FarByte(title, FALSE) # {} => Applied("far_byte", title)
=============================================================================

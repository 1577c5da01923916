----------------------------- MODULE StartupProofs -----------------------------
(***************************************************************************)
(* The sessions before a game runs, for programs, pictures and loads of    *)
(* any size.  The title program of DOS and the title stage of the Amiga: a *)
(* loop goes on from what was read, and commands from what was copied.     *)
(* The picture of the Atari, word by word, with its fade and its module's  *)
(* entry; the Amiga's first stage with its memory.  And the types of all   *)
(* sessions, those of NativeProofs included.                               *)
(***************************************************************************)
EXTENDS NativeProofs

-----------------------------------------------------------------------------
(* The DOS title program.  Before its loop a session goes through these    *)
(* places in turn; the palette pass and the call before it are taken twice,*)
(* the second time after the video mode was set again.                     *)
TitleEntryStates == {"awaiting_entry", "private_interrupt_result", "selected_local_call"}

TitleSelectStates == {"selected_callee_private_interrupt_result", "selected_followup_call"}

TitleAllocationStates ==
  {"title_main_allocation_call", "dos_resize_result", "dos_large_allocation_result",
   "dos_free_result", "dos_first_buffer_allocation_result",
   "dos_second_buffer_allocation_result", "dos_file_open_result", "dos_file_seek_result",
   "dos_file_close_result", "dos_file_sized_allocation_result",
   "dos_single_paragraph_allocation_result", "dos_scratch_allocation_result",
   "dos_scratch_free_result", "dos_library_open_result"}

TitleSetupStates ==
  {"library_palette_bios_interrupt", "post_library_setup_call",
   "dos_get_vector_zero_result", "dos_set_vector_zero_result",
   "dos_get_vector_four_result", "dos_set_vector_four_result",
   "bios_int15_first_result", "bios_int15_second_result",
   "post_library_next_setup_call", "post_library_followup_call",
   "timer_vector_far_read", "post_vector_hook_call", "video_vector_far_read",
   "post_video_hook_mode_call"}

TitleVideoStates ==
  {"post_video_setup_call", "post_video_graphics_call",
   "post_video_private_interrupt_result", "post_video_followup_call",
   "graphics_descriptor_far_read", "graphics_record_word_read",
   "graphics_record_second_word_read", "graphics_record_third_word_read",
   "graphics_record_byte_read", "graphics_record_second_byte_read",
   "graphics_record_private_interrupt_result", "post_descriptor_private_interrupt_result"}

TitleFailures == {"allocation_failure", "dos_file_failure"}

(* The loop's own places; in the last five a count has begun.              *)
TitlePlainLoop ==
  {"loop_far_read", "next_loop_far_read", "second_loop_far_read",
   "loop_record_word_read", "loop_second_word_read", "loop_third_word_read",
   "second_loop_record_word_read", "second_loop_second_word_read",
   "second_loop_third_word_read", "next_loop_record_word_read", "next_loop_stream_byte",
   "loop_byte_read", "loop_second_byte_read", "second_loop_byte_read",
   "second_loop_second_byte_read", "second_loop_local_return",
   "second_loop_decoded_record", "payload_byte", "stream_byte", "high_nibble_byte",
   "xlat_byte", "escape_word", "mode_two_word", "high_xlat_byte", "high_escape_word",
   "high_mode_two_word", "mode_two_escape_word", "high_mode_two_escape_word",
   "mode_two_second_escape_word", "high_mode_two_second_escape_word",
   "mode_one_header_byte", "mode_two_header_byte", "mode_four_header_byte",
   "other_header_byte", "mode_two_header_second_byte", "mode_two_header_word",
   "mode_four_header_second_byte", "mode_four_header_word", "mode_four_body",
   "loop_return", "descriptor_loop_complete", "descriptor_loop_wait_private_interrupt"}

TitleLoopStates == TitlePlainLoop \cup ModeTwoStates \cup {"mode_one_translation"}

(* The whole library is read with what the mode needs of it.               *)
LibraryIsIn(t) == t.reads = LibraryReads /\ t.prefix # 0 /\ (t.mode = 1 => t.prefix >= 2)

(* What has been done at each place before the loop.                       *)
FirstPass(t) == ~t.repeat /\ t.results = PaletteSize
PassesAreMade(t) ==
  /\ t.state \in TitleEntryStates => ~t.repeat /\ t.results = 0 /\ t.reads = 0
  /\ t.state \in TitleSelectStates =>
       IF t.repeat THEN t.results = PaletteSize /\ LibraryIsIn(t)
       ELSE t.results = 0 /\ t.reads = 0
  /\ t.state = "bios_palette_interrupt" =>
       IF t.repeat THEN t.results \in PaletteSize..(2 * PaletteSize - 1) /\ LibraryIsIn(t)
       ELSE t.results \in 0..(PaletteSize - 1) /\ t.reads = 0
  /\ t.state \in TitleAllocationStates => FirstPass(t) /\ t.reads = 0
  /\ t.state = "dos_library_read_result" => FirstPass(t) /\ t.reads < LibraryReads
  /\ t.state = "dos_library_close_result" => FirstPass(t) /\ t.reads = LibraryReads
  /\ t.state = "library_relocation_complete" =>
       FirstPass(t) /\ t.reads = LibraryReads /\ t.prefix # 0
  /\ t.state \in TitleSetupStates => FirstPass(t) /\ LibraryIsIn(t)
  /\ t.state \in TitleVideoStates \cup TitleLoopStates =>
       t.repeat /\ t.results = 2 * PaletteSize /\ LibraryIsIn(t)

(* The counts of the loop, each where it is read.                          *)
LoopCounts(t) ==
  /\ IF t.state \in TitleLoopStates THEN t.iter > 0 ELSE t.iter = 0 /\ ~t.owned
  /\ t.state \in ModeTwoStates => t.dx > 0 /\ t.bx > 0
  /\ t.state = "mode_one_translation" => t.dx > 0

TitleOK(t) == t \in Sessions /\ PassesAreMade(t) /\ LoopCounts(t)

(* A change of place alone.                                                *)
LEMMA TitleLoopStatesHere == TitleLoopStates \subseteq TitleStates
BY DEF TitleLoopStates, TitlePlainLoop, ModeTwoStates, TitleStates, OtherStates, DrivableStates,
       ModeOneStates, ModeFourStates, FarWordsEdges, RecordWordEdges, RecordByteEdges,
       LowNibble, HighNibble, RunEscapeEdges, LongRunEnds, Sources

LEMMA TitleSetupStatesHere ==
  TitleEntryStates \cup TitleSelectStates \cup {"bios_palette_interrupt"}
    \cup TitleAllocationStates \cup {"dos_library_read_result", "dos_library_close_result",
    "library_relocation_complete"} \cup TitleSetupStates \cup TitleVideoStates
    \cup TitleFailures \subseteq TitleStates
BY DEF TitleEntryStates, TitleSelectStates, TitleAllocationStates, TitleSetupStates,
       TitleVideoStates, TitleFailures, TitleStates, OtherStates, LocalCalls, SetupCalls,
       VideoCalls, PrivateInterruptEdges, MemoryEdges, FileEdges, VectorEdges, SetupBiosEdges,
       FarWordsEdges, RecordWordEdges, RecordByteEdges, Sources

(* Where the tables lead.                                                  *)
LEMMA TitleLocalEdges ==
  ASSUME NEW s, NEW e \in EdgeEnds(LocalCalls, s)
  PROVE  \/ s = "awaiting_entry" /\ e = "private_interrupt_result"
         \/ s = "selected_local_call" /\ e = "selected_callee_private_interrupt_result"
         \/ s = "selected_followup_call" /\ e = "bios_palette_interrupt"
         \/ s = "title_main_allocation_call" /\ e = "dos_resize_result"
BY DEF EdgeEnds, LocalCalls

LEMMA TitleSetupEdges ==
  ASSUME NEW s, NEW e \in EdgeEnds(SetupCalls, s) \cup EdgeEnds(VectorEdges, s)
                            \cup EdgeEnds(SetupBiosEdges, s)
  PROVE  s \in TitleSetupStates /\ e \in TitleSetupStates
BY DEF EdgeEnds, SetupCalls, VectorEdges, SetupBiosEdges, TitleSetupStates

LEMMA TitleVideoEdges ==
  ASSUME NEW s, NEW e \in EdgeEnds(VideoCalls, s)
  PROVE  \/ s = "post_video_hook_mode_call" /\ e = "selected_callee_private_interrupt_result"
         \/ s # "post_video_hook_mode_call" /\ s \in TitleVideoStates /\ e \in TitleVideoStates
BY DEF EdgeEnds, VideoCalls, TitleVideoStates

LEMMA TitleInterruptEdges ==
  ASSUME NEW s, NEW e \in EdgeEnds(PrivateInterruptEdges, s)
  PROVE  s \in TitleVideoStates /\ e \in TitleVideoStates
BY DEF EdgeEnds, PrivateInterruptEdges, TitleVideoStates

LEMMA TitleMemoryEdges ==
  ASSUME NEW s, NEW e \in EdgeEnds(MemoryEdges, s)
  PROVE  s \in TitleAllocationStates /\ e \in TitleAllocationStates
BY DEF EdgeEnds, MemoryEdges, TitleAllocationStates

LEMMA TitleFileEdges ==
  ASSUME NEW s, NEW e \in EdgeEnds(FileEdges, s)
  PROVE  \/ s \in TitleAllocationStates /\ e \in TitleAllocationStates
         \/ s = "dos_library_open_result" /\ e = "dos_library_read_result"
         \/ s = "dos_library_close_result" /\ e = "library_relocation_complete"
BY DEF EdgeEnds, FileEdges, TitleAllocationStates

LEMMA TitleWordsEdges ==
  ASSUME NEW s, NEW e \in EdgeEnds(FarWordsEdges, s)
  PROVE  \/ s \in TitleSetupStates /\ e \in TitleSetupStates
         \/ s \in TitleVideoStates /\ e \in TitleVideoStates
         \/ s \in TitlePlainLoop /\ e \in TitlePlainLoop
BY DEF EdgeEnds, FarWordsEdges, TitleSetupStates, TitleVideoStates, TitlePlainLoop

LEMMA TitleRecordEdges ==
  ASSUME NEW s, NEW e \in EdgeEnds(RecordWordEdges, s) \cup EdgeEnds(RecordByteEdges, s)
  PROVE  \/ s \in TitleVideoStates /\ e \in TitleVideoStates
         \/ s \in TitlePlainLoop /\ e \in TitlePlainLoop
BY DEF EdgeEnds, RecordWordEdges, RecordByteEdges, TitleVideoStates, TitlePlainLoop

LEMMA TitleRunEdges ==
  ASSUME NEW s, NEW e \in EdgeEnds(RunEdges, s) \cup EdgeEnds(RunEscapeEdges, s)
                            \cup EdgeEnds(XlatEnds, s) \cup EdgeEnds(EscapeEnds, s)
                            \cup EdgeEnds(RunEnds, s) \cup EdgeEnds(LongRunEnds, s)
  PROVE  s \in TitlePlainLoop /\ e \in TitlePlainLoop
BY DEF EdgeEnds, RunEdges, RunEscapeEdges, XlatEnds, EscapeEnds, RunEnds, LongRunEnds,
       AfterLow, AfterHigh, TitlePlainLoop

(* No place is of two kinds.                                               *)
LEMMA TitleKindsApart ==
  ASSUME NEW s
  PROVE  /\ s \in TitleLoopStates =>
              s \notin TitleEntryStates \cup TitleSelectStates \cup TitleAllocationStates
                \cup TitleSetupStates \cup TitleVideoStates \cup TitleFailures
                \cup {"bios_palette_interrupt", "dos_library_read_result",
                      "dos_library_close_result", "library_relocation_complete"}
         /\ s \in TitlePlainLoop => s \notin ModeTwoStates \cup {"mode_one_translation"}
         /\ s \in TitleVideoStates =>
              s \notin TitleEntryStates \cup TitleSelectStates \cup TitleAllocationStates
                \cup TitleSetupStates \cup TitleFailures
                \cup {"bios_palette_interrupt", "dos_library_read_result",
                      "dos_library_close_result", "library_relocation_complete"}
         /\ s \in TitleSetupStates =>
              s \notin TitleEntryStates \cup TitleSelectStates \cup TitleAllocationStates
                \cup TitleFailures
                \cup {"bios_palette_interrupt", "dos_library_read_result",
                      "dos_library_close_result", "library_relocation_complete"}
         /\ s \in TitleAllocationStates =>
              s \notin TitleEntryStates \cup TitleSelectStates \cup TitleFailures
                \cup {"bios_palette_interrupt", "dos_library_read_result",
                      "dos_library_close_result", "library_relocation_complete"}
BY DEF TitleLoopStates, TitlePlainLoop, ModeTwoStates, TitleEntryStates, TitleSelectStates,
       TitleAllocationStates, TitleSetupStates, TitleVideoStates, TitleFailures

(* What an answer or a call before the loop leaves alone.                  *)
TitleKept(t, u) == TitleOK(u) /\ u.mode = t.mode /\ u.iter = t.iter /\ u.owned = t.owned

(* Within one part a place may be changed for another.                     *)
LEMMA TitleStays ==
  ASSUME NEW t, TitleOK(t), NEW e,
         \/ t.state \in TitleSetupStates /\ e \in TitleSetupStates
         \/ t.state \in TitleVideoStates /\ e \in TitleVideoStates
         \/ t.state \in TitleAllocationStates /\ e \in TitleAllocationStates
         \/ t.state \in TitleLoopStates /\ e \in TitlePlainLoop
  PROVE  TitleKept(t, [t EXCEPT !.state = e])
<1> DEFINE u == [t EXCEPT !.state = e]
<1>1. t \in Sessions /\ PassesAreMade(t) /\ LoopCounts(t)
  BY DEF TitleOK
<1>2. e \in TitleStates
  BY TitleLoopStatesHere, TitleSetupStatesHere DEF TitleLoopStates
<1>3. /\ u \in Sessions /\ u.state = e /\ u.mode = t.mode /\ u.iter = t.iter
      /\ u.owned = t.owned /\ u.repeat = t.repeat /\ u.results = t.results
      /\ u.reads = t.reads /\ u.prefix = t.prefix
  BY <1>1, <1>2 DEF Sessions
<1> HIDE DEF u
<1>4. LibraryIsIn(u) <=> LibraryIsIn(t)
  BY <1>3 DEF LibraryIsIn
<1>5. CASE t.state \in TitleLoopStates /\ e \in TitlePlainLoop
  <2>1. e \in TitleLoopStates /\ t.iter > 0
    BY <1>1, <1>5 DEF LoopCounts, TitleLoopStates
  <2>2. LoopCounts(u)
    BY <1>3, <1>5, <2>1, TitleKindsApart DEF LoopCounts
  <2>3. PassesAreMade(u)
    BY <1>1, <1>3, <1>4, <1>5, <2>1, TitleKindsApart DEF PassesAreMade
  <2>4. QED
    BY <1>3, <2>2, <2>3 DEF TitleKept, TitleOK, u
<1>6. CASE t.state \notin TitleLoopStates
  <2>1. e \notin TitleLoopStates /\ t.iter = 0 /\ ~t.owned
    BY <1>1, <1>6, TitleKindsApart DEF LoopCounts
  <2>2. LoopCounts(u)
    BY <1>3, <2>1 DEF LoopCounts, TitleLoopStates
  <2>3. CASE t.state \in TitleSetupStates /\ e \in TitleSetupStates
    <3>1. FirstPass(u) /\ LibraryIsIn(u)
      BY <1>1, <1>3, <1>4, <2>3 DEF PassesAreMade, FirstPass
    <3>2. PassesAreMade(u)
      BY <1>3, <2>1, <2>3, <3>1, TitleKindsApart DEF PassesAreMade
    <3>3. QED
      BY <1>3, <2>2, <3>2 DEF TitleKept, TitleOK, u
  <2>4. CASE t.state \in TitleVideoStates /\ e \in TitleVideoStates
    <3>1. u.repeat /\ u.results = 2 * PaletteSize /\ LibraryIsIn(u)
      BY <1>1, <1>3, <1>4, <2>4 DEF PassesAreMade
    <3>2. PassesAreMade(u)
      BY <1>3, <2>4, <3>1, TitleKindsApart DEF PassesAreMade
    <3>3. QED
      BY <1>3, <2>2, <3>2 DEF TitleKept, TitleOK, u
  <2>5. CASE t.state \in TitleAllocationStates /\ e \in TitleAllocationStates
    <3>1. FirstPass(u) /\ u.reads = 0
      BY <1>1, <1>3, <2>5 DEF PassesAreMade, FirstPass
    <3>2. PassesAreMade(u)
      BY <1>3, <2>1, <2>5, <3>1, TitleKindsApart DEF PassesAreMade
    <3>3. QED
      BY <1>3, <2>2, <3>2 DEF TitleKept, TitleOK, u
  <2>6. QED
    BY <1>6, <2>3, <2>4, <2>5
<1>7. QED
  BY <1>5, <1>6, TitleKindsApart

(* A session that failed has nothing left to keep.                         *)
LEMMA TitleFails ==
  ASSUME NEW t, TitleOK(t), t.state \notin TitleLoopStates, NEW e \in TitleFailures
  PROVE  TitleKept(t, [t EXCEPT !.state = e])
<1> DEFINE u == [t EXCEPT !.state = e]
<1>1. t \in Sessions /\ LoopCounts(t)
  BY DEF TitleOK
<1>2. e \in TitleStates
  BY TitleSetupStatesHere
<1>3. /\ u \in Sessions /\ u.state = e /\ u.mode = t.mode /\ u.iter = t.iter /\ u.owned = t.owned
  BY <1>1, <1>2 DEF Sessions
<1> HIDE DEF u
<1>4. e \notin TitleLoopStates /\ e \notin TitleVideoStates /\ e \notin TitleSetupStates
        /\ e \notin TitleAllocationStates /\ e \notin TitleEntryStates
        /\ e \notin TitleSelectStates
        /\ e \notin {"bios_palette_interrupt", "dos_library_read_result",
                     "dos_library_close_result", "library_relocation_complete"}
        /\ e \notin ModeTwoStates /\ e # "mode_one_translation"
  BY DEF TitleFailures, TitleLoopStates, TitlePlainLoop, ModeTwoStates, TitleVideoStates,
         TitleSetupStates, TitleAllocationStates, TitleEntryStates, TitleSelectStates
<1>5. LoopCounts(u) /\ PassesAreMade(u)
  BY <1>1, <1>3, <1>4 DEF LoopCounts, PassesAreMade
<1>6. QED
  BY <1>3, <1>5 DEF TitleKept, TitleOK, u

LEMMA TitleAlong ==
  ASSUME NEW edges, NEW t, NEW u \in Along(edges, t)
  PROVE  \E e \in EdgeEnds(edges, t.state) : u = [t EXCEPT !.state = e]
BY DEF Along

(* The relocation is followed by the setup, or in mode one by the palette  *)
(* of the library, which has to be there.                                  *)
LEMMA TitleRelocationKeeps ==
  ASSUME NEW t, TitleOK(t), t.state = "library_relocation_complete", NEW u \in PostRelocation(t)
  PROVE  TitleKept(t, u)
<1>1. t \in Sessions /\ PassesAreMade(t) /\ LoopCounts(t)
  BY DEF TitleOK
<1>2. FirstPass(t) /\ LibraryIsIn(t)
  BY <1>1 DEF PassesAreMade, PostRelocation, LibraryIsIn
<1>3. PICK e \in {"post_library_setup_call", "library_palette_bios_interrupt"} :
        u = [t EXCEPT !.state = e]
  BY DEF PostRelocation
<1>4. e \in TitleSetupStates
  BY DEF TitleSetupStates
<1>5. e \in TitleStates
  BY <1>4, TitleSetupStatesHere
<1>6. /\ u \in Sessions /\ u.state = e /\ u.mode = t.mode /\ u.iter = t.iter
      /\ u.owned = t.owned /\ u.repeat = t.repeat /\ u.results = t.results
      /\ u.reads = t.reads /\ u.prefix = t.prefix
  BY <1>1, <1>3, <1>5 DEF Sessions
<1>7. FirstPass(u) /\ LibraryIsIn(u)
  BY <1>2, <1>6 DEF FirstPass, LibraryIsIn
<1>8. e \notin TitleLoopStates
  BY <1>4, TitleKindsApart
<1>9. t.state \notin TitleLoopStates
  BY TitleKindsApart
<1>10. LoopCounts(u)
  BY <1>1, <1>6, <1>8, <1>9 DEF LoopCounts, TitleLoopStates
<1>11. PassesAreMade(u)
  BY <1>4, <1>6, <1>7, <1>8, TitleKindsApart DEF PassesAreMade
<1>12. QED
  BY <1>6, <1>10, <1>11 DEF TitleKept, TitleOK

(* The video mode is set again, and the palette is about to be.            *)
LEMMA TitleModeCallKeeps ==
  ASSUME NEW t, TitleOK(t), t.state = "post_video_hook_mode_call"
  PROVE  TitleKept(t, [t EXCEPT !.state = "selected_callee_private_interrupt_result",
                                !.repeat = TRUE])
<1> DEFINE e == "selected_callee_private_interrupt_result"
           u == [t EXCEPT !.state = e, !.repeat = TRUE]
<1>1. t \in Sessions /\ PassesAreMade(t) /\ LoopCounts(t)
  BY DEF TitleOK
<1>2. t.state \in TitleSetupStates /\ e \in TitleSelectStates
  BY DEF TitleSetupStates, TitleSelectStates
<1>3. e \in TitleStates
  BY <1>2, TitleSetupStatesHere
<1>4. /\ u \in Sessions /\ u.state = e /\ u.mode = t.mode /\ u.iter = t.iter
      /\ u.owned = t.owned /\ u.repeat /\ u.results = t.results
      /\ u.reads = t.reads /\ u.prefix = t.prefix
  BY <1>1, <1>3 DEF Sessions
<1> HIDE DEF u
<1>5. u.results = PaletteSize /\ LibraryIsIn(u)
  BY <1>1, <1>2, <1>4 DEF PassesAreMade, FirstPass, LibraryIsIn
<1>6. e \notin TitleLoopStates /\ e \notin TitleVideoStates /\ e \notin TitleSetupStates
        /\ e \notin TitleAllocationStates /\ e \notin TitleEntryStates
        /\ e \notin {"bios_palette_interrupt", "dos_library_read_result",
                     "dos_library_close_result", "library_relocation_complete"}
  BY <1>2, TitleKindsApart DEF TitleEntryStates
<1>7. t.state \notin TitleLoopStates
  BY <1>2, TitleKindsApart
<1>8. LoopCounts(u)
  BY <1>1, <1>4, <1>6, <1>7 DEF LoopCounts, TitleLoopStates
<1>9. PassesAreMade(u)
  BY <1>4, <1>5, <1>6 DEF PassesAreMade
<1>10. QED
  BY <1>4, <1>8, <1>9 DEF TitleKept, TitleOK, u

(* The two steps of the start that choose nothing.                         *)
LEMMA TitleEntryKeeps ==
  ASSUME NEW t, TitleOK(t), NEW e,
         \/ t.state = "awaiting_entry" /\ e = "private_interrupt_result"
         \/ t.state = "selected_local_call" /\ e = "selected_callee_private_interrupt_result"
         \/ t.state = "selected_callee_private_interrupt_result" /\ e = "selected_followup_call"
         \/ t.state = "selected_followup_call" /\ e = "bios_palette_interrupt"
  PROVE  TitleKept(t, [t EXCEPT !.state = e])
<1> DEFINE u == [t EXCEPT !.state = e]
<1>1. t \in Sessions /\ PassesAreMade(t) /\ LoopCounts(t)
  BY DEF TitleOK
<1>2. /\ t.state \in TitleEntryStates \cup TitleSelectStates
      /\ e \in TitleEntryStates \cup TitleSelectStates \cup {"bios_palette_interrupt"}
  BY DEF TitleEntryStates, TitleSelectStates
<1>3. e \in TitleStates
  BY <1>2, TitleSetupStatesHere
<1>4. /\ u \in Sessions /\ u.state = e /\ u.mode = t.mode /\ u.iter = t.iter
      /\ u.owned = t.owned /\ u.repeat = t.repeat /\ u.results = t.results
      /\ u.reads = t.reads /\ u.prefix = t.prefix
  BY <1>1, <1>3 DEF Sessions
<1> HIDE DEF u
<1>5. LibraryIsIn(u) <=> LibraryIsIn(t)
  BY <1>4 DEF LibraryIsIn
<1>6. e \notin TitleLoopStates /\ e \notin TitleVideoStates /\ e \notin TitleSetupStates
        /\ e \notin TitleAllocationStates /\ t.state \notin TitleLoopStates
        /\ e \notin {"dos_library_read_result",
                     "dos_library_close_result", "library_relocation_complete"}
  BY <1>2, TitleKindsApart DEF TitleEntryStates, TitleSelectStates
<1>7. LoopCounts(u)
  BY <1>1, <1>4, <1>6 DEF LoopCounts, TitleLoopStates
<1>8. PaletteSize \in Nat \ {0}
  BY TitleAssumption
<1>9. CASE e \in TitleEntryStates
  <2>1. e \notin TitleSelectStates /\ e # "bios_palette_interrupt" /\ t.state \in TitleEntryStates
    BY <1>9 DEF TitleEntryStates, TitleSelectStates
  <2>2. PassesAreMade(u)
    BY <1>1, <1>4, <1>6, <2>1 DEF PassesAreMade
  <2>3. QED
    BY <1>4, <1>7, <2>2 DEF TitleKept, TitleOK, u
<1>10. CASE e \in TitleSelectStates
  <2>1. e \notin TitleEntryStates /\ e # "bios_palette_interrupt"
    BY <1>10 DEF TitleEntryStates, TitleSelectStates
  <2>2. IF u.repeat THEN u.results = PaletteSize /\ LibraryIsIn(u)
        ELSE u.results = 0 /\ u.reads = 0
    BY <1>1, <1>2, <1>4, <1>5 DEF PassesAreMade
  <2>3. PassesAreMade(u)
    BY <1>4, <1>6, <2>1, <2>2 DEF PassesAreMade
  <2>4. QED
    BY <1>4, <1>7, <2>3 DEF TitleKept, TitleOK, u
<1>11. CASE e = "bios_palette_interrupt"
  <2>1. e \notin TitleEntryStates /\ e \notin TitleSelectStates /\ t.state \in TitleSelectStates
    BY <1>11 DEF TitleEntryStates, TitleSelectStates
  <2>2. IF u.repeat THEN u.results \in PaletteSize..(2 * PaletteSize - 1) /\ LibraryIsIn(u)
        ELSE u.results \in 0..(PaletteSize - 1) /\ u.reads = 0
    BY <1>1, <1>4, <1>5, <1>8, <2>1 DEF PassesAreMade
  <2>3. PassesAreMade(u)
    BY <1>4, <1>6, <1>11, <2>1, <2>2 DEF PassesAreMade
  <2>4. QED
    BY <1>4, <1>7, <2>3 DEF TitleKept, TitleOK, u
<1>12. QED
  BY <1>2, <1>9, <1>10, <1>11

LEMMA TitleExecuteKeeps ==
  ASSUME NEW t, TitleOK(t), NEW u \in Execute(t)
  PROVE  TitleKept(t, u)
<1> DEFINE again == t.state = "post_video_hook_mode_call"
           s == [t EXCEPT !.repeat = @ \/ again]
<1>1. t \in Sessions /\ PassesAreMade(t)
  BY DEF TitleOK
<1>2. CASE u \in Along(LocalCalls, t)
  <2>1. PICK e \in EdgeEnds(LocalCalls, t.state) : u = [t EXCEPT !.state = e]
    BY <1>2, TitleAlong
  <2>2. CASE t.state = "title_main_allocation_call" /\ e = "dos_resize_result"
    <3>1. t.state \in TitleAllocationStates /\ e \in TitleAllocationStates
      BY <2>2 DEF TitleAllocationStates
    <3>2. QED
      BY <2>1, <3>1, TitleStays
  <2>3. QED
    BY <2>1, <2>2, TitleLocalEdges, TitleEntryKeeps
<1>3. CASE u \in Along(SetupCalls, t)
  <2>1. PICK e \in EdgeEnds(SetupCalls, t.state) : u = [t EXCEPT !.state = e]
    BY <1>3, TitleAlong
  <2>2. QED
    BY <2>1, TitleSetupEdges, TitleStays
<1>4. CASE u \in Along(VideoCalls, s)
  <2> HIDE DEF s
  <2>1. PICK e \in EdgeEnds(VideoCalls, s.state) : u = [s EXCEPT !.state = e]
    BY <1>4, TitleAlong
  <2>2. s.state = t.state
    BY <1>1 DEF Sessions, s
  <2>3. CASE again
    <3>1. e = "selected_callee_private_interrupt_result"
      BY <2>1, <2>2, <2>3, TitleVideoEdges
    <3>2. u = [t EXCEPT !.state = e, !.repeat = TRUE]
      BY <1>1, <2>1, <2>3 DEF Sessions, s
    <3>3. QED
      BY <2>3, <3>1, <3>2, TitleModeCallKeeps
  <2>4. CASE ~again
    <3>1. t.state \in TitleVideoStates /\ e \in TitleVideoStates
      BY <2>1, <2>2, <2>4, TitleVideoEdges
    <3>2. t.repeat
      BY <1>1, <3>1 DEF PassesAreMade
    <3>3. s = t
      BY <1>1, <2>4, <3>2 DEF Sessions, s
    <3>4. QED
      BY <2>1, <3>1, <3>3, TitleStays
  <2>5. QED
    BY <2>3, <2>4
<1>5. CASE t.state = "library_relocation_complete" /\ u \in PostRelocation(t)
  BY <1>5, TitleRelocationKeeps
<1>6. QED
  BY <1>2, <1>3, <1>4, <1>5 DEF Execute

(* The first answer of the private interrupt alone chooses the mode, and   *)
(* the last one alone begins the loop.                                     *)
LEMMA TitleModeChosen ==
  ASSUME NEW t, TitleOK(t), t.state = "private_interrupt_result", NEW m \in DisplayModes
  PROVE  LET u == [t EXCEPT !.state = "selected_local_call", !.mode = m]
         IN  TitleOK(u) /\ t.iter = 0 /\ u.iter = 0 /\ ~u.owned
<1> DEFINE e == "selected_local_call"
           u == [t EXCEPT !.state = e, !.mode = m]
<1>1. t \in Sessions /\ PassesAreMade(t) /\ LoopCounts(t)
  BY DEF TitleOK
<1>2. t.state \in TitleEntryStates /\ e \in TitleEntryStates
  BY DEF TitleEntryStates
<1>3. e \in TitleStates
  BY <1>2, TitleSetupStatesHere
<1>4. /\ u \in Sessions /\ u.state = e /\ u.iter = t.iter /\ u.owned = t.owned
      /\ u.repeat = t.repeat /\ u.results = t.results /\ u.reads = t.reads
  BY <1>1, <1>3 DEF Sessions
<1> HIDE DEF u
<1>5. e \notin TitleLoopStates /\ e \notin TitleVideoStates /\ e \notin TitleSetupStates
        /\ e \notin TitleAllocationStates /\ t.state \notin TitleLoopStates
        /\ e \notin TitleSelectStates /\ e # "bios_palette_interrupt"
        /\ e \notin {"dos_library_read_result",
                     "dos_library_close_result", "library_relocation_complete"}
  BY <1>2, TitleKindsApart DEF TitleEntryStates, TitleSelectStates
<1>6. LoopCounts(u) /\ t.iter = 0 /\ ~t.owned
  BY <1>1, <1>4, <1>5 DEF LoopCounts, TitleLoopStates
<1>7. PassesAreMade(u)
  BY <1>1, <1>2, <1>4, <1>5 DEF PassesAreMade
<1>8. QED
  BY <1>4, <1>6, <1>7 DEF TitleOK, u

LEMMA TitleLoopBegins ==
  ASSUME NEW t, TitleOK(t), t.state = "post_descriptor_private_interrupt_result"
  PROVE  LET u == [t EXCEPT !.state = "loop_far_read", !.iter = 1]
         IN  TitleOK(u) /\ t.iter = 0 /\ u.iter = 1 /\ u.mode = t.mode /\ ~t.owned /\ ~u.owned
<1> DEFINE e == "loop_far_read"
           u == [t EXCEPT !.state = e, !.iter = 1]
<1>1. t \in Sessions /\ PassesAreMade(t) /\ LoopCounts(t)
  BY DEF TitleOK
<1>2. t.state \in TitleVideoStates /\ e \in TitlePlainLoop /\ e \in TitleLoopStates
  BY DEF TitleVideoStates, TitlePlainLoop, TitleLoopStates
<1>3. e \in TitleStates /\ 1 \in 0..Records
  BY <1>2, TitleLoopStatesHere, TitleAssumption
<1>4. /\ u \in Sessions /\ u.state = e /\ u.mode = t.mode /\ u.iter = 1
      /\ u.owned = t.owned /\ u.repeat = t.repeat /\ u.results = t.results
      /\ u.reads = t.reads /\ u.prefix = t.prefix
  BY <1>1, <1>3 DEF Sessions
<1> HIDE DEF u
<1>5. t.iter = 0 /\ ~t.owned
  BY <1>1, <1>2, TitleKindsApart DEF LoopCounts
<1>6. LoopCounts(u)
  BY <1>2, <1>4, TitleKindsApart DEF LoopCounts
<1>7. u.repeat /\ u.results = 2 * PaletteSize /\ LibraryIsIn(u)
  BY <1>1, <1>2, <1>4 DEF PassesAreMade, LibraryIsIn
<1>8. PassesAreMade(u)
  BY <1>2, <1>4, <1>7, TitleKindsApart DEF PassesAreMade
<1>9. QED
  BY <1>4, <1>5, <1>6, <1>8 DEF TitleOK, u

(* An answer may choose the mode or begin the loop, never both; before the *)
(* loop nothing is published and nobody owns it.                           *)
TitleAnswersWell(t, u) ==
  /\ TitleOK(u) /\ u.owned = t.owned
  /\ u.mode = t.mode \/ (t.iter = 0 /\ u.iter = 0)

LEMMA TitleInterruptKeeps ==
  ASSUME NEW t, TitleOK(t), NEW u \in PrivateInterrupt(t)
  PROVE  TitleAnswersWell(t, u)
<1>1. CASE t.state = "private_interrupt_result"
  <2>1. PICK m \in DisplayModes : u = [t EXCEPT !.state = "selected_local_call", !.mode = m]
    BY <1>1 DEF PrivateInterrupt
  <2>2. TitleOK(u) /\ t.iter = 0 /\ u.iter = 0 /\ ~u.owned
    BY <1>1, <2>1, TitleModeChosen
  <2>3. ~t.owned
    BY <1>1, TitleKindsApart DEF TitleOK, LoopCounts, TitleLoopStates, TitlePlainLoop, ModeTwoStates
  <2>4. t.owned \in BOOLEAN /\ u.owned \in BOOLEAN
    BY <2>2 DEF TitleOK, Sessions
  <2>5. QED
    BY <2>2, <2>3, <2>4 DEF TitleAnswersWell
<1>2. CASE t.state = "post_descriptor_private_interrupt_result"
  <2>1. u = [t EXCEPT !.state = "loop_far_read", !.iter = 1]
    BY <1>2 DEF PrivateInterrupt
  <2>2. TitleOK(u) /\ u.mode = t.mode /\ ~t.owned /\ ~u.owned
    BY <1>2, <2>1, TitleLoopBegins
  <2>3. t.owned \in BOOLEAN /\ u.owned \in BOOLEAN
    BY <2>2 DEF TitleOK, Sessions
  <2>4. QED
    BY <2>2, <2>3 DEF TitleAnswersWell
<1>3. CASE /\ t.state # "private_interrupt_result"
           /\ t.state # "post_descriptor_private_interrupt_result"
  <2>1. u \in Along(PrivateInterruptEdges, t)
    BY <1>3 DEF PrivateInterrupt
  <2>2. PICK e \in EdgeEnds(PrivateInterruptEdges, t.state) : u = [t EXCEPT !.state = e]
    BY <2>1, TitleAlong
  <2>3. TitleKept(t, u)
    BY <2>2, TitleInterruptEdges, TitleStays
  <2>4. QED
    BY <2>3 DEF TitleKept, TitleAnswersWell
<1>4. QED
  BY <1>1, <1>2, <1>3

LEMMA TitleCalleeKeeps ==
  ASSUME NEW t, TitleOK(t), NEW u \in SelectedCallee(t)
  PROVE  TitleKept(t, u)
<1>1. /\ t.state = "selected_callee_private_interrupt_result"
      /\ u = [t EXCEPT !.state = "selected_followup_call"]
  BY DEF SelectedCallee
<1>2. QED
  BY <1>1, TitleEntryKeeps

(* A count of one more is a whole number of passes at the end of one only. *)
LEMMA PassEnds ==
  ASSUME NEW p \in Nat \ {0}, NEW n \in 1..(2 * p)
  PROVE  n % p = 0 => n = p \/ n = 2 * p
<1>1. CASE n < p
  BY <1>1
<1>2. CASE p < n /\ n < 2 * p
  <2>1. n % p = (n - p) % p
    BY <1>2
  <2>2. QED
    BY <1>2, <2>1
<1>3. QED
  BY <1>1, <1>2

LEMMA PassIsWhole ==
  ASSUME NEW p \in Nat \ {0}
  PROVE  p % p = 0 /\ (2 * p) % p = 0
OBVIOUS

(* A palette result counts, and the last of a pass returns to the caller.  *)
LEMMA TitlePaletteKeeps ==
  ASSUME NEW t, TitleOK(t), NEW u \in PaletteResult(t)
  PROVE  TitleKept(t, u)
<1>1. t \in Sessions /\ PassesAreMade(t) /\ LoopCounts(t)
  BY DEF TitleOK
<1>2. CASE t.state = "library_palette_bios_interrupt"
  <2>1. u = [t EXCEPT !.state = "post_library_setup_call"]
    BY <1>2 DEF PaletteResult
  <2>2. t.state \in TitleSetupStates /\ "post_library_setup_call" \in TitleSetupStates
    BY <1>2 DEF TitleSetupStates
  <2>3. QED
    BY <2>1, <2>2, TitleStays
<1>3. CASE t.state = "bios_palette_interrupt"
  <2> DEFINE e == AfterPalette(t)
             r == t.results + 1
  <2>1. u = [t EXCEPT !.state = e, !.results = @ + 1]
    BY <1>3 DEF PaletteResult
  <2>2. PaletteSize \in Nat \ {0}
    BY TitleAssumption
  <2>3. IF t.repeat THEN t.results \in PaletteSize..(2 * PaletteSize - 1) /\ LibraryIsIn(t)
        ELSE t.results \in 0..(PaletteSize - 1) /\ t.reads = 0
    BY <1>1, <1>3 DEF PassesAreMade
  <2>4. t.repeat \in BOOLEAN /\ t.results \in Nat
    BY <1>1 DEF Sessions
  <2>5. r \in 1..(2 * PaletteSize)
    BY <2>2, <2>3, <2>4
  <2>6. \/ r % PaletteSize # 0 /\ e = t.state
        \/ r = PaletteSize /\ ~t.repeat /\ e = "title_main_allocation_call"
        \/ r = 2 * PaletteSize /\ t.repeat /\ e = "post_video_setup_call"
    <3>1. r % PaletteSize = 0 => r = PaletteSize \/ r = 2 * PaletteSize
      BY <2>2, <2>5, PassEnds
    <3>2. r = PaletteSize => ~t.repeat
      BY <2>2, <2>3, <2>4
    <3>3. r = 2 * PaletteSize => t.repeat
      BY <2>2, <2>3, <2>4
    <3>4. QED
      BY <3>1, <3>2, <3>3 DEF AfterPalette
  <2>7. r % PaletteSize # 0 => r # PaletteSize /\ r # 2 * PaletteSize
    BY <2>2, PassIsWhole
  <2>8. t.state \notin TitleLoopStates
    BY <1>3, TitleKindsApart
  <2>9. /\ e \in {"bios_palette_interrupt", "title_main_allocation_call", "post_video_setup_call"}
        /\ e \in TitleStates
    <3>1. /\ "title_main_allocation_call" \in TitleAllocationStates
          /\ "post_video_setup_call" \in TitleVideoStates
      BY DEF TitleAllocationStates, TitleVideoStates
    <3>2. QED
      BY <1>3, <2>6, <3>1, TitleSetupStatesHere
  <2> HIDE DEF e, r
  <2>10. /\ u \in Sessions /\ u.state = e /\ u.mode = t.mode /\ u.iter = t.iter
         /\ u.owned = t.owned /\ u.repeat = t.repeat /\ u.results = r
         /\ u.reads = t.reads /\ u.prefix = t.prefix
    <3>1. r = t.results + 1 /\ r \in 0..(2 * PaletteSize)
      BY <2>2, <2>5 DEF r
    <3>2. QED
      BY <1>1, <2>1, <2>9, <3>1 DEF Sessions
  <2>11. LibraryIsIn(u) <=> LibraryIsIn(t)
    BY <2>10 DEF LibraryIsIn
  <2>12. e \notin TitleLoopStates /\ e \notin TitleEntryStates /\ e \notin TitleSelectStates
           /\ e \notin TitleSetupStates
           /\ e \notin {"dos_library_read_result", "dos_library_close_result",
                        "library_relocation_complete"}
    BY <2>9 DEF TitleLoopStates, TitlePlainLoop, ModeTwoStates, TitleEntryStates,
                TitleSelectStates, TitleSetupStates
  <2>13. LoopCounts(u)
    BY <1>1, <2>8, <2>10, <2>12 DEF LoopCounts, TitleLoopStates
  <2>14. CASE e = "bios_palette_interrupt"
    <3>1. r # PaletteSize /\ r # 2 * PaletteSize
      BY <2>6, <2>7, <2>14
    <3>2. IF u.repeat THEN u.results \in PaletteSize..(2 * PaletteSize - 1) /\ LibraryIsIn(u)
          ELSE u.results \in 0..(PaletteSize - 1) /\ u.reads = 0
      BY <2>2, <2>3, <2>4, <2>10, <2>11, <3>1 DEF r
    <3>3. e \notin TitleAllocationStates /\ e \notin TitleVideoStates
      BY <2>14 DEF TitleAllocationStates, TitleVideoStates
    <3>4. PassesAreMade(u)
      BY <2>10, <2>12, <2>14, <3>2, <3>3 DEF PassesAreMade
    <3>5. QED
      BY <2>10, <2>13, <3>4 DEF TitleKept, TitleOK
  <2>15. CASE e = "title_main_allocation_call"
    <3>1. r = PaletteSize /\ ~t.repeat
      BY <1>3, <2>6, <2>15
    <3>2. FirstPass(u) /\ u.reads = 0
      BY <2>3, <2>10, <3>1 DEF FirstPass
    <3>3. e \notin TitleVideoStates /\ e # "bios_palette_interrupt"
      BY <2>15 DEF TitleVideoStates
    <3>4. PassesAreMade(u)
      BY <2>10, <2>12, <3>2, <3>3 DEF PassesAreMade
    <3>5. QED
      BY <2>10, <2>13, <3>4 DEF TitleKept, TitleOK
  <2>16. CASE e = "post_video_setup_call"
    <3>1. r = 2 * PaletteSize /\ t.repeat
      BY <1>3, <2>6, <2>16
    <3>2. u.repeat /\ u.results = 2 * PaletteSize /\ LibraryIsIn(u)
      BY <2>3, <2>10, <2>11, <3>1
    <3>3. e \notin TitleAllocationStates /\ e # "bios_palette_interrupt"
      BY <2>16 DEF TitleAllocationStates
    <3>4. PassesAreMade(u)
      BY <2>10, <2>12, <3>2, <3>3 DEF PassesAreMade
    <3>5. QED
      BY <2>10, <2>13, <3>4 DEF TitleKept, TitleOK
  <2>17. QED
    BY <2>9, <2>14, <2>15, <2>16
<1>4. QED
  BY <1>2, <1>3 DEF PaletteResult

LEMMA TitleMemoryKeeps ==
  ASSUME NEW t, TitleOK(t), NEW u \in DosMemory(t)
  PROVE  TitleKept(t, u)
<1>1. CASE u \in Along(MemoryEdges, t)
  <2>1. PICK e \in EdgeEnds(MemoryEdges, t.state) : u = [t EXCEPT !.state = e]
    BY <1>1, TitleAlong
  <2>2. QED
    BY <2>1, TitleMemoryEdges, TitleStays
<1>2. CASE t.state \in FatalAllocations /\ u = [t EXCEPT !.state = "allocation_failure"]
  <2>1. t.state \in TitleAllocationStates /\ "allocation_failure" \in TitleFailures
    BY <1>2 DEF FatalAllocations, TitleAllocationStates, TitleFailures
  <2>2. t.state \notin TitleLoopStates
    BY <2>1, TitleKindsApart
  <2>3. QED
    BY <1>2, <2>1, <2>2, TitleFails
<1>3. QED
  BY <1>1, <1>2 DEF DosMemory

(* The reads of the library are counted, and the last close asks for the   *)
(* header the first of them brought.                                       *)
LEMMA TitleReadKeeps ==
  ASSUME NEW t, TitleOK(t), t.state = "dos_library_read_result", NEW u \in LibraryRead(t)
  PROVE  TitleKept(t, u)
<1>1. t \in Sessions /\ PassesAreMade(t) /\ LoopCounts(t)
  BY DEF TitleOK
<1> DEFINE e == IF t.reads + 1 < LibraryReads THEN t.state ELSE "dos_library_close_result"
<1>2. PICK p \in Prefixes :
        u = [t EXCEPT !.reads = @ + 1, !.prefix = IF t.reads = 0 THEN p ELSE @, !.state = e]
  BY DEF LibraryRead
<1>3. FirstPass(t) /\ t.reads < LibraryReads /\ t.reads \in Nat /\ LibraryReads \in Nat
  BY <1>1, TitleAssumption DEF PassesAreMade, Sessions
<1>4. e \in {"dos_library_read_result", "dos_library_close_result"} /\ e \in TitleStates
  BY TitleSetupStatesHere
<1>5. e = "dos_library_read_result" => t.reads + 1 < LibraryReads
  OBVIOUS
<1>6. e = "dos_library_close_result" => t.reads + 1 = LibraryReads
  BY <1>3
<1> HIDE DEF e
<1>7. /\ u \in Sessions /\ u.state = e /\ u.mode = t.mode /\ u.iter = t.iter
      /\ u.owned = t.owned /\ u.repeat = t.repeat /\ u.results = t.results
      /\ u.reads = t.reads + 1
  <2> DEFINE q == IF t.reads = 0 THEN p ELSE t.prefix
             n == t.reads + 1
  <2>1. q \in Prefixes /\ n \in 0..LibraryReads
    BY <1>1, <1>3 DEF Sessions
  <2>2. u = [t EXCEPT !.reads = n, !.prefix = q, !.state = e]
    BY <1>1, <1>2 DEF Sessions
  <2> HIDE DEF q, n
  <2>3. u.reads = n
    BY <1>1, <2>2 DEF Sessions
  <2>4. QED
    BY <1>1, <1>4, <2>1, <2>2, <2>3 DEF Sessions, n
<1>8. FirstPass(u)
  BY <1>3, <1>7 DEF FirstPass
<1>9. e \notin TitleLoopStates /\ e \notin TitleEntryStates /\ e \notin TitleSelectStates
        /\ e \notin TitleSetupStates /\ e \notin TitleVideoStates
        /\ e \notin TitleAllocationStates
  BY <1>4 DEF TitleLoopStates, TitlePlainLoop, ModeTwoStates, TitleEntryStates,
              TitleSelectStates, TitleSetupStates, TitleVideoStates, TitleAllocationStates
<1>10. LoopCounts(u)
  BY <1>1, <1>7, <1>9, TitleKindsApart DEF LoopCounts, TitleLoopStates
<1>11. PassesAreMade(u)
  BY <1>4, <1>5, <1>6, <1>7, <1>8, <1>9 DEF PassesAreMade
<1>12. QED
  BY <1>7, <1>10, <1>11 DEF TitleKept, TitleOK

LEMMA TitleFileKeeps ==
  ASSUME NEW t, TitleOK(t), NEW u \in DosFile(t)
  PROVE  TitleKept(t, u)
<1>1. t \in Sessions /\ PassesAreMade(t) /\ LoopCounts(t)
  BY DEF TitleOK
<1>2. CASE t.state = "dos_library_read_result"
  BY <1>2, TitleReadKeeps DEF DosFile
<1>3. CASE t.state # "dos_library_read_result" /\ u \in Along(FileEdges, t) /\ FileAdmitted(t)
  <2>1. PICK e \in EdgeEnds(FileEdges, t.state) : u = [t EXCEPT !.state = e]
    BY <1>3, TitleAlong
  <2>2. CASE t.state \in TitleAllocationStates /\ e \in TitleAllocationStates
    BY <2>1, <2>2, TitleStays
  <2>3. CASE \/ t.state = "dos_library_open_result" /\ e = "dos_library_read_result"
             \/ t.state = "dos_library_close_result" /\ e = "library_relocation_complete"
    <3>1. /\ e \in TitleStates /\ t.state \notin TitleLoopStates
          /\ e \notin TitleLoopStates /\ e \notin TitleEntryStates /\ e \notin TitleSelectStates
          /\ e \notin TitleSetupStates /\ e \notin TitleVideoStates
          /\ e \notin TitleAllocationStates
      BY <2>3, TitleSetupStatesHere
         DEF TitleLoopStates, TitlePlainLoop, ModeTwoStates, TitleEntryStates,
             TitleSelectStates, TitleSetupStates, TitleVideoStates, TitleAllocationStates
    <3>2. /\ u \in Sessions /\ u.state = e /\ u.mode = t.mode /\ u.iter = t.iter
          /\ u.owned = t.owned /\ u.repeat = t.repeat /\ u.results = t.results
          /\ u.reads = t.reads /\ u.prefix = t.prefix
      BY <1>1, <2>1, <3>1 DEF Sessions
    <3>3. LoopCounts(u)
      BY <1>1, <3>1, <3>2 DEF LoopCounts, TitleLoopStates
    <3>4. CASE t.state = "dos_library_open_result" /\ e = "dos_library_read_result"
      <4>1. t.state \in TitleAllocationStates
        BY <3>4 DEF TitleAllocationStates
      <4>2. FirstPass(u) /\ u.reads < LibraryReads
        BY <1>1, <3>2, <4>1, TitleAssumption DEF PassesAreMade, FirstPass
      <4>3. PassesAreMade(u)
        BY <3>1, <3>2, <3>4, <4>2 DEF PassesAreMade
      <4>4. QED
        BY <3>2, <3>3, <4>3 DEF TitleKept, TitleOK
    <3>5. CASE t.state = "dos_library_close_result" /\ e = "library_relocation_complete"
      <4>1. FirstPass(u) /\ u.reads = LibraryReads /\ u.prefix # 0
        BY <1>1, <1>3, <3>2, <3>5 DEF PassesAreMade, FirstPass, FileAdmitted
      <4>2. PassesAreMade(u)
        BY <3>1, <3>2, <3>5, <4>1 DEF PassesAreMade
      <4>3. QED
        BY <3>2, <3>3, <4>2 DEF TitleKept, TitleOK
    <3>6. QED
      BY <2>3, <3>4, <3>5
  <2>4. QED
    BY <2>1, <2>2, <2>3, TitleFileEdges
<1>4. CASE t.state \in FatalFiles /\ u = [t EXCEPT !.state = "dos_file_failure"]
  <2>1. t.state \in TitleAllocationStates /\ "dos_file_failure" \in TitleFailures
    BY <1>4 DEF FatalFiles, TitleAllocationStates, TitleFailures
  <2>2. t.state \notin TitleLoopStates
    BY <2>1, TitleKindsApart
  <2>3. QED
    BY <1>4, <2>1, <2>2, TitleFails
<1>5. QED
  BY <1>2, <1>3, <1>4 DEF DosFile

LEMMA TitleVectorKeeps ==
  ASSUME NEW t, TitleOK(t), NEW u \in Along(VectorEdges, t) \cup Along(SetupBiosEdges, t)
  PROVE  TitleKept(t, u)
<1>1. CASE u \in Along(VectorEdges, t)
  <2>1. PICK e \in EdgeEnds(VectorEdges, t.state) : u = [t EXCEPT !.state = e]
    BY <1>1, TitleAlong
  <2>2. QED
    BY <2>1, TitleSetupEdges, TitleStays
<1>2. CASE u \in Along(SetupBiosEdges, t)
  <2>1. PICK e \in EdgeEnds(SetupBiosEdges, t.state) : u = [t EXCEPT !.state = e]
    BY <1>2, TitleAlong
  <2>2. QED
    BY <2>1, TitleSetupEdges, TitleStays
<1>3. QED
  BY <1>1, <1>2

(* In the loop the mode, the owner and what the setup brought stay, and    *)
(* a place with a count is reached with one.                               *)
LoopOnly(t, u) ==
  /\ u \in Sessions /\ u.mode = t.mode /\ u.owned = t.owned /\ u.repeat = t.repeat
  /\ u.results = t.results /\ u.reads = t.reads /\ u.prefix = t.prefix

TitleLoopKept(t, u) ==
  /\ TitleOK(u) /\ u.state \in TitleLoopStates /\ u.mode = t.mode /\ u.owned = t.owned

LEMMA TitleLoopStays ==
  ASSUME NEW t, TitleOK(t), t.state \in TitleLoopStates,
         NEW u, LoopOnly(t, u), u.state \in TitleLoopStates, u.iter > 0,
         u.state \in ModeTwoStates => u.dx > 0 /\ u.bx > 0,
         u.state = "mode_one_translation" => u.dx > 0
  PROVE  TitleLoopKept(t, u)
<1>1. u.repeat /\ u.results = 2 * PaletteSize /\ LibraryIsIn(u)
  BY DEF LoopOnly, TitleOK, PassesAreMade, LibraryIsIn
<1>2. PassesAreMade(u)
  BY <1>1, TitleKindsApart DEF PassesAreMade
<1>3. LoopCounts(u)
  BY DEF LoopCounts
<1>4. QED
  BY <1>2, <1>3 DEF LoopOnly, TitleLoopKept, TitleOK

(* A change to a place without a count needs the place alone.              *)
LEMMA TitlePlainStays ==
  ASSUME NEW t, TitleOK(t), t.state \in TitleLoopStates,
         NEW u, LoopOnly(t, u), u.state \in TitlePlainLoop, u.iter > 0
  PROVE  TitleLoopKept(t, u)
<1>1. u.state \in TitleLoopStates /\ u.state \notin ModeTwoStates \cup {"mode_one_translation"}
  BY TitleKindsApart DEF TitleLoopStates
<1>2. QED
  BY <1>1, TitleLoopStays

LEMMA TitleInLoop ==
  ASSUME NEW t, TitleOK(t), t.state \in TitleLoopStates
  PROVE  /\ t \in Sessions /\ t.iter \in 1..Records
         /\ t.state \in ModeTwoStates => t.dx > 0 /\ t.bx > 0
         /\ t.state = "mode_one_translation" => t.dx > 0
BY TitleAssumption DEF TitleOK, LoopCounts, Sessions

LEMMA TitlePlaceStays ==
  ASSUME NEW t, TitleOK(t), t.state \in TitleLoopStates, NEW e \in TitlePlainLoop
  PROVE  TitleLoopKept(t, [t EXCEPT !.state = e])
<1> DEFINE u == [t EXCEPT !.state = e]
<1>1. t \in Sessions /\ t.iter > 0
  BY TitleInLoop
<1>2. e \in TitleStates
  BY TitleLoopStatesHere DEF TitleLoopStates
<1>3. LoopOnly(t, u) /\ u.state = e /\ u.iter = t.iter
  BY <1>1, <1>2 DEF LoopOnly, Sessions
<1> HIDE DEF u
<1>4. TitleLoopKept(t, u)
  BY <1>1, <1>3, TitlePlainStays
<1>5. QED
  BY <1>4 DEF u

LEMMA AfterRecordIsPlain ==
  ASSUME NEW t
  PROVE  AfterRecord(t) \in TitlePlainLoop
BY DEF AfterRecord, TitlePlainLoop

(* Decoded bytes count down within the sixteen bits.                       *)
LEMMA TitleDecodedStays ==
  ASSUME NEW t, TitleOK(t), t.state \in TitleLoopStates,
         NEW k \in 0..(WordSize - 1), NEW next \in TitlePlainLoop, NEW d \in 0..(WordSize - 1)
  PROVE  /\ TitleLoopKept(t, Decoded(t, k, next))
         /\ TitleLoopKept(t, Decoded([t EXCEPT !.dx = d], k, next))
<1>1. t \in Sessions /\ t.iter > 0
  BY TitleInLoop
<1>2. WordSize \in Nat \ {0}
  BY TitleAssumption
<1>3. ASSUME NEW n \in 0..(WordSize - 1), NEW e \in TitlePlainLoop
      PROVE  TitleLoopKept(t, [t EXCEPT !.dx = n, !.state = e])
  <2> DEFINE u == [t EXCEPT !.dx = n, !.state = e]
  <2>1. e \in TitleStates
    BY TitleLoopStatesHere DEF TitleLoopStates
  <2>2. LoopOnly(t, u) /\ u.state = e /\ u.iter = t.iter
    BY <1>1, <2>1 DEF LoopOnly, Sessions
  <2> HIDE DEF u
  <2>3. TitleLoopKept(t, u)
    BY <1>1, <2>2, TitlePlainStays
  <2>4. QED
    BY <2>3 DEF u
<1>4. ASSUME NEW c \in 0..(WordSize - 1)
      PROVE  (c + WordSize - k) % WordSize \in 0..(WordSize - 1)
  <2>1. c + WordSize - k \in Nat
    BY <1>2
  <2>2. QED
    BY <1>2, <2>1
<1>5. TitleLoopKept(t, Decoded(t, k, next))
  <2> DEFINE n == (t.dx + WordSize - k) % WordSize
             e == IF n = 0 THEN AfterRecord(t) ELSE next
  <2>1. n \in 0..(WordSize - 1)
    BY <1>1, <1>4 DEF Sessions
  <2>2. e \in TitlePlainLoop
    BY AfterRecordIsPlain
  <2>3. Decoded(t, k, next) = [t EXCEPT !.dx = n, !.state = e]
    BY DEF Decoded
  <2> HIDE DEF n, e
  <2>4. QED
    BY <1>3, <2>1, <2>2, <2>3
<1>6. TitleLoopKept(t, Decoded([t EXCEPT !.dx = d], k, next))
  <2> DEFINE s == [t EXCEPT !.dx = d]
             n == (s.dx + WordSize - k) % WordSize
             e == IF n = 0 THEN AfterRecord(s) ELSE next
  <2>1. s.dx = d
    BY <1>1 DEF Sessions
  <2>2. n \in 0..(WordSize - 1)
    BY <1>4, <2>1
  <2>3. e \in TitlePlainLoop
    BY AfterRecordIsPlain
  <2>4. Decoded(s, k, next) = [s EXCEPT !.dx = n, !.state = e]
    BY DEF Decoded
  <2> HIDE DEF n, e
  <2>5. [s EXCEPT !.dx = n, !.state = e] = [t EXCEPT !.dx = n, !.state = e]
    BY <1>1 DEF Sessions
  <2>6. QED
    BY <1>3, <2>2, <2>3, <2>4, <2>5
<1>7. QED
  BY <1>5, <1>6

(* The loop's next descriptor is within the records, whoever owns it.      *)
LEMMA TitleReturnStays ==
  ASSUME NEW t, TitleOK(t), t.state \in TitleLoopStates
  PROVE  /\ TitleLoopKept(t, ReturnToLoop(t))
         /\ TitleLoopKept(t, ReturnToLoop([t EXCEPT !.dx = 0]))
         /\ TitleLoopKept(t, ReturnToLoop([t EXCEPT !.bx = 0, !.dx = 0]))
<1>1. t \in Sessions /\ t.iter \in 1..Records /\ Records \in Nat /\ 0 \in 0..(WordSize - 1)
        /\ 0 \in 0..Columns
  BY TitleInLoop, TitleAssumption
<1>2. ASSUME NEW s \in Sessions, LoopOnly(t, s), s.iter = t.iter
      PROVE  TitleLoopKept(t, ReturnToLoop(s))
  <2> DEFINE u == ReturnToLoop(s)
  <2>1. {"loop_return", "descriptor_loop_complete", "next_loop_far_read"} \subseteq TitlePlainLoop
    BY DEF TitlePlainLoop
  <2>2. {"loop_return", "descriptor_loop_complete", "next_loop_far_read"} \subseteq TitleStates
    BY <2>1, TitleLoopStatesHere DEF TitleLoopStates
  <2>3. CASE ~s.owned /\ s.iter = 2
    <3>1. u = [s EXCEPT !.state = "loop_return"]
      BY <2>3 DEF ReturnToLoop
    <3>2. LoopOnly(t, u) /\ u.state = "loop_return" /\ u.iter = t.iter
      BY <1>2, <2>2, <3>1 DEF LoopOnly, Sessions
    <3> HIDE DEF u
    <3>3. TitleLoopKept(t, u)
      BY <1>1, <2>1, <3>2, TitlePlainStays
    <3>4. QED
      BY <3>3 DEF u
  <2>4. CASE ~(~s.owned /\ s.iter = 2) /\ s.iter = Records /\ (s.owned \/ s.iter # 2)
    <3>1. u = [s EXCEPT !.state = "descriptor_loop_complete"]
      BY <2>4 DEF ReturnToLoop
    <3>2. LoopOnly(t, u) /\ u.state = "descriptor_loop_complete" /\ u.iter = t.iter
      BY <1>2, <2>2, <3>1 DEF LoopOnly, Sessions
    <3> HIDE DEF u
    <3>3. TitleLoopKept(t, u)
      BY <1>1, <2>1, <3>2, TitlePlainStays
    <3>4. QED
      BY <3>3 DEF u
  <2>5. CASE ~(~s.owned /\ s.iter = 2) /\ ~(s.iter = Records /\ (s.owned \/ s.iter # 2))
    <3>1. u = [s EXCEPT !.state = "next_loop_far_read", !.iter = @ + 1]
      BY <2>5 DEF ReturnToLoop
    <3>2. s.iter + 1 \in 0..Records /\ s.iter + 1 > 0
      BY <1>1, <1>2, <2>5
    <3>3. LoopOnly(t, u) /\ u.state = "next_loop_far_read" /\ u.iter = s.iter + 1
      BY <1>2, <2>2, <3>1, <3>2 DEF LoopOnly, Sessions
    <3> HIDE DEF u
    <3>4. TitleLoopKept(t, u)
      BY <1>1, <2>1, <3>2, <3>3, TitlePlainStays
    <3>5. QED
      BY <3>4 DEF u
  <2>6. QED
    BY <2>3, <2>4, <2>5
<1>3. LoopOnly(t, t)
  BY <1>1 DEF LoopOnly
<1>4. ASSUME NEW s, s = [t EXCEPT !.dx = 0] \/ s = [t EXCEPT !.bx = 0, !.dx = 0]
      PROVE  s \in Sessions /\ LoopOnly(t, s) /\ s.iter = t.iter
  BY <1>1, <1>4 DEF LoopOnly, Sessions
<1>5. QED
  BY <1>1, <1>2, <1>3, <1>4

(* A step of the picture's columns.                                        *)
LEMMA TitleColumnStays ==
  ASSUME NEW t, TitleOK(t), t.state \in ModeTwoStates, t.dx = 1
  PROVE  TitleLoopKept(t, ColumnEnd(t))
<1>1. t.state \in TitleLoopStates
  BY DEF TitleLoopStates
<1>2. /\ t \in Sessions /\ t.iter > 0 /\ t.bx \in 1..Columns
      /\ Rows \in 1..(WordSize - 1) /\ Columns \in Nat
  BY <1>1, TitleInLoop, TitleAssumption DEF Sessions
<1>3. CASE t.bx = 1
  BY <1>1, <1>3, TitleReturnStays DEF ColumnEnd
<1>4. CASE t.bx # 1
  <2> DEFINE e == "mode_two_source_byte"
             u == [t EXCEPT !.bx = @ - 1, !.dx = Rows, !.state = e]
  <2>1. e \in ModeTwoStates /\ e \in TitleLoopStates /\ e # "mode_one_translation"
    BY DEF ModeTwoStates, TitleLoopStates
  <2>2. e \in TitleStates
    BY <2>1, TitleLoopStatesHere
  <2>3. t.bx - 1 \in 0..Columns /\ t.bx - 1 > 0 /\ Rows \in 0..(WordSize - 1) /\ Rows > 0
    BY <1>2, <1>4, TitleAssumption
  <2>4. LoopOnly(t, u) /\ u.state = e /\ u.iter = t.iter /\ u.bx = t.bx - 1 /\ u.dx = Rows
    BY <1>2, <2>2, <2>3 DEF LoopOnly, Sessions
  <2> HIDE DEF u
  <2>5. TitleLoopKept(t, u)
    BY <1>1, <1>2, <2>1, <2>3, <2>4, TitleLoopStays
  <2>6. QED
    BY <1>4, <2>5 DEF u, ColumnEnd
<1>5. QED
  BY <1>3, <1>4

(* What any observation leaves alone.                                      *)
TitleMoves(t, u) == TitleOK(u) /\ u.mode = t.mode /\ u.owned = t.owned

LEMMA TitleKindsMove ==
  ASSUME NEW t, NEW u, TitleKept(t, u) \/ TitleLoopKept(t, u)
  PROVE  TitleMoves(t, u)
BY DEF TitleKept, TitleLoopKept, TitleMoves

LEMMA TitleCountStays ==
  ASSUME NEW t, TitleOK(t), t.state \in TitleLoopStates,
         NEW e \in ModeTwoStates \cup {"mode_one_translation"},
         NEW n \in 1..(WordSize - 1), NEW c \in 1..Columns
  PROVE  /\ TitleLoopKept(t, [t EXCEPT !.state = e, !.dx = n, !.bx = c])
         /\ e = "mode_one_translation" => TitleLoopKept(t, [t EXCEPT !.state = e, !.dx = n])
         /\ t.bx > 0 => TitleLoopKept(t, [t EXCEPT !.state = e, !.dx = n])
<1>1. t \in Sessions /\ t.iter > 0
  BY TitleInLoop
<1>2. e \in TitleLoopStates /\ e \in TitleStates
  BY TitleLoopStatesHere DEF TitleLoopStates
<1>3. /\ n \in 0..(WordSize - 1) /\ n > 0 /\ c \in 0..Columns /\ c > 0
  BY TitleAssumption
<1>4. TitleLoopKept(t, [t EXCEPT !.state = e, !.dx = n, !.bx = c])
  <2> DEFINE u == [t EXCEPT !.state = e, !.dx = n, !.bx = c]
  <2>1. LoopOnly(t, u) /\ u.state = e /\ u.iter = t.iter /\ u.dx = n /\ u.bx = c
    BY <1>1, <1>2, <1>3 DEF LoopOnly, Sessions
  <2> HIDE DEF u
  <2>2. TitleLoopKept(t, u)
    BY <1>1, <1>2, <1>3, <2>1, TitleLoopStays
  <2>3. QED
    BY <2>2 DEF u
<1>5. ASSUME e = "mode_one_translation" \/ t.bx > 0
      PROVE  TitleLoopKept(t, [t EXCEPT !.state = e, !.dx = n])
  <2> DEFINE u == [t EXCEPT !.state = e, !.dx = n]
  <2>1. LoopOnly(t, u) /\ u.state = e /\ u.iter = t.iter /\ u.dx = n /\ u.bx = t.bx
    BY <1>1, <1>2, <1>3 DEF LoopOnly, Sessions
  <2>2. "mode_one_translation" \notin ModeTwoStates
    BY DEF ModeTwoStates
  <2> HIDE DEF u
  <2>3. TitleLoopKept(t, u)
    BY <1>1, <1>2, <1>3, <1>5, <2>1, <2>2, TitleLoopStays
  <2>4. QED
    BY <2>3 DEF u
<1>6. QED
  BY <1>4, <1>5

LEMMA TitleModeTwoStays ==
  ASSUME NEW t, TitleOK(t), NEW u \in ModeTwoByte(t)
  PROVE  TitleLoopKept(t, u)
<1>1. CASE t.state \in {"mode_two_header_byte", "mode_two_header_second_byte"}
  <2>1. PICK e \in {"mode_two_header_second_byte", "mode_two_header_word"} :
          u = [t EXCEPT !.state = e]
    BY <1>1 DEF ModeTwoByte
  <2>2. t.state \in TitleLoopStates /\ e \in TitlePlainLoop
    BY <1>1 DEF TitleLoopStates, TitlePlainLoop
  <2>3. QED
    BY <2>1, <2>2, TitlePlaceStays
<1>2. CASE t.state \in ModeTwoStates
  <2>1. t.state \in TitleLoopStates
    BY <1>2 DEF TitleLoopStates
  <2>2. t \in Sessions /\ t.dx > 0 /\ t.bx > 0
    BY <1>2, <2>1, TitleInLoop
  <2>3. t.dx \in 1..(WordSize - 1) /\ t.bx \in 1..Columns
    BY <2>2, TitleAssumption DEF Sessions
  <2>4. CASE t.state \in {"mode_two_source_byte", "mode_two_second_source_byte"}
    <3>1. PICK e \in {"mode_two_first_lookup_byte", "mode_two_second_lookup_byte"} :
            u = [t EXCEPT !.state = e]
      BY <2>4 DEF ModeTwoByte
    <3>2. e \in ModeTwoStates
      BY DEF ModeTwoStates
    <3>3. u = [t EXCEPT !.state = e, !.dx = t.dx]
      BY <2>2, <3>1 DEF Sessions
    <3>4. QED
      BY <2>1, <2>2, <2>3, <3>2, <3>3, TitleCountStays
  <2>5. CASE t.state \in {"mode_two_first_lookup_byte", "mode_two_second_lookup_byte"} /\ t.dx > 1
    <3>1. PICK e \in {"mode_two_second_source_byte", "mode_two_source_byte"} :
            u = [t EXCEPT !.state = e, !.dx = @ - 1]
      BY <2>5 DEF ModeTwoByte
    <3>2. e \in ModeTwoStates
      BY DEF ModeTwoStates
    <3>3. t.dx - 1 \in 1..(WordSize - 1)
      BY <2>3, <2>5, TitleAssumption
    <3>4. u = [t EXCEPT !.state = e, !.dx = t.dx - 1]
      BY <2>2, <3>1 DEF Sessions
    <3>5. QED
      BY <2>1, <2>2, <2>3, <3>2, <3>3, <3>4, TitleCountStays
  <2>6. CASE t.state \in {"mode_two_first_lookup_byte", "mode_two_second_lookup_byte"} /\ t.dx = 1
    <3>1. u = ColumnEnd(t)
      BY <2>6 DEF ModeTwoByte
    <3>2. QED
      BY <1>2, <2>6, <3>1, TitleColumnStays
  <2>7. QED
    BY <1>2, <2>3, <2>4, <2>5, <2>6 DEF ModeTwoStates
<1>3. QED
  BY <1>1, <1>2 DEF ModeTwoByte, ModeTwoStates

LEMMA TitleDecoderByteStays ==
  ASSUME NEW t, TitleOK(t), NEW u \in DecoderByte(t)
  PROVE  TitleLoopKept(t, u)
<1>1. /\ 1 \in 0..(WordSize - 1) /\ RecordBytes \in 0..(WordSize - 1)
      /\ AfterLow \in TitlePlainLoop /\ AfterHigh \in TitlePlainLoop
  BY TitleAssumption DEF AfterLow, AfterHigh, TitlePlainLoop
<1>2. CASE t.state = "payload_byte"
  <2>1. u = Decoded([t EXCEPT !.dx = RecordBytes], 1, AfterHigh)
    BY <1>2 DEF DecoderByte
  <2>2. t.state \in TitleLoopStates
    BY <1>2 DEF TitleLoopStates, TitlePlainLoop
  <2>3. QED
    BY <1>1, <2>1, <2>2, TitleDecodedStays
<1>3. CASE t.state \in {"stream_byte", "next_loop_stream_byte", "high_nibble_byte"}
  <2>1. u \in Nibble(t, LowNibble) \cup Nibble(t, HighNibble)
    BY <1>3 DEF DecoderByte
  <2>2. PICK o \in LowNibble \cup HighNibble : u = [t EXCEPT !.state = o[1]]
    BY <2>1 DEF Nibble
  <2>3. t.state \in TitleLoopStates /\ o[1] \in TitlePlainLoop
    BY <1>3 DEF TitleLoopStates, TitlePlainLoop, LowNibble, HighNibble
  <2>4. QED
    BY <2>2, <2>3, TitlePlaceStays
<1>4. CASE t.state \notin {"payload_byte", "stream_byte", "next_loop_stream_byte", "high_nibble_byte"}
  <2>1. u \in {Decoded(t, 1, next) : next \in EdgeEnds(XlatEnds, t.state)}
    BY <1>4 DEF DecoderByte
  <2>2. PICK next \in EdgeEnds(XlatEnds, t.state) : u = Decoded(t, 1, next)
    BY <2>1
  <2>3. t.state \in TitleLoopStates /\ next \in TitlePlainLoop
    BY <2>2, TitleRunEdges DEF TitleLoopStates
  <2>4. QED
    BY <1>1, <2>2, <2>3, TitleDecodedStays
<1>5. QED
  BY <1>2, <1>3, <1>4

LEMMA TitleRecordByteMoves ==
  ASSUME NEW t, TitleOK(t), NEW u \in RecordByte(t)
  PROVE  TitleMoves(t, u)
<1>1. CASE t.state \in {"loop_second_byte_read", "second_loop_second_byte_read"}
  <2> DEFINE places == {"payload_byte", "second_loop_far_read", "second_loop_local_return"}
  <2>1. t.state \in TitleLoopStates /\ places \subseteq TitlePlainLoop
    BY <1>1 DEF TitleLoopStates, TitlePlainLoop
  <2>2. places \subseteq TitleStates
    BY <2>1, TitleLoopStatesHere DEF TitleLoopStates
  <2>3. /\ t \in Sessions /\ t.iter > 0 /\ 2 \in 0..Records /\ 2 > 0
    BY <2>1, TitleInLoop, TitleAssumption
  <2>4. PICK e \in places :
          \/ u = [t EXCEPT !.state = e]
          \/ u = [t EXCEPT !.state = e, !.iter = 2]
          \/ u = [t EXCEPT !.state = e, !.second = TRUE]
    BY <1>1 DEF RecordByte, SecondByte, SecondLoopSecondByte
  <2> HIDE DEF places
  <2>5. LoopOnly(t, u) /\ u.state = e /\ u.iter \in {t.iter, 2}
    <3>1. e \in TitleStates
      BY <2>2
    <3>2. CASE u = [t EXCEPT !.state = e]
      BY <2>3, <3>1, <3>2 DEF LoopOnly, Sessions
    <3>3. CASE u = [t EXCEPT !.state = e, !.iter = 2]
      BY <2>3, <3>1, <3>3 DEF LoopOnly, Sessions
    <3>4. CASE u = [t EXCEPT !.state = e, !.second = TRUE]
      BY <2>3, <3>1, <3>4 DEF LoopOnly, Sessions
    <3>5. QED
      BY <2>4, <3>2, <3>3, <3>4
  <2>6. QED
    BY <2>1, <2>3, <2>5, TitlePlainStays, TitleKindsMove
<1>2. CASE t.state \notin {"loop_second_byte_read", "second_loop_second_byte_read"}
  <2>1. u \in Along(RecordByteEdges, t)
    BY <1>2 DEF RecordByte
  <2>2. PICK e \in EdgeEnds(RecordByteEdges, t.state) : u = [t EXCEPT !.state = e]
    BY <2>1, TitleAlong
  <2>3. QED
    BY <2>2, TitleRecordEdges, TitleStays, TitleKindsMove DEF TitleLoopStates
<1>3. QED
  BY <1>1, <1>2

LEMMA TitleFarByteMoves ==
  ASSUME NEW t, TitleOK(t), NEW driving, NEW u \in FarByte(t, driving)
  PROVE  TitleMoves(t, u)
<1>1. CASE u \in RecordByte(t)
  BY <1>1, TitleRecordByteMoves
<1>2. CASE u \in DecoderByte(t)
  BY <1>2, TitleDecoderByteStays, TitleKindsMove
<1>3. CASE u \in ModeTwoByte(t)
  BY <1>3, TitleModeTwoStays, TitleKindsMove
<1>4. CASE u \in ModeFourByte(t)
  <2>1. PICK e \in {"mode_four_header_second_byte", "mode_four_header_word"} :
          /\ u = [t EXCEPT !.state = e]
          /\ t.state \in {"mode_four_header_byte", "mode_four_header_second_byte"}
    BY <1>4 DEF ModeFourByte
  <2>2. t.state \in TitleLoopStates /\ e \in TitlePlainLoop
    BY <2>1 DEF TitleLoopStates, TitlePlainLoop
  <2>3. QED
    BY <2>1, <2>2, TitlePlaceStays, TitleKindsMove
<1>5. QED
  BY <1>1, <1>2, <1>3, <1>4 DEF FarByte

LEMMA TitleHeaderWordStays ==
  ASSUME NEW t, TitleOK(t), NEW u \in HeaderWord(t)
  PROVE  TitleLoopKept(t, u)
<1>1. CASE t.state = "mode_two_header_word"
  <2>1. u = [t EXCEPT !.state = "mode_two_source_byte", !.dx = Rows, !.bx = Columns]
    BY <1>1 DEF HeaderWord
  <2>2. t.state \in TitleLoopStates /\ "mode_two_source_byte" \in ModeTwoStates
    BY <1>1 DEF TitleLoopStates, TitlePlainLoop, ModeTwoStates
  <2>3. Rows \in 1..(WordSize - 1) /\ Columns \in 1..Columns
    BY TitleAssumption
  <2>4. QED
    BY <2>1, <2>2, <2>3, TitleCountStays
<1>2. CASE t.state # "mode_two_header_word"
  <2>1. t.state = "mode_four_header_word" /\ u = [t EXCEPT !.state = "mode_four_body"]
    BY <1>2 DEF HeaderWord
  <2>2. t.state \in TitleLoopStates /\ "mode_four_body" \in TitlePlainLoop
    BY <2>1 DEF TitleLoopStates, TitlePlainLoop
  <2>3. QED
    BY <2>1, <2>2, TitlePlaceStays
<1>3. QED
  BY <1>1, <1>2

LEMMA TitleDecoderWordStays ==
  ASSUME NEW t, TitleOK(t), NEW driving, NEW u \in DecoderWord(t, driving)
  PROVE  TitleLoopKept(t, u)
<1>1. CASE u \in Along(RunEdges, t) \cup Along(RunEscapeEdges, t)
  <2>1. PICK e \in EdgeEnds(RunEdges, t.state) \cup EdgeEnds(RunEscapeEdges, t.state) :
          u = [t EXCEPT !.state = e]
    BY <1>1 DEF Along
  <2>2. t.state \in TitleLoopStates /\ e \in TitlePlainLoop
    BY <2>1, TitleRunEdges DEF TitleLoopStates
  <2>3. QED
    BY <2>1, <2>2, TitlePlaceStays
<1>2. CASE \E k \in 0..(WordSize - 1), next \in EdgeEnds(EscapeEnds, t.state)
                 \cup EdgeEnds(RunEnds, t.state) \cup EdgeEnds(LongRunEnds, t.state) :
             u = Decoded(t, k, next)
  <2>1. PICK k \in 0..(WordSize - 1), next \in EdgeEnds(EscapeEnds, t.state)
               \cup EdgeEnds(RunEnds, t.state) \cup EdgeEnds(LongRunEnds, t.state) :
           u = Decoded(t, k, next)
    BY <1>2
  <2>2. t.state \in TitleLoopStates /\ next \in TitlePlainLoop
    BY TitleRunEdges DEF TitleLoopStates
  <2>3. 0 \in 0..(WordSize - 1)
    BY TitleAssumption
  <2>4. QED
    BY <2>1, <2>2, <2>3, TitleDecodedStays
<1>3. /\ 1 \in 0..(WordSize - 1)
      /\ \A k \in Runs(t, driving, 0) \cup Runs(t, driving, 2) : k \in 0..(WordSize - 1)
  BY TitleAssumption DEF Runs
<1>4. QED
  BY <1>1, <1>2, <1>3 DEF DecoderWord

LEMMA TitleFarWordMoves ==
  ASSUME NEW t, TitleOK(t), NEW driving, NEW u \in FarWord(t, driving)
  PROVE  TitleMoves(t, u)
<1>1. CASE u \in Along(RecordWordEdges, t)
  <2>1. PICK e \in EdgeEnds(RecordWordEdges, t.state) : u = [t EXCEPT !.state = e]
    BY <1>1, TitleAlong
  <2>2. QED
    BY <2>1, TitleRecordEdges, TitleStays, TitleKindsMove DEF TitleLoopStates
<1>2. CASE u \in DecoderWord(t, driving)
  BY <1>2, TitleDecoderWordStays, TitleKindsMove
<1>3. CASE u \in HeaderWord(t)
  BY <1>3, TitleHeaderWordStays, TitleKindsMove
<1>4. QED
  BY <1>1, <1>2, <1>3 DEF FarWord

LEMMA TitleFarWordsMove ==
  ASSUME NEW t, TitleOK(t), NEW driving, NEW u \in FarWords(t, driving),
         driving => t.state \in TitleLoopStates
  PROVE  TitleMoves(t, u)
<1>1. PICK next \in EdgeEnds(FarWordsEdges, t.state) :
        u = [t EXCEPT !.state = IF driving THEN "loop_record_word_read" ELSE next]
  BY DEF FarWords
<1>2. CASE driving
  <2>1. u = [t EXCEPT !.state = "loop_record_word_read"]
    BY <1>1, <1>2
  <2>2. "loop_record_word_read" \in TitlePlainLoop
    BY DEF TitlePlainLoop
  <2>3. QED
    BY <1>2, <2>1, <2>2, TitlePlaceStays, TitleKindsMove
<1>3. CASE ~driving
  <2>1. u = [t EXCEPT !.state = next]
    BY <1>1, <1>3
  <2>2. QED
    BY <1>1, <2>1, TitleWordsEdges, TitleStays, TitleKindsMove DEF TitleLoopStates
<1>4. QED
  BY <1>2, <1>3

LEMMA TitleTranslateStays ==
  ASSUME NEW t, TitleOK(t), NEW u \in TranslateByte(t)
  PROVE  TitleLoopKept(t, u)
<1>1. CASE t.state = "mode_one_header_byte"
  <2>1. u = [t EXCEPT !.state = "mode_one_translation", !.dx = RecordBytes]
    BY <1>1 DEF TranslateByte
  <2>2. t.state \in TitleLoopStates
    BY <1>1 DEF TitleLoopStates, TitlePlainLoop
  <2>3. RecordBytes \in 1..(WordSize - 1) /\ 1 \in 1..Columns
    BY TitleAssumption
  <2>4. QED
    BY <2>1, <2>2, <2>3, TitleCountStays
<1>2. CASE t.state = "mode_one_translation"
  <2>1. u = IF t.dx = 1 THEN ReturnToLoop([t EXCEPT !.dx = 0]) ELSE [t EXCEPT !.dx = @ - 1]
    BY <1>2 DEF TranslateByte
  <2>2. t.state \in TitleLoopStates
    BY <1>2 DEF TitleLoopStates
  <2>3. CASE t.dx = 1
    BY <2>1, <2>2, <2>3, TitleReturnStays
  <2>4. CASE t.dx # 1
    <3>1. t \in Sessions /\ t.dx > 0
      BY <1>2, <2>2, TitleInLoop
    <3>2. t.dx - 1 \in 1..(WordSize - 1) /\ 1 \in 1..Columns
      BY <2>4, <3>1, TitleAssumption DEF Sessions
    <3>3. u = [t EXCEPT !.state = "mode_one_translation", !.dx = t.dx - 1]
      BY <1>2, <2>1, <2>4, <3>1 DEF Sessions
    <3>4. QED
      BY <2>2, <3>2, <3>3, TitleCountStays
  <2>5. QED
    BY <2>3, <2>4
<1>3. QED
  BY <1>1, <1>2 DEF TranslateByte

LEMMA TitleDriveMoves ==
  ASSUME NEW t, TitleOK(t), t.state \in TitleLoopStates, NEW u \in DriveOnce(t)
  PROVE  TitleMoves(t, u)
<1>1. CASE u \in TranslateByte(t)
  BY <1>1, TitleTranslateStays, TitleKindsMove
<1>2. CASE t.state = "mode_four_body" /\ u = ReturnToLoop(t)
  BY <1>2, TitleReturnStays, TitleKindsMove
<1>3. CASE u \in FarWords(t, TRUE)
  BY <1>3, TitleFarWordsMove
<1>4. CASE u \in FarWord(t, TRUE)
  BY <1>4, TitleFarWordMoves
<1>5. CASE u \in FarByte(t, TRUE)
  BY <1>5, TitleFarByteMoves
<1>6. QED
  BY <1>1, <1>2, <1>3, <1>4, <1>5 DEF DriveOnce, PlanarBody

(* The published pointers are those of the session, but in mode four.      *)
TitlePublished(t, p) == t.mode # 4 \/ t.iter = 0 => p = t.iter

LEMMA TitlePublishes ==
  ASSUME NEW t, NEW u, NEW p, TitlePublished(t, p),
         u.mode = t.mode \/ (t.iter = 0 /\ u.iter = 0)
  PROVE  TitlePublished(u, Pointers(t, u, p))
BY DEF TitlePublished, Pointers

(* What a drive reaches from a loop it owns.                               *)
DrivenWell(x, coordinated) ==
  /\ TitleOK(x.t) /\ x.t.owned /\ x.p \in 0..Records
  /\ CanDrive(x.t) \/ x.t.state = "descriptor_loop_complete"
  /\ coordinated => TitlePublished(x.t, x.p)

LEMMA TitleOwnedInLoop ==
  ASSUME NEW t, TitleOK(t), t.owned \/ t.iter > 0
  PROVE  t.state \in TitleLoopStates
BY DEF TitleOK, LoopCounts, Sessions

LEMMA TitleDriveStepWell ==
  ASSUME NEW x, NEW coordinated, DrivenWell(x, coordinated), NEW y \in DriveStep(x)
  PROVE  DrivenWell(y, coordinated)
<1>1. /\ TitleOK(x.t) /\ x.t.owned /\ x.p \in 0..Records
      /\ CanDrive(x.t) \/ x.t.state = "descriptor_loop_complete"
      /\ coordinated => TitlePublished(x.t, x.p)
  BY DEF DrivenWell
<1>2. CASE x.t.state = "descriptor_loop_complete"
  <2>1. y = x
    BY <1>2 DEF DriveStep
  <2>2. QED
    BY <2>1
<1>3. CASE x.t.state # "descriptor_loop_complete"
  <2>1. PICK u \in DriveOnce(x.t) :
          /\ y = [t |-> u, p |-> DrivenPointers(x.t, u, x.p)]
          /\ CanDrive(u) \/ u.state = "descriptor_loop_complete"
    BY <1>3 DEF DriveStep
  <2>2. x.t.state \in TitleLoopStates
    BY <1>1, TitleOwnedInLoop
  <2>3. TitleOK(u) /\ u.mode = x.t.mode /\ u.owned = x.t.owned
    BY <1>1, <2>1, <2>2, TitleDriveMoves DEF TitleMoves
  <2>4. y.t = u /\ y.p = DrivenPointers(x.t, u, x.p)
    BY <2>1
  <2>5. u.iter \in 0..Records /\ u.state \in TitleLoopStates /\ u.iter # 0
    <3>1. u.state \in TitleLoopStates
      BY <1>1, <2>3, TitleOwnedInLoop
    <3>2. QED
      BY <2>3, <3>1 DEF TitleOK, Sessions, LoopCounts
  <2>6. y.p \in 0..Records
    BY <1>1, <2>4, <2>5 DEF DrivenPointers, Pointers
  <2>7. ASSUME coordinated PROVE TitlePublished(u, y.p)
    <3>1. CASE x.t.state = "mode_four_body"
      <4>1. x.t.mode = 4
        BY <1>1, <1>3, <3>1 DEF CanDrive, DrivableStates, ModeOneStates, LowNibble, HighNibble,
           RunEscapeEdges, LongRunEnds, Sources
      <4>2. QED
        BY <2>3, <2>5, <4>1 DEF TitlePublished
    <3>2. CASE x.t.state # "mode_four_body"
      <4>1. y.p = Pointers(x.t, u, x.p)
        BY <2>4, <3>2 DEF DrivenPointers
      <4>2. QED
        BY <1>1, <2>3, <2>7, <4>1, TitlePublishes
    <3>3. QED
      BY <3>1, <3>2
  <2>8. QED
    BY <1>1, <2>1, <2>3, <2>4, <2>6, <2>7 DEF DrivenWell
<1>4. QED
  BY <1>2, <1>3

(* A drive of any length ends well: by induction over its observations.    *)
DrivenOnce(xs) == UNION {DriveStep(y) : y \in xs}

LEMMA TitleDrivenWell ==
  ASSUME NEW x, NEW coordinated, DrivenWell(x, coordinated), NEW n \in Nat,
         NEW reached \in Driven(x, n)
  PROVE  DrivenWell(reached, coordinated)
<1> DEFINE Step(f, i) == IF i = 0 THEN {x} ELSE DrivenOnce(f[i - 1])
           Families(f, k) == f = [i \in 0..k |-> Step(f, i)]
           Limits == {k \in Nat : \E f : Families(f, k)}
<1>1. 0 \in Limits
  <2> DEFINE f == [i \in 0..0 |-> {x}]
  <2>1. Families(f, 0)
    OBVIOUS
  <2>2. QED
    BY <2>1
<1>2. ASSUME NEW k \in Nat, k \in Limits PROVE k + 1 \in Limits
  <2>1. PICK f : Families(f, k)
    BY <1>2
  <2> DEFINE g == [i \in 0..(k + 1) |-> IF i = k + 1 THEN DrivenOnce(f[k]) ELSE f[i]]
  <2>2. ASSUME NEW i \in 0..(k + 1) PROVE g[i] = Step(g, i)
    <3>1. CASE i = k + 1
      BY <3>1
    <3>2. CASE i \in 1..k
      <4>1. g[i] = f[i] /\ g[i - 1] = f[i - 1] /\ i # 0
        BY <3>2
      <4>2. f[i] = Step(f, i)
        <5> HIDE DEF Step
        <5>1. QED
          BY <2>1, <3>2
      <4>3. QED
        BY <4>1, <4>2
    <3>3. CASE i = 0
      BY <2>1, <3>3
    <3>4. QED
      BY <3>1, <3>2, <3>3
  <2>3. Families(g, k + 1)
    <3>1. g = [i \in 0..(k + 1) |-> g[i]]
      OBVIOUS
    <3> HIDE DEF g, Step
    <3>2. QED
      BY <2>2, <3>1
  <2> HIDE DEF g, Families
  <2>4. QED
    BY <2>3
<1>3. n \in Limits
  <2> HIDE DEF Limits
  <2>1. QED
    BY <1>1, <1>2, NatSetInduction
<1> DEFINE after == CHOOSE h : h = [i \in 0..n |-> Step(h, i)]
<1>4. after = [i \in 0..n |-> Step(after, i)]
  <2>1. PICK f : Families(f, n)
    BY <1>3
  <2>2. QED
    BY <2>1
<1> HIDE DEF after
<1> DEFINE Same == {k \in Nat : k <= n => \A y \in after[k] : DrivenWell(y, coordinated)}
<1>5. 0 \in Same
  <2>1. after[0] = {x}
    BY <1>4
  <2>2. QED
    BY <2>1
<1>6. ASSUME NEW k \in Nat, k \in Same PROVE k + 1 \in Same
  <2>1. SUFFICES ASSUME k + 1 <= n, NEW z \in after[k + 1] PROVE DrivenWell(z, coordinated)
    OBVIOUS
  <2>2. k + 1 \in 0..n /\ k + 1 # 0 /\ (k + 1) - 1 = k /\ k <= n
    BY <2>1
  <2>3. after[k + 1] = Step(after, k + 1)
    <3> HIDE DEF Step
    <3>1. QED
      BY <1>4, <2>2
  <2>4. after[k + 1] = DrivenOnce(after[k])
    BY <2>2, <2>3
  <2>5. \A y \in after[k] : DrivenWell(y, coordinated)
    BY <1>6, <2>2
  <2>6. PICK w \in after[k] : z \in DriveStep(w)
    BY <2>1, <2>4 DEF DrivenOnce
  <2>7. QED
    BY <2>5, <2>6, TitleDriveStepWell
<1>7. n \in Same
  <2> HIDE DEF Same
  <2>1. QED
    BY <1>5, <1>6, NatSetInduction
<1>8. Driven(x, n) = after[n]
  BY DEF Driven, DrivenOnce, after
<1>9. QED
  BY <1>7, <1>8

(* So does a drive of mode two, which a loop that is owned refuses.        *)
ModeTwoOnce(ts) ==
  UNION {IF u.state \in ModeTwoStates THEN FarByte(u, FALSE) ELSE {u} : u \in ts}

LEMMA TitleModeTwoDriven ==
  ASSUME NEW t, TitleOK(t), NEW n \in Nat, NEW u \in ModeTwoDriven(t, n)
  PROVE  TitleMoves(t, u) /\ (t.owned => u = t)
<1> DEFINE Step(f, i) == IF i = 0 THEN {t} ELSE ModeTwoOnce(f[i - 1])
           Families(f, k) == f = [i \in 0..k |-> Step(f, i)]
           Limits == {k \in Nat : \E f : Families(f, k)}
<1>1. 0 \in Limits
  <2> DEFINE f == [i \in 0..0 |-> {t}]
  <2>1. Families(f, 0)
    OBVIOUS
  <2>2. QED
    BY <2>1
<1>2. ASSUME NEW k \in Nat, k \in Limits PROVE k + 1 \in Limits
  <2>1. PICK f : Families(f, k)
    BY <1>2
  <2> DEFINE g == [i \in 0..(k + 1) |-> IF i = k + 1 THEN ModeTwoOnce(f[k]) ELSE f[i]]
  <2>2. ASSUME NEW i \in 0..(k + 1) PROVE g[i] = Step(g, i)
    <3>1. CASE i = k + 1
      BY <3>1
    <3>2. CASE i \in 1..k
      <4>1. g[i] = f[i] /\ g[i - 1] = f[i - 1] /\ i # 0
        BY <3>2
      <4>2. f[i] = Step(f, i)
        <5> HIDE DEF Step
        <5>1. QED
          BY <2>1, <3>2
      <4>3. QED
        BY <4>1, <4>2
    <3>3. CASE i = 0
      BY <2>1, <3>3
    <3>4. QED
      BY <3>1, <3>2, <3>3
  <2>3. Families(g, k + 1)
    <3>1. g = [i \in 0..(k + 1) |-> g[i]]
      OBVIOUS
    <3> HIDE DEF g, Step
    <3>2. QED
      BY <2>2, <3>1
  <2> HIDE DEF g, Families
  <2>4. QED
    BY <2>3
<1>3. n \in Limits
  <2> HIDE DEF Limits
  <2>1. QED
    BY <1>1, <1>2, NatSetInduction
<1> DEFINE after == CHOOSE h : h = [i \in 0..n |-> Step(h, i)]
<1>4. after = [i \in 0..n |-> Step(after, i)]
  <2>1. PICK f : Families(f, n)
    BY <1>3
  <2>2. QED
    BY <2>1
<1> HIDE DEF after
<1> DEFINE Same == {k \in Nat : k <= n => \A y \in after[k] : TitleMoves(t, y) /\ (t.owned => y = t)}
<1>5. 0 \in Same
  <2>1. after[0] = {t}
    BY <1>4
  <2>2. QED
    BY <2>1 DEF TitleMoves
<1>6. ASSUME NEW k \in Nat, k \in Same PROVE k + 1 \in Same
  <2>1. SUFFICES ASSUME k + 1 <= n, NEW z \in after[k + 1] PROVE TitleMoves(t, z) /\ (t.owned => z = t)
    OBVIOUS
  <2>2. k + 1 \in 0..n /\ k + 1 # 0 /\ (k + 1) - 1 = k /\ k <= n
    BY <2>1
  <2>3. after[k + 1] = Step(after, k + 1)
    <3> HIDE DEF Step
    <3>1. QED
      BY <1>4, <2>2
  <2>4. after[k + 1] = ModeTwoOnce(after[k])
    BY <2>2, <2>3
  <2>5. \A y \in after[k] : TitleMoves(t, y) /\ (t.owned => y = t)
    BY <1>6, <2>2
  <2>6. PICK v \in after[k] : z \in IF v.state \in ModeTwoStates THEN FarByte(v, FALSE) ELSE {v}
    BY <2>1, <2>4 DEF ModeTwoOnce
  <2>7. TitleMoves(t, v) /\ (t.owned => v = t)
    BY <2>5, <2>6
  <2>8. CASE z \in FarByte(v, FALSE)
    <3>1. ~v.owned
      BY <2>8 DEF FarByte, Open
    <3>2. TitleMoves(v, z)
      BY <2>7, <2>8, TitleFarByteMoves DEF TitleMoves
    <3>3. QED
      BY <2>7, <3>1, <3>2 DEF TitleMoves
  <2>9. QED
    BY <2>6, <2>7, <2>8
<1>7. n \in Same
  <2> HIDE DEF Same
  <2>1. QED
    BY <1>5, <1>6, NatSetInduction
<1>8. ModeTwoDriven(t, n) = after[n]
  BY DEF ModeTwoDriven, ModeTwoOnce, after
<1>9. QED
  BY <1>7, <1>8

(* An answer, of whatever kind, and the calls the coordinator makes of it. *)
LEMMA TitleAnsweredKeeps ==
  ASSUME NEW t, TitleOK(t), NEW asked, NEW u \in Answered(asked, t)
  PROVE  TitleAnswersWell(t, u)
<1>1. ASSUME TitleKept(t, u) \/ TitleMoves(t, u) PROVE TitleAnswersWell(t, u)
  BY <1>1 DEF TitleKept, TitleMoves, TitleAnswersWell
<1>2. CASE u \in PrivateInterrupt(t)
  BY <1>2, TitleInterruptKeeps
<1>3. CASE u \in SelectedCallee(t)
  BY <1>1, <1>3, TitleCalleeKeeps
<1>4. CASE u \in PaletteResult(t)
  BY <1>1, <1>4, TitlePaletteKeeps
<1>5. CASE u \in DosMemory(t)
  BY <1>1, <1>5, TitleMemoryKeeps
<1>6. CASE u \in DosFile(t)
  BY <1>1, <1>6, TitleFileKeeps
<1>7. CASE u \in Along(VectorEdges, t) \cup Along(SetupBiosEdges, t)
  BY <1>1, <1>7, TitleVectorKeeps
<1>8. CASE u \in FarWords(t, FALSE)
  BY <1>1, <1>8, TitleFarWordsMove
<1>9. CASE u \in FarWord(t, FALSE)
  BY <1>1, <1>9, TitleFarWordMoves
<1>10. CASE u \in FarByte(t, FALSE)
  BY <1>1, <1>10, TitleFarByteMoves
<1>11. u \in PrivateInterrupt(t) \cup SelectedCallee(t) \cup PaletteResult(t)
              \cup DosMemory(t) \cup DosFile(t) \cup Along(VectorEdges, t)
              \cup Along(SetupBiosEdges, t) \cup FarWords(t, FALSE) \cup FarWord(t, FALSE)
              \cup FarByte(t, FALSE)
  BY Zenon DEF Answered
<1>12. QED
  BY <1>2, <1>3, <1>4, <1>5, <1>6, <1>7, <1>8, <1>9, <1>10, <1>11

(* A loop that is owned takes no answer at all.                            *)
LEMMA TitleOwnedUnanswered ==
  ASSUME NEW t, TitleOK(t), t.owned, NEW asked
  PROVE  Answered(asked, t) = {}
<1>1. t.state \in TitleLoopStates
  BY TitleOwnedInLoop
<1>2. /\ t.state # "private_interrupt_result"
      /\ t.state # "post_descriptor_private_interrupt_result"
      /\ t.state # "selected_callee_private_interrupt_result"
      /\ t.state \notin FatalAllocations /\ t.state \notin FatalFiles
      /\ t.state # "library_palette_bios_interrupt"
  BY <1>1, TitleKindsApart DEF TitleEntryStates, TitleSelectStates, TitleVideoStates,
     TitleSetupStates, FatalAllocations, FatalFiles, TitleAllocationStates
<1>3. /\ t.state \notin {"bios_palette_interrupt", "dos_library_read_result"}
      /\ t.state \notin TitleAllocationStates /\ t.state \notin TitleSetupStates
      /\ t.state \notin TitleVideoStates /\ t.state # "dos_library_close_result"
  BY <1>1, TitleKindsApart
<1>4. /\ EdgeEnds(PrivateInterruptEdges, t.state) = {} /\ EdgeEnds(MemoryEdges, t.state) = {}
      /\ EdgeEnds(FileEdges, t.state) = {} /\ EdgeEnds(VectorEdges, t.state) = {}
      /\ EdgeEnds(SetupBiosEdges, t.state) = {}
  <2>1. EdgeEnds(PrivateInterruptEdges, t.state) = {}
    BY <1>3, TitleInterruptEdges
  <2>2. EdgeEnds(MemoryEdges, t.state) = {}
    BY <1>3, TitleMemoryEdges
  <2>3. EdgeEnds(FileEdges, t.state) = {}
    BY <1>3, TitleFileEdges DEF TitleAllocationStates
  <2>4. EdgeEnds(VectorEdges, t.state) = {} /\ EdgeEnds(SetupBiosEdges, t.state) = {}
    BY <1>3, TitleSetupEdges
  <2>5. QED
    BY <2>1, <2>2, <2>3, <2>4
<1>5. /\ Along(PrivateInterruptEdges, t) = {} /\ Along(MemoryEdges, t) = {}
      /\ Along(FileEdges, t) = {} /\ Along(VectorEdges, t) = {}
      /\ Along(SetupBiosEdges, t) = {}
  BY <1>4 DEF Along
<1>6. PrivateInterrupt(t) = {}
  BY <1>2, <1>5 DEF PrivateInterrupt
<1>7. SelectedCallee(t) = {} /\ PaletteResult(t) = {}
  BY <1>2, <1>3 DEF SelectedCallee, PaletteResult
<1>8. DosMemory(t) = {} /\ DosFile(t) = {}
  BY <1>2, <1>3, <1>5 DEF DosMemory, DosFile
<1>9. FarWords(t, FALSE) = {} /\ FarWord(t, FALSE) = {} /\ FarByte(t, FALSE) = {}
  BY DEF FarWords, FarWord, FarByte, Open
<1>10. QED
  BY <1>5, <1>6, <1>7, <1>8, <1>9 DEF Answered

LEMMA TitleOwnedCallsNothing ==
  ASSUME NEW t, TitleOK(t), t.owned
  PROVE  Execute(t) = {}
<1>1. t.state \in TitleLoopStates
  BY TitleOwnedInLoop
<1>2. /\ t.state \notin TitleEntryStates /\ t.state \notin TitleSelectStates
      /\ t.state \notin TitleSetupStates /\ t.state \notin TitleVideoStates
      /\ t.state \notin TitleAllocationStates /\ t.state # "library_relocation_complete"
  BY <1>1, TitleKindsApart
<1> DEFINE s == [t EXCEPT !.repeat = @ \/ t.state = "post_video_hook_mode_call"]
<1>3. s.state = t.state
  BY DEF TitleOK, Sessions
<1> HIDE DEF s
<1>4. Along(LocalCalls, t) = {}
  BY <1>2, TitleLocalEdges DEF Along, TitleEntryStates, TitleSelectStates, TitleAllocationStates
<1>5. Along(SetupCalls, t) = {}
  BY <1>2, TitleSetupEdges DEF Along
<1>6. Along(VideoCalls, s) = {}
  BY <1>2, <1>3, TitleVideoEdges DEF Along, TitleSetupStates
<1>7. QED
  BY <1>2, <1>4, <1>5, <1>6 DEF Execute, s

LEMMA TitleSettles ==
  ASSUME NEW t, NEW asked, NEW ts, \A u \in ts : TitleAnswersWell(t, u), NEW v \in Settled(asked, ts)
  PROVE  TitleAnswersWell(t, v)
<1>1. PICK u \in ts : v \in IF u.state \in EdgeEnds(Chained, asked) THEN Execute(u) ELSE {u}
  BY DEF Settled
<1>2. TitleAnswersWell(t, u) /\ TitleOK(u)
  BY <1>1 DEF TitleAnswersWell
<1>3. CASE v \in Execute(u)
  <2>1. TitleKept(u, v)
    BY <1>2, <1>3, TitleExecuteKeeps
  <2>2. QED
    BY <1>2, <2>1 DEF TitleKept, TitleAnswersWell
<1>4. QED
  BY <1>1, <1>2, <1>3

LEMMA TitleCoordinatorAnswers ==
  ASSUME NEW t, TitleOK(t), NEW asked, NEW u \in CoordinatorAnswered(asked, t)
  PROVE  TitleAnswersWell(t, u) /\ ~t.owned
<1>1. \A w \in Answered(asked, t) : TitleAnswersWell(t, w)
  BY TitleAnsweredKeeps
<1>2. \A w \in Settled(asked, Answered(asked, t)) : TitleAnswersWell(t, w)
  BY <1>1, TitleSettles
<1>3. TitleAnswersWell(t, u)
  BY <1>2, TitleSettles DEF CoordinatorAnswered
<1>4. Answered(asked, t) # {}
  BY DEF CoordinatorAnswered, Settled
<1>5. QED
  BY <1>3, <1>4, TitleOwnedUnanswered

(* The file calls of the compatibility runner move no loop.                *)
LEMMA TitleFileChain ==
  ASSUME NEW t, TitleOK(t), NEW u \in CoordinatorAnswered("dos_file", t)
  PROVE  TitleKept(t, u)
<1>1. Answered("dos_file", t) = DosFile(t)
  BY DEF Answered
<1>2. ASSUME NEW ts, \A w \in ts : TitleKept(t, w), NEW v \in Settled("dos_file", ts)
      PROVE  TitleKept(t, v)
  <2>1. PICK w \in ts : v \in IF w.state \in EdgeEnds(Chained, "dos_file") THEN Execute(w) ELSE {w}
    BY <1>2 DEF Settled
  <2>2. TitleKept(t, w) /\ TitleOK(w)
    BY <1>2, <2>1 DEF TitleKept
  <2>3. CASE v \in Execute(w)
    <3>1. TitleKept(w, v)
      BY <2>2, <2>3, TitleExecuteKeeps
    <3>2. QED
      BY <2>2, <3>1 DEF TitleKept
  <2>4. QED
    BY <2>1, <2>2, <2>3
<1>3. \A w \in DosFile(t) : TitleKept(t, w)
  BY TitleFileKeeps
<1>4. \A w \in Settled("dos_file", DosFile(t)) : TitleKept(t, w)
  BY <1>2, <1>3
<1>5. QED
  BY <1>1, <1>2, <1>4 DEF CoordinatorAnswered

LEMMA TitleCompatibilityKeeps ==
  ASSUME NEW t, TitleOK(t), NEW u \in CompatibilityAnswer(t)
  PROVE  TitleKept(t, u)
BY TitleMemoryKeeps, TitleFileChain DEF CompatibilityAnswer

LEMMA FourAreFinite ==
  ASSUME NEW a, NEW b, NEW c, NEW d
  PROVE  IsFiniteSet({a, b, c, d})
<1>1. IsFiniteSet({a})
  BY FS_Singleton
<1>2. IsFiniteSet({a, b}) /\ {a, b} = {a} \cup {b}
  BY <1>1, FS_AddElement
<1>3. IsFiniteSet({a, b, c})
  <2>1. {a, b, c} = {a, b} \cup {c}
    OBVIOUS
  <2>2. QED
    BY <1>2, <2>1, FS_AddElement
<1>4. {a, b, c, d} = {a, b, c} \cup {d}
  OBVIOUS
<1>5. QED
  BY <1>3, <1>4, FS_AddElement

LEMMA CompatibilityIsFinite ==
  /\ IsFiniteSet(CompatibilityStates) /\ Cardinality(CompatibilityStates) \in Nat
  /\ CompatibilityStates \subseteq TitleAllocationStates \cup
       {"dos_library_read_result", "dos_library_close_result"}
<1>1. CompatibilityStates \subseteq TitleAllocationStates \cup
        {"dos_library_read_result", "dos_library_close_result"}
  BY DEF CompatibilityStates, MemoryEdges, FileEdges, Sources, TitleAllocationStates
<1>2. IsFiniteSet(CompatibilityStates)
  <2> DEFINE A == {"title_main_allocation_call", "dos_resize_result",
                   "dos_large_allocation_result", "dos_free_result"}
             B == {"dos_first_buffer_allocation_result", "dos_second_buffer_allocation_result",
                   "dos_file_open_result", "dos_file_seek_result"}
             C == {"dos_file_close_result", "dos_file_sized_allocation_result",
                   "dos_single_paragraph_allocation_result", "dos_scratch_allocation_result"}
             D == {"dos_scratch_free_result", "dos_library_open_result",
                   "dos_library_read_result", "dos_library_close_result"}
  <2>1. IsFiniteSet(A) /\ IsFiniteSet(B) /\ IsFiniteSet(C) /\ IsFiniteSet(D)
    BY FourAreFinite
  <2>2. CompatibilityStates \subseteq (A \cup B) \cup (C \cup D)
    BY <1>1 DEF TitleAllocationStates
  <2> HIDE DEF A, B, C, D
  <2>3. IsFiniteSet((A \cup B) \cup (C \cup D))
    BY <2>1, FS_Union
  <2>4. QED
    BY <2>2, <2>3, FS_Subset
<1>3. QED
  BY <1>1, <1>2, FS_CardinalityType

(* The compatibility runner keeps all a single answer keeps.               *)
CompatibilityOnce(ts) ==
  UNION {IF u.state \in CompatibilityStates THEN CompatibilityAnswer(u) ELSE {u} : u \in ts}

LEMMA TitleCompatibility ==
  ASSUME NEW t, TitleOK(t), NEW u \in CompatibilityChain(t)
  PROVE  TitleKept(t, u)
<1> DEFINE n == Cardinality(CompatibilityStates) + LibraryReads
<1>0. n \in Nat
  BY CompatibilityIsFinite, TitleAssumption
<1> HIDE DEF n
<1> DEFINE Step(f, i) == IF i = 0 THEN {t} ELSE CompatibilityOnce(f[i - 1])
           Families(f, k) == f = [i \in 0..k |-> Step(f, i)]
           Limits == {k \in Nat : \E f : Families(f, k)}
<1>1. 0 \in Limits
  <2> DEFINE f == [i \in 0..0 |-> {t}]
  <2>1. Families(f, 0)
    OBVIOUS
  <2>2. QED
    BY <2>1
<1>2. ASSUME NEW k \in Nat, k \in Limits PROVE k + 1 \in Limits
  <2>1. PICK f : Families(f, k)
    BY <1>2
  <2> DEFINE g == [i \in 0..(k + 1) |-> IF i = k + 1 THEN CompatibilityOnce(f[k]) ELSE f[i]]
  <2>2. ASSUME NEW i \in 0..(k + 1) PROVE g[i] = Step(g, i)
    <3>1. CASE i = k + 1
      BY <3>1
    <3>2. CASE i \in 1..k
      <4>1. g[i] = f[i] /\ g[i - 1] = f[i - 1] /\ i # 0
        BY <3>2
      <4>2. f[i] = Step(f, i)
        <5> HIDE DEF Step
        <5>1. QED
          BY <2>1, <3>2
      <4>3. QED
        BY <4>1, <4>2
    <3>3. CASE i = 0
      BY <2>1, <3>3
    <3>4. QED
      BY <3>1, <3>2, <3>3
  <2>3. Families(g, k + 1)
    <3>1. g = [i \in 0..(k + 1) |-> g[i]]
      OBVIOUS
    <3> HIDE DEF g, Step
    <3>2. QED
      BY <2>2, <3>1
  <2> HIDE DEF g, Families
  <2>4. QED
    BY <2>3
<1>3. n \in Limits
  <2> HIDE DEF Limits
  <2>1. QED
    BY <1>0, <1>1, <1>2, NatSetInduction
<1> DEFINE after == CHOOSE h : h = [i \in 0..n |-> Step(h, i)]
<1>4. after = [i \in 0..n |-> Step(after, i)]
  <2>1. PICK f : Families(f, n)
    BY <1>3
  <2>2. QED
    BY <2>1
<1> HIDE DEF after
<1> DEFINE Same == {k \in Nat : k <= n => \A y \in after[k] : TitleKept(t, y)}
<1>5. 0 \in Same
  <2>1. after[0] = {t}
    BY <1>0, <1>4
  <2>2. QED
    BY <2>1 DEF TitleKept
<1>6. ASSUME NEW k \in Nat, k \in Same PROVE k + 1 \in Same
  <2>1. SUFFICES ASSUME k + 1 <= n, NEW z \in after[k + 1] PROVE TitleKept(t, z)
    OBVIOUS
  <2>2. k + 1 \in 0..n /\ k + 1 # 0 /\ (k + 1) - 1 = k /\ k <= n
    BY <1>0, <2>1
  <2>3. after[k + 1] = Step(after, k + 1)
    <3> HIDE DEF Step
    <3>1. QED
      BY <1>4, <2>2
  <2>4. after[k + 1] = CompatibilityOnce(after[k])
    BY <2>2, <2>3
  <2>5. \A y \in after[k] : TitleKept(t, y)
    BY <1>6, <2>2
  <2>6. PICK v \in after[k] :
          z \in IF v.state \in CompatibilityStates THEN CompatibilityAnswer(v) ELSE {v}
    BY <2>1, <2>4 DEF CompatibilityOnce
  <2>7. TitleKept(t, v) /\ TitleOK(v)
    BY <2>5, <2>6 DEF TitleKept
  <2>8. CASE z \in CompatibilityAnswer(v)
    <3>1. TitleKept(v, z)
      BY <2>7, <2>8, TitleCompatibilityKeeps
    <3>2. QED
      BY <2>7, <3>1 DEF TitleKept
  <2>9. QED
    BY <2>6, <2>7, <2>8
<1>7. n \in Same
  <2> HIDE DEF Same
  <2>1. QED
    BY <1>0, <1>5, <1>6, NatSetInduction
<1>8. CompatibilityChain(t) = after[n]
  BY DEF CompatibilityChain, CompatibilityOnce, after, n
<1>9. QED
  BY <1>0, <1>7, <1>8

-----------------------------------------------------------------------------
(* The inductive invariant: everything above of the session, the pointers  *)
(* published so far, and that a loop that is owned can be driven on.       *)
TitleInv ==
  /\ TitleOK(title) /\ published \in 0..Records /\ via \in {"coordinator", "direct"}
  /\ OwnedLoopGoesOn
  /\ via = "coordinator" => TitlePublished(title, published)

LEMMA TitleInvSays == TitleInv => TitleTypeOK /\ OwnedLoopIsSound
<1> SUFFICES ASSUME TitleInv PROVE TitleTypeOK /\ OwnedLoopIsSound
  OBVIOUS
<1>1. TitleTypeOK
  BY DEF TitleInv, TitleOK, TitleTypeOK
<1>2. LoopIsPublished
  BY DEF TitleInv, LoopIsPublished, TitlePublished
<1>3. LoopFollowsSetup
  <2>1. ASSUME title.iter > 0 PROVE title.state \in TitleLoopStates
    BY <2>1, TitleOwnedInLoop DEF TitleInv
  <2>2. QED
    BY <2>1 DEF LoopFollowsSetup, TitleInv, TitleOK, PassesAreMade, LibraryIsIn
<1>4. QED
  BY <1>1, <1>2, <1>3 DEF TitleInv, OwnedLoopIsSound

LEMMA TitleInvInit == TitleInit => TitleInv
<1> SUFFICES ASSUME TitleInit PROVE TitleInv
  OBVIOUS
<1>1. title = NewTitle /\ published = 0 /\ via \in {"coordinator", "direct"}
  BY DEF TitleInit
<1>2. "awaiting_entry" \in TitleEntryStates /\ "awaiting_entry" \in TitleStates
  BY TitleSetupStatesHere DEF TitleEntryStates
<1>3. /\ "awaiting_entry" \notin TitleLoopStates /\ "awaiting_entry" \notin TitleSelectStates
      /\ "awaiting_entry" \notin TitleAllocationStates
      /\ "awaiting_entry" \notin TitleSetupStates /\ "awaiting_entry" \notin TitleVideoStates
  BY DEF TitleLoopStates, TitlePlainLoop, ModeTwoStates, TitleSelectStates,
         TitleAllocationStates, TitleSetupStates, TitleVideoStates
<1>4. /\ title.state = "awaiting_entry" /\ ~title.repeat /\ title.results = 0
      /\ title.reads = 0 /\ title.iter = 0 /\ ~title.owned
  BY <1>1 DEF NewTitle
<1>5. title \in Sessions
  <2>1. /\ 0 \in 0..Records /\ 0 \in 0..(2 * PaletteSize) /\ 0 \in 0..LibraryReads
        /\ 0 \in Prefixes /\ 0 \in 0..(WordSize - 1) /\ 0 \in 0..Columns
        /\ 0 \in {0} \cup DisplayModes
    BY TitleAssumption DEF Prefixes
  <2>2. QED
    BY <1>1, <1>2, <2>1 DEF NewTitle, Sessions
<1>6. PassesAreMade(title)
  BY <1>2, <1>3, <1>4 DEF PassesAreMade
<1>7. LoopCounts(title)
  BY <1>3, <1>4 DEF LoopCounts, TitleLoopStates
<1>8. QED
  BY <1>1, <1>4, <1>5, <1>6, <1>7, TitleAssumption
     DEF TitleInv, TitleOK, OwnedLoopGoesOn, TitlePublished

(* A step that keeps the mode, the owner and the descriptor where nobody   *)
(* owns the loop.                                                          *)
LEMMA TitleUnownedStep ==
  ASSUME TitleInv, TitleAnswersWell(title, title'), ~title.owned, via' = via,
         via = "coordinator" => published' = Pointers(title, title', published),
         published' \in {published, Pointers(title, title', published)}
  PROVE  TitleInv'
<1>1. TitleOK(title') /\ ~title'.owned
  BY DEF TitleAnswersWell
<1>2. title'.iter \in 0..Records
  BY <1>1 DEF TitleOK, Sessions
<1>3. published' \in 0..Records
  BY <1>2 DEF TitleInv, Pointers
<1>4. ASSUME via = "coordinator" PROVE TitlePublished(title', published')
  <2>1. TitlePublished(title, published) /\ published' = Pointers(title, title', published)
    BY <1>4 DEF TitleInv
  <2>2. QED
    BY <2>1, TitlePublishes DEF TitleAnswersWell
<1>5. TitleOK(title)' /\ OwnedLoopGoesOn'
  BY <1>1 DEF OwnedLoopGoesOn, TitleOK, PassesAreMade, LoopCounts, LibraryIsIn, FirstPass
<1>6. QED
  BY <1>3, <1>4, <1>5 DEF TitleInv, TitlePublished

LEMMA TitleInvStep == TitleInv /\ TitleStep => TitleInv'
<1> SUFFICES ASSUME TitleInv, TitleStep PROVE TitleInv'
  OBVIOUS
<1>1. TitleOK(title) /\ title \in Sessions
  BY DEF TitleInv, TitleOK
<1>2. CASE Observe
  <2>1. PICK asked \in Kinds :
          \/ /\ via = "coordinator" /\ title' \in CoordinatorAnswered(asked, title)
             /\ published' = Pointers(title, title', published)
          \/ /\ via = "direct" /\ title' \in Answered(asked, title) /\ published' = published
    BY <1>2 DEF Observe
  <2>2. via' = via
    BY <1>2 DEF Observe
  <2>3. TitleAnswersWell(title, title') /\ ~title.owned
    BY <1>1, <2>1, TitleCoordinatorAnswers, TitleAnsweredKeeps, TitleOwnedUnanswered
  <2>4. QED
    BY <2>1, <2>2, <2>3, TitleUnownedStep
<1>3. CASE LocalCall \/ CompatibilityTick
  <2>1. TitleKept(title, title') /\ ~title.owned
    <3>1. CASE LocalCall
      BY <1>1, <3>1, TitleExecuteKeeps, TitleOwnedCallsNothing DEF LocalCall
    <3>2. CASE CompatibilityTick
      <4>1. title' \in CompatibilityChain(title) /\ title.state \in CompatibilityStates
        BY <3>2 DEF CompatibilityTick
      <4>2. title.state \notin TitleLoopStates
        BY <4>1, CompatibilityIsFinite, TitleKindsApart
      <4>3. QED
        BY <1>1, <4>1, <4>2, TitleCompatibility, TitleOwnedInLoop
    <3>3. QED
      BY <1>3, <3>1, <3>2
  <2>2. published' = published /\ via' = via
    BY <1>3 DEF LocalCall, CompatibilityTick
  <2>3. published' = Pointers(title, title', published)
    BY <2>1, <2>2 DEF TitleKept, Pointers
  <2>4. TitleAnswersWell(title, title')
    BY <2>1 DEF TitleKept, TitleAnswersWell
  <2>5. QED
    BY <2>1, <2>2, <2>3, <2>4, TitleUnownedStep
<1>4. CASE Drive
  <2> DEFINE x == [t |-> [title EXCEPT !.owned = TRUE], p |-> published]
             coordinated == via = "coordinator"
  <2>1. PICK n \in 1..Quantum : \E y \in Driven(x, n) : title' = y.t /\ published' = y.p
    BY <1>4 DEF Drive
  <2>2. PICK y \in Driven(x, n) : title' = y.t /\ published' = y.p
    BY <2>1
  <2>3. CanDrive(title) /\ via' = via
    BY <1>4 DEF Drive
  <2>4. title.iter > 0 /\ title.state \in TitleLoopStates
    <3>1. title.iter > 0
      BY <2>3, TitleAssumption DEF CanDrive
    <3>2. QED
      BY <1>1, <3>1, TitleOwnedInLoop
  <2> DEFINE s == [title EXCEPT !.owned = TRUE]
  <2>5. /\ s \in Sessions /\ s.owned /\ s.state = title.state /\ s.iter = title.iter
        /\ s.mode = title.mode /\ s.repeat = title.repeat /\ s.results = title.results
        /\ s.reads = title.reads /\ s.prefix = title.prefix /\ s.dx = title.dx /\ s.bx = title.bx
    BY <1>1 DEF Sessions
  <2>6. x.t = s /\ x.p = published
    OBVIOUS
  <2> HIDE DEF s, x
  <2>7. TitleOK(s)
    <3>1. LibraryIsIn(s) <=> LibraryIsIn(title)
      BY <2>5 DEF LibraryIsIn
    <3>2. LoopCounts(s)
      BY <1>1, <2>4, <2>5 DEF TitleOK, LoopCounts
    <3>3. PassesAreMade(s)
      BY <1>1, <2>4, <2>5, <3>1, TitleKindsApart DEF TitleOK, PassesAreMade
    <3>4. QED
      BY <2>5, <3>2, <3>3 DEF TitleOK
  <2>8. CanDrive(s)
    BY <2>3, <2>5 DEF CanDrive
  <2>9. coordinated => TitlePublished(s, published)
    BY <2>5 DEF TitleInv, TitlePublished
  <2>10. published \in 0..Records
    BY DEF TitleInv
  <2>11. DrivenWell(x, coordinated)
    BY <2>5, <2>6, <2>7, <2>8, <2>9, <2>10 DEF DrivenWell
  <2>12. n \in Nat
    BY TitleAssumption
  <2>13. DrivenWell(y, coordinated)
    <3> HIDE DEF coordinated
    <3>1. QED
      BY <2>2, <2>11, <2>12, TitleDrivenWell
  <2>14. /\ TitleOK(title') /\ title'.owned /\ published' \in 0..Records
         /\ CanDrive(title') \/ title'.state = "descriptor_loop_complete"
         /\ via = "coordinator" => TitlePublished(title', published')
    BY <2>2, <2>13 DEF DrivenWell
  <2>15. TitleOK(title)'
    BY <2>14 DEF TitleOK, PassesAreMade, LoopCounts, LibraryIsIn, FirstPass
  <2>16. OwnedLoopGoesOn'
    BY <2>14 DEF OwnedLoopGoesOn, CanDrive
  <2>17. QED
    BY <2>3, <2>14, <2>15, <2>16 DEF TitleInv, TitlePublished
<1>5. CASE LoopCaller
  <2> DEFINE e == "descriptor_loop_wait_private_interrupt"
  <2>1. /\ title.owned /\ title' = [title EXCEPT !.state = e]
        /\ published' = published /\ via' = via
    BY <1>5 DEF LoopCaller
  <2>2. title.state \in TitleLoopStates /\ e \in TitlePlainLoop
    BY <1>1, <2>1, TitleOwnedInLoop DEF TitlePlainLoop
  <2>3. TitleLoopKept(title, [title EXCEPT !.state = e])
    BY <1>1, <2>2, TitlePlaceStays
  <2>4. TitleOK(title') /\ title'.mode = title.mode
    BY <2>1, <2>3 DEF TitleLoopKept
  <2>5. title'.iter = title.iter /\ title'.state = e
    BY <1>1, <2>1 DEF Sessions
  <2>6. TitleOK(title)' /\ OwnedLoopGoesOn'
    BY <2>4, <2>5 DEF OwnedLoopGoesOn, TitleOK, PassesAreMade, LoopCounts, LibraryIsIn, FirstPass
  <2>7. QED
    BY <2>1, <2>4, <2>5, <2>6 DEF TitleInv, TitlePublished
<1>6. CASE ConsumeNextPair
  <2>1. /\ via = "direct" /\ title.state = "next_loop_far_read" /\ ~title.owned
        /\ title' = [title EXCEPT !.state = "next_loop_stream_byte", !.dx = RecordBytes - 3]
        /\ published' = published /\ via' = via
    BY <1>6 DEF ConsumeNextPair
  <2>2. title.state \in TitleLoopStates /\ "next_loop_stream_byte" \in TitlePlainLoop
    BY <2>1 DEF TitleLoopStates, TitlePlainLoop
  <2>3. "next_loop_stream_byte" \in TitleStates /\ RecordBytes - 3 \in 0..(WordSize - 1)
    BY <2>2, TitleLoopStatesHere, TitleAssumption DEF TitleLoopStates
  <2>4. /\ LoopOnly(title, title') /\ title'.state = "next_loop_stream_byte"
        /\ title'.iter = title.iter
    BY <1>1, <2>1, <2>3 DEF LoopOnly, Sessions
  <2>5. title.iter > 0
    BY <1>1, <2>2, TitleInLoop
  <2>6. TitleLoopKept(title, title')
    BY <1>1, <2>2, <2>4, <2>5, TitlePlainStays
  <2>7. TitleAnswersWell(title, title')
    BY <2>6 DEF TitleLoopKept, TitleAnswersWell
  <2>8. QED
    BY <2>1, <2>7, TitleUnownedStep
<1>7. CASE ConsumeModeTwoHeader
  <2> DEFINE s == [title EXCEPT !.state = "mode_two_header_word"]
  <2>1. /\ via = "direct" /\ title.state = "mode_two_header_byte" /\ ~title.owned
        /\ title' \in HeaderWord(s) /\ published' = published /\ via' = via
    BY <1>7 DEF ConsumeModeTwoHeader
  <2>2. title.state \in TitleLoopStates /\ "mode_two_header_word" \in TitlePlainLoop
    BY <2>1 DEF TitleLoopStates, TitlePlainLoop
  <2>3. TitleLoopKept(title, s)
    BY <1>1, <2>2, TitlePlaceStays
  <2> HIDE DEF s
  <2>4. TitleLoopKept(s, title')
    BY <2>1, <2>3, TitleHeaderWordStays DEF TitleLoopKept
  <2>5. TitleAnswersWell(title, title')
    BY <2>3, <2>4 DEF TitleLoopKept, TitleAnswersWell
  <2>6. QED
    BY <2>1, <2>5, TitleUnownedStep
<1>8. CASE DriveModeTwo
  <2>1. PICK n \in 1..Quantum : \E u \in ModeTwoDriven(title, n) :
          title' = u /\ published' = Pointers(title, u, published)
    BY <1>8 DEF DriveModeTwo
  <2>2. /\ title' \in ModeTwoDriven(title, n)
        /\ published' = Pointers(title, title', published)
    BY <2>1
  <2>3. n \in Nat /\ via' = via
    BY <1>8, TitleAssumption DEF DriveModeTwo
  <2>4. TitleMoves(title, title') /\ (title.owned => title' = title)
    BY <1>1, <2>2, <2>3, TitleModeTwoDriven
  <2>5. TitleAnswersWell(title, title')
    BY <2>4 DEF TitleMoves, TitleAnswersWell
  <2>6. CASE title.owned
    <3>1. title' = title /\ published' = published
      BY <2>2, <2>4, <2>6 DEF Pointers
    <3>2. QED
      BY <2>3, <3>1 DEF TitleInv, TitleOK, PassesAreMade, LoopCounts, LibraryIsIn, FirstPass,
                        OwnedLoopGoesOn, CanDrive, TitlePublished
  <2>7. CASE ~title.owned
    BY <2>2, <2>3, <2>5, <2>7, TitleUnownedStep
  <2>8. QED
    BY <2>6, <2>7
<1>9. QED
  BY <1>2, <1>3, <1>4, <1>5, <1>6, <1>7, <1>8 DEF TitleStep

LEMMA SessionsAreTitles == [SessionsNext]_sessionVars => [TitleStep]_titleVars
BY DEF SessionsNext, sessionVars, DosTitleStep, TitleStageStep, MainStageStep,
       AtariSessionStep, GameSessionStep, DriverStep, BootstrapStep, LoaderStep

LEMMA TitleInvNext == TitleInv /\ [TitleStep]_titleVars => TitleInv'
<1> SUFFICES ASSUME TitleInv, UNCHANGED titleVars PROVE TitleInv'
  BY TitleInvStep
<1>1. title' = title /\ published' = published /\ via' = via
  BY DEF titleVars
<1>2. QED
  BY <1>1 DEF TitleInv, TitleOK, PassesAreMade, LoopCounts, LibraryIsIn, FirstPass,
              OwnedLoopGoesOn, CanDrive, TitlePublished

(* The inductive invariant of the DOS title program.                       *)
THEOREM TitleInvariant == SessionsSpec => []TitleInv
<1>1. SessionsInit => TitleInv
  BY TitleInvInit DEF SessionsInit
<1>2. QED
  BY <1>1, SessionsAreTitles, TitleInvNext, PTL DEF SessionsSpec

(* A loop that a drive took over never stands where no drive goes on, its  *)
(* pointers are published as far as it has come, and it begins only with   *)
(* the library and both palette passes behind it                           *)
(* (MillenniumDosTitleInitializationSession): for any number of records,   *)
(* registers and reads, any picture and any length of a drive.             *)
THEOREM OwnedLoopIsSoundHolds == SessionsSpec => []OwnedLoopIsSound
BY TitleInvariant, TitleInvSays, PTL

(* No count of the title program passes its end: palette results, library  *)
(* reads, descriptors, columns and the decoder's remaining bytes.          *)
THEOREM TitleTypeHolds == SessionsSpec => []TitleTypeOK
BY TitleInvariant, TitleInvSays, PTL
-----------------------------------------------------------------------------
(* The title batches.  The places before the load service count nothing    *)
(* but the chips' writes; after the table's word the commands are loaded,  *)
(* and each counting place has the bound of its own count.                 *)
BatchEntryPlaces ==
  {"local_prefix", "exec_first", "exec_second", "open_library", "spin_1edf6",
   "post_open_library", "display_base", "callback", "first_service", "second_service",
   "third_service", "spin_2073a", "fourth_service", "fifth_service", "controller_seed",
   "batch_graphics", "runtime_word", "graphics_first", "graphics_second", "graphics_third",
   "tail_graphics", "tail_copy_words", "tail_selection", "tail_second",
   "repeated_selection", "repeated_graphics", "repeated_wrapper", "source_table", "tail_exec"}

BatchLoadPlaces ==
  {"chip_write", "load_call", "load_status", "load_failed", "load_service", "selector",
   "retry_389a6", "copy", "table_base"}

BatchPlainPlaces ==
  {"table_word", "opcode", "pointer_route", "operand_byte", "pointer_long", "eight_pointer",
   "eight_mode", "eight_scale", "two_mode", "two_operands", "two_long", "repeat_bytes",
   "call_return", "planar", "high_first_byte", "high_first_call", "high_second_byte",
   "high_second_call", "pointer_done", "graphics_return", "first_dispatch",
   "dispatch_header", "first_packet", "first_decode", "first_tail", "first_merge",
   "second_dispatch", "second_decode", "second_merge", "service_prefix", "route_first",
   "route_second", "route_third", "nested_words", "continuation", "pointer_chain",
   "dispatch_destination", "selected_stream", "descriptor_byte", "other_descriptor",
   "adjusted_dispatch", "caller_pointer", "object_gate", "null_pointer_20cb8",
   "first_helper", "second_helper", "rts_frame", "repeated_words", "caller_indirect",
   "indirect_return", "return_37180", "mode_return", "return_222c0", "timer_state",
   "return_4069a", "join_byte", "return_1f9a4", "return_1fe88", "zero_join", "final_gate",
   "tail_copy", "input_return", "repeated_input", "loop_40574", "tail_subroutine",
   "initial_service"}

BatchNestedPlaces == {"nested_call", "nested_loop", "repeated_call", "repeated_loop"}
BatchDescriptorPlaces == {"descriptor_call", "descriptor_loop"}
BatchTailPlaces == {"tail_call", "tail_compare", "controller_long", "profile_two"}
BatchCountPlaces ==
  {"repeat_call"} \cup BatchNestedPlaces \cup BatchDescriptorPlaces \cup BatchTailPlaces

(* The reads, the copy and what it leaves for the commands.                *)
BatchIsLoaded(b) ==
  \/ b.selector = "copy" /\ b.done = CopyLongs
  \/ b.selector = "one" /\ caller = "session" /\ b.done = 0

LoadGoesOn(b) ==
  /\ b.at \in BatchEntryPlaces \cup {"retry_389a6"} => b.done = 0
  /\ b.at = "chip_write" => b.done < ChipWrites
  /\ b.at \in {"load_call", "load_status"} => b.done < Chunks
  /\ b.at = "load_failed" => b.done <= Chunks
  /\ b.at \in {"load_service", "selector"} => b.done = Chunks
  /\ b.at = "copy" => b.selector = "copy" /\ b.done < CopyLongs
  /\ b.at = "table_base" =>
       \/ b.selector = "copy" /\ b.done = CopyLongs
       \/ b.selector = "one" /\ b.done = 0
  /\ b.at \in BatchPlainPlaces \cup BatchCountPlaces => BatchIsLoaded(b)

(* The passes, repeats and calls still to make.                            *)
PassesGoOn(b) ==
  /\ b.at \in BatchEntryPlaces \cup BatchLoadPlaces \cup BatchPlainPlaces => b.left = 0
  /\ b.at = "repeat_call" => b.left \in 1..Repeats
  /\ b.at \in BatchNestedPlaces => b.left <= NestedPasses
  /\ b.at \in BatchDescriptorPlaces => b.left < DescriptorPasses /\ b.stream \in Streams
  /\ b.at = "tail_call" => b.left < TailCalls
  /\ b.at = "tail_compare" => b.left = 3
  /\ b.at \in {"controller_long", "profile_two"} => b.left = TailCalls

BatchOK(b) == b \in Batches /\ LoadGoesOn(b) /\ PassesGoOn(b)

LEMMA BatchPlacesHere ==
  BatchEntryPlaces \cup BatchLoadPlaces \cup BatchPlainPlaces \cup BatchCountPlaces \subseteq BatchPlaces
<1>1. BatchEntryPlaces \cup BatchLoadPlaces \subseteq BatchPlaces
  <2>1. {"exec_first", "exec_second"} \subseteq Sources(ExecEdges)
    BY DEF ExecEdges, Sources
  <2>2. {"callback", "first_service", "second_service", "fourth_service", "fifth_service"}
          \subseteq Sources(ServiceEdges)
    BY DEF ServiceEdges, Sources
  <2>3. {"local_prefix", "post_open_library", "controller_seed"} \subseteq Sources(LocalEdges)
    <3>1. /\ <<"local_prefix", "exec_first">> \in LocalEdges
          /\ <<"post_open_library", "display_base">> \in LocalEdges
          /\ <<"controller_seed", "batch_graphics">> \in LocalEdges
      BY DEF LocalEdges
    <3>2. QED
      BY <3>1 DEF Sources
  <2>4. {"batch_graphics", "runtime_word", "graphics_first", "graphics_second",
         "graphics_third", "tail_graphics", "tail_copy_words", "tail_selection", "tail_second",
         "repeated_selection", "repeated_graphics", "repeated_wrapper", "source_table",
         "tail_exec"} \subseteq Sources(PictureEdges)
    BY DEF PictureEdges, GraphicsEdges, TailEdges, TailReturnEdges, Sources
  <2>5. {"open_library", "spin_1edf6", "display_base", "third_service", "spin_2073a"}
          \cup BatchLoadPlaces \subseteq BatchPlaces
    BY DEF BatchLoadPlaces, BatchPlaces
  <2>6. QED
    BY <2>1, <2>2, <2>3, <2>4, <2>5 DEF BatchEntryPlaces, BatchPlaces
<1>2. BatchPlainPlaces \subseteq BatchPlaces
  BY DEF BatchPlainPlaces, BatchPlaces, CommandEdges, TwoOperandEdges, HighEdges, AnswerEdges,
         LocalEdges, FirstDispatchAnswers, ServiceRouteAnswers, ChainAnswers, AdjustedAnswers,
         LoopEntryAnswers, JoinAnswers, TailCopyAnswers, FirstDispatchLocal,
         SecondDispatchLocal, ServiceRouteLocal, IndirectLocal, TailLocal, Sources
<1>3. BatchCountPlaces \subseteq BatchPlaces
  BY DEF BatchCountPlaces, BatchNestedPlaces, BatchDescriptorPlaces, BatchTailPlaces, BatchPlaces
<1>4. QED
  BY <1>1, <1>2, <1>3

LEMMA BatchPlacesApart ==
  ASSUME NEW a
  PROVE  /\ a \in BatchEntryPlaces =>
              a \notin BatchLoadPlaces /\ a \notin BatchPlainPlaces /\ a \notin BatchCountPlaces
         /\ a \in BatchLoadPlaces => a \notin BatchPlainPlaces /\ a \notin BatchCountPlaces
         /\ a \in BatchPlainPlaces => a \notin BatchCountPlaces
BY DEF BatchEntryPlaces, BatchLoadPlaces, BatchPlainPlaces, BatchCountPlaces, BatchNestedPlaces,
       BatchDescriptorPlaces, BatchTailPlaces

LEMMA BatchEntryEdges ==
  ASSUME NEW p, NEW a \in EdgeEnds(ExecEdges \cup ServiceEdges, p)
  PROVE  p \in BatchEntryPlaces /\ a \in BatchEntryPlaces
BY DEF EdgeEnds, ExecEdges, ServiceEdges, BatchEntryPlaces

LEMMA BatchPictureEdges ==
  ASSUME NEW p, NEW a \in EdgeEnds(PictureEdges, p)
  PROVE  p \in BatchEntryPlaces /\ (a \in BatchEntryPlaces \/ a = "load_call")
BY DEF EdgeEnds, PictureEdges, GraphicsEdges, TailEdges, TailReturnEdges, BatchEntryPlaces

LEMMA BatchCommandEdges ==
  ASSUME NEW p, NEW a \in EdgeEnds(CommandEdges, p) \cup EdgeEnds(TwoOperandEdges, p)
                            \cup EdgeEnds(HighEdges, p)
  PROVE  p \in BatchPlainPlaces /\ a \in BatchPlainPlaces
BY DEF EdgeEnds, CommandEdges, TwoOperandEdges, HighEdges, BatchPlainPlaces

LEMMA BatchAnswerEdges ==
  ASSUME NEW p, NEW a \in EdgeEnds(AnswerEdges, p)
  PROVE  p \in BatchPlainPlaces /\ (a \in BatchPlainPlaces \/ a = "tail_call")
BY DEF EdgeEnds, AnswerEdges, FirstDispatchAnswers, ServiceRouteAnswers, ChainAnswers,
       AdjustedAnswers, LoopEntryAnswers, JoinAnswers, TailCopyAnswers, BatchPlainPlaces

LEMMA BatchLocalEdges ==
  ASSUME NEW p, NEW a \in EdgeEnds(LocalEdges, p)
  PROVE  \/ p \in BatchEntryPlaces /\ a \in BatchEntryPlaces
         \/ p \in BatchPlainPlaces /\ a \in BatchPlainPlaces
BY DEF EdgeEnds, LocalEdges, FirstDispatchLocal, SecondDispatchLocal, ServiceRouteLocal,
       IndirectLocal, TailLocal, BatchEntryPlaces, BatchPlainPlaces

(* Before the load a place may be changed for another.                     *)
LEMMA BatchEntryStays ==
  ASSUME NEW b, BatchOK(b), b.at \in BatchEntryPlaces,
         NEW a \in BatchEntryPlaces \cup {"chip_write", "load_call"}
  PROVE  BatchOK([b EXCEPT !.at = a])
<1> DEFINE u == [b EXCEPT !.at = a]
<1>1. b \in Batches /\ LoadGoesOn(b) /\ PassesGoOn(b)
  BY DEF BatchOK
<1>2. a \in BatchPlaces
  BY BatchPlacesHere DEF BatchLoadPlaces
<1>3. u \in Batches /\ u.at = a /\ u.done = b.done /\ u.left = b.left
  BY <1>1, <1>2 DEF Batches
<1> HIDE DEF u
<1>4. u.done = 0 /\ u.left = 0
  BY <1>1, <1>3 DEF LoadGoesOn, PassesGoOn
<1>5. Chunks \in Nat \ {0} /\ ChipWrites = 4
  BY BatchAssumption DEF ChipWrites
<1>6. a \in BatchEntryPlaces \cup BatchLoadPlaces /\ a \notin BatchPlainPlaces
        /\ a \notin BatchCountPlaces
  BY BatchPlacesApart DEF BatchLoadPlaces
<1>7. a # "copy" /\ a # "table_base" /\ a # "load_service" /\ a # "selector"
  BY DEF BatchEntryPlaces
<1>8. LoadGoesOn(u)
  BY <1>3, <1>4, <1>5, <1>6, <1>7 DEF LoadGoesOn
<1>9. PassesGoOn(u)
  BY <1>3, <1>4, <1>6 DEF PassesGoOn, BatchCountPlaces, BatchTailPlaces
<1>10. QED
  BY <1>3, <1>8, <1>9 DEF BatchOK, u

(* After the table's word the reads and the copy stay as they were.        *)
BatchOnward(b, u) ==
  /\ u \in Batches /\ u.done = b.done /\ u.selector = b.selector
  /\ u.at \in BatchPlainPlaces \cup BatchCountPlaces

LEMMA BatchOnwardStays ==
  ASSUME NEW b, BatchOK(b), b.at \in BatchPlainPlaces \cup BatchCountPlaces,
         NEW u, BatchOnward(b, u), PassesGoOn(u)
  PROVE  BatchOK(u)
<1>1. BatchIsLoaded(u)
  BY DEF BatchOK, LoadGoesOn, BatchIsLoaded, BatchOnward
<1>2. u.at \notin BatchEntryPlaces /\ u.at \notin BatchLoadPlaces
  BY BatchPlacesApart DEF BatchOnward
<1>3. LoadGoesOn(u)
  BY <1>1, <1>2 DEF LoadGoesOn, BatchLoadPlaces
<1>4. QED
  BY <1>3 DEF BatchOK, BatchOnward

LEMMA BatchPlainStays ==
  ASSUME NEW b, BatchOK(b), b.at \in BatchPlainPlaces,
         NEW a \in BatchPlainPlaces \cup {"tail_call"}
  PROVE  BatchOK([b EXCEPT !.at = a])
<1> DEFINE u == [b EXCEPT !.at = a]
<1>1. b \in Batches /\ b.left = 0
  BY DEF BatchOK, PassesGoOn
<1>2. a \in BatchPlaces /\ a \in BatchPlainPlaces \cup BatchCountPlaces
  BY BatchPlacesHere DEF BatchCountPlaces, BatchTailPlaces
<1>3. BatchOnward(b, u) /\ u.at = a /\ u.left = 0
  BY <1>1, <1>2 DEF Batches, BatchOnward
<1> HIDE DEF u
<1>4. PassesGoOn(u)
  <2>1. CASE a = "tail_call"
    BY <1>3, <2>1 DEF PassesGoOn, TailCalls, BatchEntryPlaces, BatchLoadPlaces,
       BatchNestedPlaces, BatchDescriptorPlaces
  <2>2. CASE a \in BatchPlainPlaces
    BY <1>3, <2>2, BatchPlacesApart DEF PassesGoOn, BatchCountPlaces, BatchTailPlaces
  <2>3. QED
    BY <2>1, <2>2
<1>5. BatchOK(u)
  BY <1>3, <1>4, BatchOnwardStays
<1>6. QED
  BY <1>5 DEF u

(* A move to an entry or load place counts no passes.                      *)
LEMMA BatchLoadStays ==
  ASSUME NEW b, BatchOK(b), b.at \in BatchEntryPlaces \cup BatchLoadPlaces,
         NEW u, u \in Batches, u.left = b.left, u.at \in BatchEntryPlaces \cup BatchLoadPlaces,
         LoadGoesOn(u)
  PROVE  BatchOK(u)
<1>1. u.left = 0
  BY DEF BatchOK, PassesGoOn
<1>2. u.at \notin BatchPlainPlaces /\ u.at \notin BatchCountPlaces
  BY BatchPlacesApart
<1>3. PassesGoOn(u)
  BY <1>1, <1>2 DEF PassesGoOn, BatchCountPlaces, BatchTailPlaces
<1>4. QED
  BY <1>3 DEF BatchOK

LEMMA BatchLibraryKeeps ==
  ASSUME NEW b, BatchOK(b), b.at = "open_library", NEW u \in LibraryOpened(b)
  PROVE  BatchOK(u)
<1>1. b.at \in BatchEntryPlaces
  BY DEF BatchEntryPlaces
<1>2. PICK a \in {"spin_1edf6", "post_open_library"} : u = [b EXCEPT !.at = a]
  BY DEF LibraryOpened
<1>3. a \in BatchEntryPlaces
  BY DEF BatchEntryPlaces
<1>4. QED
  BY <1>1, <1>2, <1>3, BatchEntryStays

LEMMA BatchChipKeeps ==
  ASSUME NEW b, BatchOK(b), b.at = "chip_write", NEW u \in ChipWrite(b)
  PROVE  BatchOK(u)
<1>1. b \in Batches /\ b.done \in Nat /\ b.done < 4 /\ b.at \in BatchLoadPlaces
  BY DEF BatchOK, LoadGoesOn, Batches, ChipWrites, BatchLoadPlaces
<1>2. u = [b EXCEPT !.done = (b.done + 1) % 4, !.at = IF b.done + 1 = 4 THEN "callback" ELSE b.at]
  BY DEF ChipWrite, ChipWrites
<1>3. "callback" \in BatchEntryPlaces /\ "callback" \in BatchPlaces
  BY BatchPlacesHere DEF BatchEntryPlaces
<1>4. CASE b.done = 3
  <2>1. (b.done + 1) % 4 = 0
    BY <1>4
  <2>2. u \in Batches /\ u.left = b.left /\ u.done = 0 /\ u.at = "callback"
    <3>1. u = [b EXCEPT !.done = 0, !.at = "callback"]
      BY <1>2, <1>4, <2>1
    <3>2. QED
      BY <1>1, <1>3, <3>1 DEF Batches
  <2>3. LoadGoesOn(u)
    BY <2>2, <1>3, BatchPlacesApart DEF LoadGoesOn, BatchLoadPlaces
  <2>4. QED
    BY <1>1, <1>3, <2>2, <2>3, BatchLoadStays
<1>5. CASE b.done # 3
  <2>1. (b.done + 1) % 4 = b.done + 1 /\ b.done + 1 < 4
    BY <1>1, <1>5
  <2>2. u \in Batches /\ u.left = b.left /\ u.done < 4 /\ u.at = "chip_write"
    <3>1. u = [b EXCEPT !.done = b.done + 1, !.at = "chip_write"]
      <4>1. b.done + 1 # 4
        BY <1>1, <1>5
      <4>2. QED
        BY <1>2, <2>1, <4>1, b.at = "chip_write"
    <3>2. "chip_write" \in BatchPlaces
      BY DEF BatchPlaces
    <3>3. PICK n \in Nat : n = b.done + 1 /\ n < 4
      BY <1>1, <2>1
    <3>4. u = [b EXCEPT !.done = n, !.at = "chip_write"]
      BY <3>1, <3>3
    <3>5. QED
      BY <1>1, <3>2, <3>3, <3>4 DEF Batches
  <2>3. u.at \in BatchLoadPlaces
    BY <2>2 DEF BatchLoadPlaces
  <2>4. LoadGoesOn(u)
    BY <2>2, <2>3, BatchPlacesApart DEF LoadGoesOn, BatchLoadPlaces, ChipWrites
  <2>5. QED
    BY <1>1, <2>2, <2>3, <2>4, BatchLoadStays
<1>6. QED
  BY <1>4, <1>5

LEMMA BatchThirdServiceKeeps ==
  ASSUME NEW b, BatchOK(b), b.at = "third_service", NEW u \in ThirdService(b)
  PROVE  BatchOK(u)
<1>1. b.at \in BatchEntryPlaces
  BY DEF BatchEntryPlaces
<1>2. PICK a \in {"spin_2073a", "fourth_service"} : u = [b EXCEPT !.at = a]
  BY DEF ThirdService
<1>3. a \in BatchEntryPlaces
  BY DEF BatchEntryPlaces
<1>4. QED
  BY <1>1, <1>2, <1>3, BatchEntryStays

LEMMA BatchEntryKeeps ==
  ASSUME NEW b, BatchOK(b), NEW u \in EntryAnswers(b)
  PROVE  BatchOK(u)
<1>1. CASE b.at = "open_library"
  BY <1>1, BatchLibraryKeeps DEF EntryAnswers
<1>2. CASE b.at = "display_base"
  <2>1. u = [b EXCEPT !.at = "chip_write"] /\ b.at \in BatchEntryPlaces
    BY <1>2 DEF EntryAnswers, BatchEntryPlaces
  <2>2. QED
    BY <2>1, BatchEntryStays
<1>3. CASE b.at = "chip_write"
  BY <1>3, BatchChipKeeps DEF EntryAnswers
<1>4. CASE b.at = "third_service"
  BY <1>4, BatchThirdServiceKeeps DEF EntryAnswers
<1>5. CASE b.at \notin {"open_library", "display_base", "chip_write", "third_service"}
  <2>1. PICK a \in EdgeEnds(ExecEdges \cup ServiceEdges, b.at) : u = [b EXCEPT !.at = a]
    BY <1>5 DEF EntryAnswers, EdgeSteps
  <2>2. b.at \in BatchEntryPlaces /\ a \in BatchEntryPlaces
    BY BatchEntryEdges
  <2>3. QED
    BY <2>1, <2>2, BatchEntryStays
<1>6. QED
  BY <1>1, <1>2, <1>3, <1>4, <1>5

LEMMA BatchPictureKeeps ==
  ASSUME NEW b, BatchOK(b), NEW u \in PictureAnswers(b)
  PROVE  BatchOK(u)
<1>1. PICK a \in EdgeEnds(PictureEdges, b.at) : u = [b EXCEPT !.at = a]
  BY DEF PictureAnswers, EdgeSteps
<1>2. b.at \in BatchEntryPlaces /\ (a \in BatchEntryPlaces \/ a = "load_call")
  BY BatchPictureEdges
<1>3. QED
  BY <1>1, <1>2, BatchEntryStays

-----------------------------------------------------------------------------
(* The load service: its places count the reads, then the longs copied.    *)
LEMMA BatchLoadCallKeeps ==
  ASSUME NEW b, BatchOK(b), NEW u \in LoadCall(b)
  PROVE  BatchOK(u)
<1>1. b.at = "load_call" /\ b \in Batches /\ b.done \in Nat /\ b.done < Chunks
  BY DEF BatchOK, LoadGoesOn, Batches, LoadCall
<1>2. PICK a \in {"load_status", "load_failed"} : u = [b EXCEPT !.at = a]
  BY <1>1 DEF LoadCall
<1>3. a \in BatchPlaces /\ a \in BatchLoadPlaces /\ b.at \in BatchLoadPlaces
  BY <1>1 DEF BatchPlaces, BatchLoadPlaces
<1>4. u \in Batches /\ u.at = a /\ u.done = b.done /\ u.left = b.left
  BY <1>1, <1>2, <1>3 DEF Batches
<1>5. Chunks \in Nat
  BY BatchAssumption
<1>6. LoadGoesOn(u)
  BY <1>1, <1>3, <1>4, <1>5, BatchPlacesApart DEF LoadGoesOn
<1>7. QED
  BY <1>3, <1>4, <1>6, BatchLoadStays

LEMMA BatchLoadStatusKeeps ==
  ASSUME NEW b, BatchOK(b), NEW u \in LoadStatus(b)
  PROVE  BatchOK(u)
<1>1. b.at = "load_status" /\ b \in Batches /\ b.done \in Nat /\ b.done < Chunks
  BY DEF BatchOK, LoadGoesOn, Batches, LoadStatus
<1>2. Chunks \in Nat /\ b.at \in BatchLoadPlaces
  BY <1>1, BatchAssumption DEF BatchLoadPlaces
<1>3. PICK n \in Nat : n = b.done + 1 /\ n <= Chunks
  BY <1>1, <1>2
<1>4. \/ u = [b EXCEPT !.at = "load_failed"]
      \/ n = Chunks /\ u = [b EXCEPT !.done = n, !.at = "load_service"]
      \/ n # Chunks /\ u = [b EXCEPT !.done = n, !.at = "load_call"]
  BY <1>1, <1>3 DEF LoadStatus
<1>5. {"load_failed", "load_service", "load_call"} \subseteq BatchPlaces
  BY DEF BatchPlaces
<1>6. /\ u \in Batches /\ u.left = b.left
      /\ \/ u.at = "load_failed" /\ u.done = b.done
         \/ u.at = "load_service" /\ u.done = Chunks
         \/ u.at = "load_call" /\ u.done = n /\ n # Chunks
  BY <1>1, <1>3, <1>4, <1>5 DEF Batches
<1>7. u.at \in BatchLoadPlaces
  BY <1>6 DEF BatchLoadPlaces
<1>8. LoadGoesOn(u)
  BY <1>1, <1>2, <1>3, <1>6, <1>7, BatchPlacesApart DEF LoadGoesOn
<1>9. QED
  BY <1>2, <1>6, <1>7, <1>8, BatchLoadStays

LEMMA BatchLoadServiceKeeps ==
  ASSUME NEW b, BatchOK(b), NEW u \in LoadService(b)
  PROVE  BatchOK(u)
<1>1. b.at = "load_service" /\ b \in Batches /\ b.done = Chunks
  BY DEF BatchOK, LoadGoesOn, LoadService
<1>2. u = [b EXCEPT !.at = "selector"]
  BY <1>1 DEF LoadService
<1>3. b.at \in BatchLoadPlaces /\ "selector" \in BatchLoadPlaces /\ "selector" \in BatchPlaces
  BY <1>1 DEF BatchPlaces, BatchLoadPlaces
<1>4. u \in Batches /\ u.at = "selector" /\ u.done = Chunks /\ u.left = b.left
  BY <1>1, <1>2, <1>3 DEF Batches
<1>5. LoadGoesOn(u)
  BY <1>3, <1>4, BatchPlacesApart DEF LoadGoesOn
<1>6. QED
  BY <1>3, <1>4, <1>5, BatchLoadStays

LEMMA BatchSelectorKeeps ==
  ASSUME NEW b, BatchOK(b), NEW u \in LoadSelector(b)
  PROVE  BatchOK(u)
<1>1. b.at = "selector" /\ b \in Batches
  BY DEF BatchOK, LoadSelector
<1>2. PICK s \in {<<"zero", "retry_389a6">>, <<"one", "table_base">>, <<"copy", "copy">>} :
        u = [b EXCEPT !.selector = s[1], !.at = s[2], !.behind = TRUE, !.done = 0]
  BY <1>1 DEF LoadSelector
<1>3. {"retry_389a6", "table_base", "copy"} \subseteq BatchPlaces /\ CopyLongs \in Nat \ {0}
  BY BatchAssumption DEF BatchPlaces
<1>4. /\ u \in Batches /\ u.left = b.left /\ u.done = 0
      /\ \/ u.at = "retry_389a6" /\ u.selector = "zero"
         \/ u.at = "table_base" /\ u.selector = "one"
         \/ u.at = "copy" /\ u.selector = "copy"
  <2>1. CASE s = <<"zero", "retry_389a6">>
    <3>1. u = [b EXCEPT !.selector = "zero", !.at = "retry_389a6", !.behind = TRUE, !.done = 0]
      BY <1>2, <2>1
    <3>2. QED
      BY <1>1, <1>3, <3>1 DEF Batches
  <2>2. CASE s = <<"one", "table_base">>
    <3>1. u = [b EXCEPT !.selector = "one", !.at = "table_base", !.behind = TRUE, !.done = 0]
      BY <1>2, <2>2
    <3>2. QED
      BY <1>1, <1>3, <3>1 DEF Batches
  <2>3. CASE s = <<"copy", "copy">>
    <3>1. u = [b EXCEPT !.selector = "copy", !.at = "copy", !.behind = TRUE, !.done = 0]
      BY <1>2, <2>3
    <3>2. QED
      BY <1>1, <1>3, <3>1 DEF Batches
  <2>4. QED
    BY <1>2, <2>1, <2>2, <2>3
<1>5. u.at \in BatchLoadPlaces /\ b.at \in BatchLoadPlaces
  BY <1>1, <1>4 DEF BatchLoadPlaces
<1>6. LoadGoesOn(u)
  BY <1>3, <1>4, <1>5, BatchPlacesApart DEF LoadGoesOn
<1>7. QED
  BY <1>4, <1>5, <1>6, BatchLoadStays

LEMMA BatchCopyKeeps ==
  ASSUME NEW b, BatchOK(b), NEW u \in CopyChunk(b)
  PROVE  BatchOK(u)
<1>1. b.at = "copy" /\ b \in Batches /\ b.selector = "copy" /\ b.done \in Nat
  BY DEF BatchOK, LoadGoesOn, CopyChunk, Batches
<1>2. CopyLongs \in Nat
  BY BatchAssumption
<1>3. PICK n \in (b.done + 1)..CopyLongs :
        u = [b EXCEPT !.done = n, !.at = IF n = CopyLongs THEN "table_base" ELSE b.at]
  BY <1>1 DEF CopyChunk
<1>4. n \in Nat /\ n <= CopyLongs
  BY <1>1, <1>2
<1>5. \/ n = CopyLongs /\ u = [b EXCEPT !.done = n, !.at = "table_base"]
      \/ n # CopyLongs /\ u = [b EXCEPT !.done = n, !.at = "copy"]
  BY <1>1, <1>3
<1>6. {"table_base", "copy"} \subseteq BatchPlaces
  BY DEF BatchPlaces
<1>7. /\ u \in Batches /\ u.left = b.left /\ u.done = n /\ u.selector = "copy"
      /\ \/ u.at = "table_base" /\ n = CopyLongs
         \/ u.at = "copy" /\ n # CopyLongs
  BY <1>1, <1>4, <1>5, <1>6 DEF Batches
<1>8. u.at \in BatchLoadPlaces /\ b.at \in BatchLoadPlaces
  BY <1>1, <1>7 DEF BatchLoadPlaces
<1>9. LoadGoesOn(u)
  BY <1>2, <1>4, <1>7, <1>8, BatchPlacesApart DEF LoadGoesOn
<1>10. QED
  BY <1>7, <1>8, <1>9, BatchLoadStays

LEMMA BatchTableBaseKeeps ==
  ASSUME caller \in {"coordinator", "session"}, NEW b, BatchOK(b), NEW u \in TableBase(b)
  PROVE  BatchOK(u)
<1>1. /\ b.at = "table_base" /\ b \in Batches /\ u = [b EXCEPT !.at = "table_word"]
      /\ b.selector = "copy" \/ caller = "session"
  BY DEF BatchOK, TableBase
<1>2. BatchIsLoaded(b) /\ b.left = 0
  BY <1>1 DEF BatchOK, LoadGoesOn, PassesGoOn, BatchIsLoaded, BatchLoadPlaces
<1>3. "table_word" \in BatchPlaces /\ "table_word" \in BatchPlainPlaces
  BY DEF BatchPlaces, BatchPlainPlaces
<1>4. /\ u \in Batches /\ u.at = "table_word" /\ u.done = b.done /\ u.selector = b.selector
      /\ u.left = b.left
  BY <1>1, <1>3 DEF Batches
<1>5. BatchIsLoaded(u)
  BY <1>2, <1>4 DEF BatchIsLoaded
<1>6. u.at \notin BatchEntryPlaces /\ u.at \notin BatchLoadPlaces /\ u.at \notin BatchCountPlaces
  BY <1>3, <1>4, BatchPlacesApart
<1>7. LoadGoesOn(u)
  BY <1>5, <1>6 DEF LoadGoesOn, BatchLoadPlaces
<1>8. PassesGoOn(u)
  BY <1>2, <1>4, <1>6 DEF PassesGoOn, BatchCountPlaces, BatchTailPlaces
<1>9. QED
  BY <1>4, <1>7, <1>8 DEF BatchOK

LEMMA BatchTableWordKeeps ==
  ASSUME NEW b, BatchOK(b), NEW u \in TableWord(b)
  PROVE  BatchOK(u)
<1>1. b.at = "table_word" /\ u = [b EXCEPT !.at = "opcode"]
  BY DEF TableWord
<1>2. "table_word" \in BatchPlainPlaces /\ "opcode" \in BatchPlainPlaces
  BY DEF BatchPlainPlaces
<1>3. QED
  BY <1>1, <1>2, BatchPlainStays

-----------------------------------------------------------------------------
(* The commands and the routes after them.                                 *)
LEMMA BatchOpcodeKeeps ==
  ASSUME NEW b, BatchOK(b), NEW u \in Opcode(b)
  PROVE  BatchOK(u)
<1>1. b.at = "opcode"
  BY DEF Opcode
<1>2. PICK a \in OpcodeRoutes \cup {"high_first_byte"} : u = [b EXCEPT !.at = a]
  BY <1>1 DEF Opcode
<1>3. a \in BatchPlainPlaces /\ b.at \in BatchPlainPlaces
  BY <1>1 DEF OpcodeRoutes, BatchPlainPlaces
<1>4. QED
  BY <1>2, <1>3, BatchPlainStays

LEMMA BatchEightKeeps ==
  ASSUME NEW b, BatchOK(b), NEW u \in EightMode(b)
  PROVE  BatchOK(u)
<1>1. b.at = "eight_mode"
  BY DEF EightMode
<1>2. PICK a \in {"opcode", "eight_scale"} : u = [b EXCEPT !.at = a]
  BY <1>1 DEF EightMode
<1>3. a \in BatchPlainPlaces /\ b.at \in BatchPlainPlaces
  BY <1>1 DEF BatchPlainPlaces
<1>4. QED
  BY <1>2, <1>3, BatchPlainStays

LEMMA BatchPlanarKeeps ==
  ASSUME NEW b, BatchOK(b),
         NEW u \in PlanarWrite(b) \cup PlanarVariantWrite(b) \cup NegativeService(b)
  PROVE  BatchOK(u)
<1>1. b.at = "planar" /\ u = [b EXCEPT !.at = "opcode"]
  BY DEF PlanarWrite, PlanarVariantWrite, NegativeService
<1>2. b.at \in BatchPlainPlaces /\ "opcode" \in BatchPlainPlaces
  BY <1>1 DEF BatchPlainPlaces
<1>3. QED
  BY <1>1, <1>2, BatchPlainStays

LEMMA BatchCommandEdgesKeep ==
  ASSUME NEW b, BatchOK(b),
         NEW u \in EdgeSteps(CommandEdges, b) \cup EdgeSteps(TwoOperandEdges, b) \cup EdgeSteps(HighEdges, b)
  PROVE  BatchOK(u)
<1>1. PICK a \in EdgeEnds(CommandEdges, b.at) \cup EdgeEnds(TwoOperandEdges, b.at)
                   \cup EdgeEnds(HighEdges, b.at) : u = [b EXCEPT !.at = a]
  BY DEF EdgeSteps
<1>2. b.at \in BatchPlainPlaces /\ a \in BatchPlainPlaces
  BY BatchCommandEdges
<1>3. QED
  BY <1>1, <1>2, BatchPlainStays

LEMMA BatchRepeatBytesKeeps ==
  ASSUME NEW b, BatchOK(b), NEW u \in RepeatBytes(b)
  PROVE  BatchOK(u)
<1>1. b.at = "repeat_bytes" /\ b \in Batches
  BY DEF RepeatBytes, BatchOK
<1>2. PICK n \in 1..Repeats : u = [b EXCEPT !.at = "repeat_call", !.left = n]
  BY <1>1 DEF RepeatBytes
<1>3. Repeats \in Nat /\ n \in Nat
  BY BatchAssumption
<1>4. "repeat_call" \in BatchPlaces /\ "repeat_call" \in BatchCountPlaces /\ b.at \in BatchPlainPlaces
  BY <1>1 DEF BatchPlaces, BatchCountPlaces, BatchPlainPlaces
<1>5. BatchOnward(b, u) /\ u.at = "repeat_call" /\ u.left = n
  BY <1>1, <1>2, <1>3, <1>4 DEF Batches, BatchOnward
<1>6. PassesGoOn(u)
  BY <1>4, <1>5, BatchPlacesApart
     DEF PassesGoOn, BatchNestedPlaces, BatchDescriptorPlaces
<1>7. QED
  BY <1>4, <1>5, <1>6, BatchOnwardStays

LEMMA BatchRepeatCallKeeps ==
  ASSUME NEW b, BatchOK(b), NEW u \in RepeatCall(b)
  PROVE  BatchOK(u)
<1>1. b.at = "repeat_call" /\ b \in Batches /\ b.left \in 1..Repeats
  BY DEF RepeatCall, BatchOK, PassesGoOn
<1>2. Repeats \in Nat /\ b.left \in Nat /\ b.left >= 1 /\ b.left <= Repeats
  BY <1>1, BatchAssumption
<1>3. PICK n \in Nat : n = b.left - 1
  BY <1>2
<1>4. \/ b.left = 1 /\ u = [b EXCEPT !.left = n, !.at = "opcode"]
      \/ b.left # 1 /\ u = [b EXCEPT !.left = n, !.at = "repeat_call"]
  BY <1>1, <1>3 DEF RepeatCall
<1>5. /\ {"opcode", "repeat_call"} \subseteq BatchPlaces
      /\ "opcode" \in BatchPlainPlaces /\ "repeat_call" \in BatchCountPlaces
  BY DEF BatchPlaces, BatchPlainPlaces, BatchCountPlaces
<1>6. /\ BatchOnward(b, u)
      /\ \/ u.at = "opcode" /\ u.left = 0
         \/ u.at = "repeat_call" /\ u.left \in 1..Repeats
  <2>1. CASE b.left = 1
    <3>1. u = [b EXCEPT !.left = 0, !.at = "opcode"]
      BY <1>3, <1>4, <2>1
    <3>2. QED
      BY <1>1, <1>5, <3>1 DEF Batches, BatchOnward
  <2>2. CASE b.left # 1
    <3>1. n \in 1..Repeats /\ u = [b EXCEPT !.left = n, !.at = "repeat_call"]
      BY <1>2, <1>3, <1>4, <2>2
    <3>2. u \in Batches /\ u.at = "repeat_call" /\ u.left = n
      BY <1>1, <1>3, <1>5, <3>1 DEF Batches
    <3>3. u.done = b.done /\ u.selector = b.selector
      BY <1>1, <3>1 DEF Batches
    <3>4. QED
      BY <1>5, <3>1, <3>2, <3>3 DEF BatchOnward
  <2>3. QED
    BY <2>1, <2>2
<1>7. PassesGoOn(u)
  BY <1>5, <1>6, BatchPlacesApart
     DEF PassesGoOn, BatchCountPlaces, BatchNestedPlaces, BatchDescriptorPlaces, BatchTailPlaces
<1>8. QED
  BY <1>1, <1>5, <1>6, <1>7, BatchOnwardStays

LEMMA BatchCommandsKeep ==
  ASSUME NEW b, BatchOK(b), NEW u \in CommandAnswers(b)
  PROVE  BatchOK(u)
<1>1. CASE u \in Opcode(b) \cup EightMode(b)
  BY <1>1, BatchOpcodeKeeps, BatchEightKeeps
<1>2. CASE u \in PlanarWrite(b) \cup PlanarVariantWrite(b) \cup NegativeService(b)
  BY <1>2, BatchPlanarKeeps
<1>3. CASE u \in EdgeSteps(CommandEdges, b) \cup SessionOnly(b)
  BY <1>3, BatchCommandEdgesKeep, BatchRepeatBytesKeeps, BatchRepeatCallKeeps DEF SessionOnly
<1>4. QED
  BY <1>1, <1>2, <1>3 DEF CommandAnswers

(* A move between plain places by a choice of the answer's data.           *)
LEMMA BatchRoutesKeep ==
  ASSUME NEW b, BatchOK(b),
         NEW u \in PointerRoute(b) \cup DescriptorByte(b) \cup CallerPointer(b)
                     \cup TimerState(b) \cup JoinByte(b) \cup FinalGate(b) \cup InputReturn(b)
  PROVE  BatchOK(u)
<1>1. \E a \in {"graphics_return", "pointer_done", "adjusted_dispatch", "other_descriptor",
                "object_gate", "null_pointer_20cb8", "return_4069a", "join_byte",
                "return_1f9a4", "zero_join", "tail_copy", "input_return", "repeated_input",
                "loop_40574"} : u = [b EXCEPT !.at = a]
  BY DEF PointerRoute, DescriptorByte, CallerPointer, TimerState, JoinByte, FinalGate,
         InputReturn
<1>2. PICK a \in BatchPlainPlaces : u = [b EXCEPT !.at = a]
  BY <1>1 DEF BatchPlainPlaces
<1>3. b.at \in {"pointer_route", "descriptor_byte", "caller_pointer", "timer_state",
                "join_byte", "final_gate", "input_return"}
  BY DEF PointerRoute, DescriptorByte, CallerPointer, TimerState, JoinByte, FinalGate,
         InputReturn
<1>4. b.at \in BatchPlainPlaces
  BY <1>3 DEF BatchPlainPlaces
<1>5. QED
  BY <1>2, <1>4, BatchPlainStays

LEMMA BatchAnswerEdgesKeep ==
  ASSUME NEW b, BatchOK(b), NEW u \in EdgeSteps(AnswerEdges, b)
  PROVE  BatchOK(u)
<1>1. PICK a \in EdgeEnds(AnswerEdges, b.at) : u = [b EXCEPT !.at = a]
  BY DEF EdgeSteps
<1>2. b.at \in BatchPlainPlaces /\ (a \in BatchPlainPlaces \/ a = "tail_call")
  BY BatchAnswerEdges
<1>3. QED
  BY <1>1, <1>2, BatchPlainStays

LEMMA BatchLocalEdgesKeep ==
  ASSUME NEW b, BatchOK(b), NEW u \in EdgeSteps(LocalEdges, b)
  PROVE  BatchOK(u)
<1>1. PICK a \in EdgeEnds(LocalEdges, b.at) : u = [b EXCEPT !.at = a]
  BY DEF EdgeSteps
<1>2. \/ b.at \in BatchEntryPlaces /\ a \in BatchEntryPlaces
      \/ b.at \in BatchPlainPlaces /\ a \in BatchPlainPlaces
  BY BatchLocalEdges
<1>3. QED
  BY <1>1, <1>2, BatchPlainStays, BatchEntryStays

-----------------------------------------------------------------------------
(* The nested loops: their passes start at the full count.                 *)
LEMMA BatchNestedStarts ==
  ASSUME NEW b, BatchOK(b), NEW words \in {"nested_words", "repeated_words"},
         NEW asked \in BatchNestedPlaces, NEW turn \in BatchNestedPlaces,
         NEW u \in NestedWords(b, words, asked, turn)
  PROVE  BatchOK(u)
<1>1. b.at = words /\ b \in Batches /\ NestedPasses \in Nat
  BY BatchAssumption DEF NestedWords, BatchOK
<1>2. PICK a \in BatchNestedPlaces : u = [b EXCEPT !.left = NestedPasses, !.at = a]
  BY <1>1 DEF NestedWords
<1>3. a \in BatchCountPlaces /\ a \in BatchPlaces /\ b.at \in BatchPlainPlaces
  BY <1>1, BatchPlacesHere DEF BatchCountPlaces, BatchPlainPlaces
<1>4. BatchOnward(b, u) /\ u.at = a /\ u.left = NestedPasses
  BY <1>1, <1>2, <1>3 DEF Batches, BatchOnward
<1>5. PassesGoOn(u)
  BY <1>1, <1>3, <1>4, BatchPlacesApart
     DEF PassesGoOn, BatchNestedPlaces, BatchDescriptorPlaces
<1>6. QED
  BY <1>3, <1>4, <1>5, BatchOnwardStays

(* A move between their places counts down at most.                        *)
LEMMA BatchNestedStays ==
  ASSUME NEW b, BatchOK(b), b.at \in BatchNestedPlaces,
         NEW a \in BatchNestedPlaces, NEW n \in Nat, n <= b.left
  PROVE  BatchOK([b EXCEPT !.at = a, !.left = n])
<1> DEFINE u == [b EXCEPT !.at = a, !.left = n]
<1>1. b \in Batches /\ b.left \in Nat /\ b.left <= NestedPasses /\ NestedPasses \in Nat
  BY BatchAssumption DEF BatchOK, PassesGoOn, Batches
<1>2. a \in BatchCountPlaces /\ a \in BatchPlaces /\ b.at \in BatchCountPlaces
  BY BatchPlacesHere DEF BatchCountPlaces
<1>3. BatchOnward(b, u) /\ u.at = a /\ u.left = n
  BY <1>1, <1>2 DEF Batches, BatchOnward
<1> HIDE DEF u
<1>4. n <= NestedPasses
  BY <1>1
<1>5. PassesGoOn(u)
  BY <1>2, <1>3, <1>4, BatchPlacesApart
     DEF PassesGoOn, BatchNestedPlaces, BatchDescriptorPlaces
<1>6. BatchOK(u)
  BY <1>2, <1>3, <1>5, BatchOnwardStays
<1>7. QED
  BY <1>6 DEF u

LEMMA BatchNestedCallKeeps ==
  ASSUME NEW b, BatchOK(b), NEW asked \in BatchNestedPlaces, NEW turn \in BatchNestedPlaces,
         NEW u \in NestedCall(b, asked, turn)
  PROVE  BatchOK(u)
<1>1. b.at = asked /\ u = [b EXCEPT !.at = turn] /\ b \in Batches
  BY DEF NestedCall, BatchOK
<1>2. u = [b EXCEPT !.at = turn, !.left = b.left] /\ b.left \in Nat
  BY <1>1 DEF Batches
<1>3. b.left <= b.left /\ b.at \in BatchNestedPlaces
  BY <1>1, <1>2
<1>4. BatchOK([b EXCEPT !.at = turn, !.left = b.left])
  BY <1>2, <1>3, BatchNestedStays
<1>5. QED
  BY <1>2, <1>4

LEMMA BatchNestedLoopKeeps ==
  ASSUME NEW b, BatchOK(b), NEW asked \in BatchNestedPlaces, NEW turn \in BatchNestedPlaces,
         NEW next \in BatchPlainPlaces, NEW u \in NestedLoop(b, asked, turn, next)
  PROVE  BatchOK(u)
<1>1. b.at = turn /\ b \in Batches /\ b.left \in Nat
  BY DEF NestedLoop, BatchOK, Batches
<1>2. CASE b.left = 0
  <2>1. u = [b EXCEPT !.at = next]
    BY <1>1, <1>2 DEF NestedLoop
  <2>2. next \in BatchPlaces /\ next \in BatchPlainPlaces /\ b.at \in BatchCountPlaces
    BY <1>1, BatchPlacesHere DEF BatchCountPlaces
  <2>3. BatchOnward(b, u) /\ u.at = next /\ u.left = 0
    BY <1>1, <1>2, <2>1, <2>2 DEF Batches, BatchOnward
  <2>4. PassesGoOn(u)
    BY <2>2, <2>3, BatchPlacesApart DEF PassesGoOn, BatchCountPlaces, BatchTailPlaces
  <2>5. QED
    BY <2>2, <2>3, <2>4, BatchOnwardStays
<1>3. CASE b.left # 0
  <2>1. PICK n \in Nat : n = b.left - 1 /\ n <= b.left
    BY <1>1, <1>3
  <2>2. PICK a \in {asked, turn} : u = [b EXCEPT !.left = b.left - 1, !.at = a]
    BY <1>1, <1>3 DEF NestedLoop
  <2>3. u = [b EXCEPT !.at = a, !.left = n]
    BY <2>1, <2>2
  <2>4. QED
    BY <1>1, <2>1, <2>3, BatchNestedStays
<1>4. QED
  BY <1>2, <1>3

LEMMA BatchNestedAnswersKeep ==
  ASSUME NEW b, BatchOK(b), NEW u \in RouteLoopAnswers(b) \cup RepeatedLoopAnswers(b)
  PROVE  BatchOK(u)
<1>1. {"nested_call", "nested_loop", "repeated_call", "repeated_loop"} = BatchNestedPlaces
  BY DEF BatchNestedPlaces
<1>2. \E words \in {"nested_words", "repeated_words"}, asked, turn \in BatchNestedPlaces :
        u \in NestedWords(b, words, asked, turn) \cup NestedCall(b, asked, turn)
  BY <1>1 DEF RouteLoopAnswers, RepeatedLoopAnswers
<1>3. QED
  BY <1>2, BatchNestedStarts, BatchNestedCallKeeps

LEMMA BatchNestedLoopsKeep ==
  ASSUME NEW b, BatchOK(b), NEW u \in RouteLoop(b) \cup RepeatedLoop(b)
  PROVE  BatchOK(u)
<1>1. \E asked, turn \in BatchNestedPlaces, next \in BatchPlainPlaces :
        u \in NestedLoop(b, asked, turn, next)
  BY DEF RouteLoop, RepeatedLoop, BatchNestedPlaces, BatchPlainPlaces
<1>2. QED
  BY <1>1, BatchNestedLoopKeeps

-----------------------------------------------------------------------------
(* The descriptor loop: the least pass that calls, of those still to come. *)
LEMMA LeastHere ==
  ASSUME NEW S, S \subseteq 0..(DescriptorPasses - 1), S # {}
  PROVE  Least(S) \in S
<1>1. PICK R : IsWellFoundedOn(R, Nat) /\ \A n, m \in Nat : n < m => <<n, m>> \in R
  BY NatOrder
<1>2. S \subseteq Nat
  BY DEF DescriptorPasses
<1>3. \E n \in S : \A m \in S : ~(<<m, n>> \in R)
  <2>1. IsWellFoundedOn(R, Nat)
    BY <1>1
  <2>2. QED
    BY <1>2, <2>1, WFMin, Zenon
<1>4. PICK n \in S : \A m \in S : ~(<<m, n>> \in R)
  BY <1>3
<1>5. \A m \in S : n <= m
  <2>1. TAKE m \in S
  <2>2. n \in Nat /\ m \in Nat /\ ~(m < n)
    BY <1>1, <1>2, <1>4
  <2>3. QED
    BY <2>2
<1>6. QED
  BY <1>4, <1>5 DEF Least

LEMMA BatchStreamKeeps ==
  ASSUME NEW b, BatchOK(b), NEW u \in SelectedStream(b)
  PROVE  BatchOK(u)
<1>1. b.at = "selected_stream" /\ b \in Batches
  BY DEF SelectedStream, BatchOK
<1>2. PICK d \in Streams :
        u = [b EXCEPT !.stream = d, !.left = Least(CallPasses(d)), !.at = "descriptor_call"]
  BY <1>1 DEF SelectedStream
<1>3. Least(CallPasses(d)) \in CallPasses(d)
  <2>1. 1 \in CallPasses(d) /\ CallPasses(d) \subseteq 0..(DescriptorPasses - 1)
    BY DEF CallPasses, DescriptorPasses, SetBits, Streams
  <2>2. QED
    BY <2>1, LeastHere
<1>4. PICK n \in Nat : n = Least(CallPasses(d)) /\ n < DescriptorPasses
  BY <1>3 DEF CallPasses, DescriptorPasses
<1>5. u = [b EXCEPT !.stream = d, !.left = n, !.at = "descriptor_call"]
  BY <1>2, <1>4
<1>6. /\ "descriptor_call" \in BatchPlaces /\ "descriptor_call" \in BatchCountPlaces
      /\ b.at \in BatchPlainPlaces
  BY <1>1 DEF BatchPlaces, BatchCountPlaces, BatchDescriptorPlaces, BatchPlainPlaces
<1>7. BatchOnward(b, u) /\ u.at = "descriptor_call" /\ u.left = n /\ u.stream = d
  BY <1>1, <1>5, <1>6 DEF Batches, BatchOnward
<1>8. PassesGoOn(u)
  BY <1>4, <1>6, <1>7, BatchPlacesApart DEF PassesGoOn, BatchNestedPlaces
<1>9. QED
  BY <1>6, <1>7, <1>8, BatchOnwardStays

LEMMA BatchDescriptorCallKeeps ==
  ASSUME NEW b, BatchOK(b), NEW u \in DescriptorCall(b)
  PROVE  BatchOK(u)
<1>1. /\ b.at = "descriptor_call" /\ b \in Batches /\ u = [b EXCEPT !.at = "descriptor_loop"]
      /\ b.left < DescriptorPasses /\ b.stream \in Streams
  BY DEF DescriptorCall, BatchOK, PassesGoOn, BatchDescriptorPlaces
<1>2. /\ "descriptor_loop" \in BatchPlaces /\ "descriptor_loop" \in BatchCountPlaces
      /\ b.at \in BatchCountPlaces
  BY <1>1 DEF BatchPlaces, BatchCountPlaces, BatchDescriptorPlaces
<1>3. BatchOnward(b, u) /\ u.at = "descriptor_loop" /\ u.left = b.left /\ u.stream = b.stream
  BY <1>1, <1>2 DEF Batches, BatchOnward
<1>4. PassesGoOn(u)
  BY <1>1, <1>2, <1>3, BatchPlacesApart DEF PassesGoOn, BatchNestedPlaces
<1>5. QED
  BY <1>2, <1>3, <1>4, BatchOnwardStays

LEMMA BatchDescriptorLoopKeeps ==
  ASSUME NEW b, BatchOK(b), NEW u \in DescriptorLoop(b)
  PROVE  BatchOK(u)
<1> DEFINE later == {n \in CallPasses(b.stream) : n > b.left}
<1>1. b.at = "descriptor_loop" /\ b \in Batches /\ b.stream \in Streams
  BY DEF DescriptorLoop, BatchOK, PassesGoOn, BatchDescriptorPlaces
<1>2. /\ {"descriptor_byte", "descriptor_call"} \subseteq BatchPlaces
      /\ "descriptor_byte" \in BatchPlainPlaces /\ "descriptor_call" \in BatchCountPlaces
      /\ b.at \in BatchCountPlaces
  BY <1>1 DEF BatchPlaces, BatchCountPlaces, BatchDescriptorPlaces, BatchPlainPlaces
<1>3. CASE later = {}
  <2>1. u = [b EXCEPT !.left = 0, !.at = "descriptor_byte"]
    BY <1>1, <1>3 DEF DescriptorLoop
  <2>2. BatchOnward(b, u) /\ u.at = "descriptor_byte" /\ u.left = 0
    BY <1>1, <1>2, <2>1 DEF Batches, BatchOnward
  <2>3. PassesGoOn(u)
    BY <1>2, <2>2, BatchPlacesApart DEF PassesGoOn, BatchCountPlaces, BatchTailPlaces
  <2>4. QED
    BY <1>2, <2>2, <2>3, BatchOnwardStays
<1>4. CASE later # {}
  <2>1. u = [b EXCEPT !.left = Least(later), !.at = "descriptor_call"]
    BY <1>1, <1>4 DEF DescriptorLoop
  <2>2. later \subseteq 0..(DescriptorPasses - 1)
    BY DEF CallPasses
  <2>3. Least(later) \in later
    BY <1>4, <2>2, LeastHere
  <2>4. PICK n \in Nat : n = Least(later) /\ n < DescriptorPasses
    BY <2>2, <2>3 DEF DescriptorPasses
  <2> HIDE DEF later
  <2>5. u = [b EXCEPT !.left = n, !.at = "descriptor_call"]
    BY <2>1, <2>4
  <2>6. BatchOnward(b, u) /\ u.at = "descriptor_call" /\ u.left = n /\ u.stream = b.stream
    BY <1>1, <1>2, <2>5 DEF Batches, BatchOnward
  <2>7. PassesGoOn(u)
    BY <1>1, <1>2, <2>4, <2>6, BatchPlacesApart DEF PassesGoOn, BatchNestedPlaces
  <2>8. QED
    BY <1>2, <2>6, <2>7, BatchOnwardStays
<1>5. QED
  BY <1>3, <1>4

-----------------------------------------------------------------------------
(* The title's own loop and its tail.                                      *)
LEMMA BatchReturnKeeps ==
  ASSUME NEW b, BatchOK(b), NEW u \in Return222c0(b)
  PROVE  BatchOK(u)
<1>1. /\ b.at \in {"return_222c0", "loop_40574"} /\ b \in Batches
      /\ u = [b EXCEPT !.entered = TRUE, !.at = "timer_state"]
  BY DEF Return222c0, BatchOK
<1>2. /\ b.at \in BatchPlainPlaces /\ "timer_state" \in BatchPlainPlaces
      /\ "timer_state" \in BatchPlaces
  BY <1>1 DEF BatchPlaces, BatchPlainPlaces
<1>3. BatchOnward(b, u) /\ u.at = "timer_state" /\ u.left = b.left
  BY <1>1, <1>2 DEF Batches, BatchOnward
<1>4. u.left = 0
  BY <1>2, <1>3 DEF BatchOK, PassesGoOn
<1>5. PassesGoOn(u)
  BY <1>2, <1>3, <1>4, BatchPlacesApart DEF PassesGoOn, BatchCountPlaces, BatchTailPlaces
<1>6. QED
  BY <1>2, <1>3, <1>5, BatchOnwardStays

LEMMA BatchInputKeeps ==
  ASSUME NEW b, BatchOK(b), NEW u \in RepeatedInput(b)
  PROVE  BatchOK(u)
<1>1. b.at = "repeated_input" /\ (u = b \/ u = [b EXCEPT !.at = "loop_40574"])
  BY DEF RepeatedInput
<1>2. b.at \in BatchPlainPlaces /\ "loop_40574" \in BatchPlainPlaces
  BY <1>1 DEF BatchPlainPlaces
<1>3. QED
  BY <1>1, <1>2, BatchPlainStays

LEMMA BatchTailCallKeeps ==
  ASSUME NEW b, BatchOK(b), NEW u \in TailCall(b)
  PROVE  BatchOK(u)
<1>1. b.at = "tail_call" /\ b \in Batches /\ b.left \in Nat /\ b.left < 7
  BY DEF TailCall, BatchOK, PassesGoOn, Batches, TailCalls
<1>2. PICK n \in Nat : n = b.left + 1 /\ n <= 7
  BY <1>1
<1>3. \/ n = 3 /\ u = [b EXCEPT !.left = n, !.at = "tail_compare"]
      \/ n = 7 /\ u = [b EXCEPT !.left = n, !.at = "controller_long"]
      \/ n < 7 /\ u = [b EXCEPT !.left = n, !.at = "tail_call"]
  <2>1. u = [b EXCEPT !.left = b.left + 1,
                      !.at = IF b.left = 2 THEN "tail_compare"
                             ELSE IF b.left = 6 THEN "controller_long" ELSE b.at]
    BY <1>1 DEF TailCall, TailCalls
  <2>2. CASE b.left = 2
    BY <1>2, <2>1, <2>2
  <2>3. CASE b.left = 6
    BY <1>2, <2>1, <2>3
  <2>4. CASE b.left # 2 /\ b.left # 6
    <3>1. n < 7
      BY <1>1, <1>2, <2>4
    <3>2. QED
      BY <1>1, <1>2, <2>1, <2>4, <3>1
  <2>5. QED
    BY <2>2, <2>3, <2>4
<1>4. /\ {"tail_compare", "controller_long", "tail_call"} \subseteq BatchPlaces
      /\ {"tail_compare", "controller_long", "tail_call"} \subseteq BatchCountPlaces
      /\ b.at \in BatchCountPlaces
  BY <1>1 DEF BatchPlaces, BatchCountPlaces, BatchTailPlaces
<1>5. /\ BatchOnward(b, u) /\ u.left = n
      /\ \/ u.at = "tail_compare" /\ n = 3
         \/ u.at = "controller_long" /\ n = 7
         \/ u.at = "tail_call" /\ n < 7
  BY <1>1, <1>3, <1>4 DEF Batches, BatchOnward
<1>6. PassesGoOn(u)
  BY <1>4, <1>5, BatchPlacesApart
     DEF PassesGoOn, BatchNestedPlaces, BatchDescriptorPlaces, TailCalls
<1>7. QED
  BY <1>4, <1>5, <1>6, BatchOnwardStays

LEMMA BatchTailCompareKeeps ==
  ASSUME NEW b, BatchOK(b), NEW u \in TailCompare(b)
  PROVE  BatchOK(u)
<1>1. b.at = "tail_compare" /\ b \in Batches
  BY DEF TailCompare, BatchOK
<1>2. PICK n \in {3, 5} : u = [b EXCEPT !.left = n, !.at = "tail_call"]
  BY <1>1 DEF TailCompare
<1>3. n \in Nat /\ n < 7
  BY <1>2
<1>4. /\ "tail_call" \in BatchPlaces /\ "tail_call" \in BatchCountPlaces
      /\ b.at \in BatchCountPlaces
  BY <1>1 DEF BatchPlaces, BatchCountPlaces, BatchTailPlaces
<1>5. BatchOnward(b, u) /\ u.left = n /\ u.at = "tail_call"
  BY <1>1, <1>2, <1>3, <1>4 DEF Batches, BatchOnward
<1>6. PassesGoOn(u)
  BY <1>3, <1>4, <1>5, BatchPlacesApart
     DEF PassesGoOn, BatchNestedPlaces, BatchDescriptorPlaces, TailCalls
<1>7. QED
  BY <1>4, <1>5, <1>6, BatchOnwardStays

LEMMA BatchControllerKeeps ==
  ASSUME NEW b, BatchOK(b), NEW u \in ControllerLong(b)
  PROVE  BatchOK(u)
<1>1. /\ b.at = "controller_long" /\ b \in Batches /\ b.left = TailCalls
      /\ u = [b EXCEPT !.at = "profile_two"]
  BY DEF ControllerLong, BatchOK, PassesGoOn
<1>2. /\ "profile_two" \in BatchPlaces /\ "profile_two" \in BatchCountPlaces
      /\ b.at \in BatchCountPlaces
  BY <1>1 DEF BatchPlaces, BatchCountPlaces, BatchTailPlaces
<1>3. BatchOnward(b, u) /\ u.at = "profile_two" /\ u.left = TailCalls
  BY <1>1, <1>2 DEF Batches, BatchOnward
<1>4. PassesGoOn(u)
  BY <1>2, <1>3, BatchPlacesApart DEF PassesGoOn, BatchNestedPlaces, BatchDescriptorPlaces
<1>5. QED
  BY <1>2, <1>3, <1>4, BatchOnwardStays

(* Only the two order flags are changed when an answer is admitted.        *)
LEMMA BatchOrderedKeeps ==
  ASSUME NEW b, BatchOK(b), NEW u \in Ordered(b)
  PROVE  BatchOK(u)
<1>1. b \in Batches
  BY DEF BatchOK
<1>2. u = [b EXCEPT !.behind = FALSE] \/ u = [b EXCEPT !.late = TRUE]
  BY DEF Ordered
<1>3. /\ u \in Batches /\ u.at = b.at /\ u.done = b.done /\ u.left = b.left
      /\ u.selector = b.selector /\ u.stream = b.stream
  BY <1>1, <1>2 DEF Batches
<1>4. LoadGoesOn(u)
  BY <1>3 DEF BatchOK, LoadGoesOn, BatchIsLoaded
<1>5. PassesGoOn(u)
  BY <1>3 DEF BatchOK, PassesGoOn
<1>6. QED
  BY <1>3, <1>4, <1>5 DEF BatchOK

LEMMA BatchTableKeeps ==
  ASSUME caller \in {"coordinator", "session"}, NEW b, BatchOK(b), NEW u \in TableAnswers(b)
  PROVE  BatchOK(u)
BY BatchSelectorKeeps, BatchCopyKeeps, BatchTableBaseKeeps, BatchTableWordKeeps DEF TableAnswers

LEMMA BatchLoadKeeps ==
  ASSUME NEW b, BatchOK(b), NEW u \in LoadAnswers(b)
  PROVE  BatchOK(u)
BY BatchLoadCallKeeps, BatchLoadStatusKeeps, BatchLoadServiceKeeps DEF LoadAnswers

LEMMA BatchRouteAnswersKeep ==
  ASSUME NEW b, BatchOK(b), NEW u \in RouteAnswers(b)
  PROVE  BatchOK(u)
BY BatchRoutesKeep, BatchNestedAnswersKeep, BatchDescriptorCallKeeps, BatchAnswerEdgesKeep
   DEF RouteAnswers

LEMMA BatchTitleLoopKeeps ==
  ASSUME NEW b, BatchOK(b), NEW u \in TitleLoopAnswers(b)
  PROVE  BatchOK(u)
BY BatchReturnKeeps, BatchRoutesKeep, BatchInputKeeps, BatchTailCallKeeps,
   BatchTailCompareKeeps, BatchControllerKeeps DEF TitleLoopAnswers

LEMMA BatchLocalKeeps ==
  ASSUME NEW b, BatchOK(b), NEW u \in LocalSteps(b)
  PROVE  BatchOK(u)
BY BatchNestedLoopsKeep, BatchStreamKeeps, BatchDescriptorLoopKeeps, BatchLocalEdgesKeep
   DEF LocalSteps

-----------------------------------------------------------------------------
(* The inductive invariant of the title batches.                           *)
BatchInv == caller \in {"coordinator", "session"} /\ BatchOK(batch)

LEMMA BatchInitially == BatchInit => BatchInv
<1> SUFFICES ASSUME BatchInit PROVE BatchInv
  OBVIOUS
<1>1. batch = NewBatch /\ caller \in {"coordinator", "session"}
  BY DEF BatchInit
<1>2. "local_prefix" \in BatchEntryPlaces /\ "local_prefix" \in BatchPlaces
  BY BatchPlacesHere DEF BatchEntryPlaces
<1>3. batch \in Batches /\ batch.at = "local_prefix" /\ batch.done = 0 /\ batch.left = 0
  BY <1>1, <1>2 DEF NewBatch, Batches
<1>4. batch.at \notin BatchLoadPlaces /\ batch.at \notin BatchPlainPlaces
        /\ batch.at \notin BatchCountPlaces
  BY <1>2, <1>3, BatchPlacesApart
<1>5. LoadGoesOn(batch)
  BY <1>3, <1>4 DEF LoadGoesOn, BatchLoadPlaces
<1>6. PassesGoOn(batch)
  BY <1>3, <1>4 DEF PassesGoOn, BatchCountPlaces, BatchTailPlaces
<1>7. QED
  BY <1>1, <1>3, <1>5, <1>6 DEF BatchInv, BatchOK

LEMMA BatchStepKeeps == BatchInv /\ [BatchStep]_batchVars => BatchInv'
<1> SUFFICES ASSUME BatchInv, [BatchStep]_batchVars PROVE BatchInv'
  OBVIOUS
<1>1. caller \in {"coordinator", "session"} /\ BatchOK(batch)
  BY DEF BatchInv
<1>2. ASSUME NEW u, BatchOK(u), batch' = u, caller' = caller PROVE BatchInv'
  BY <1>1, <1>2 DEF BatchInv, BatchOK, LoadGoesOn, PassesGoOn, BatchIsLoaded
<1>3. CASE ChainAnswered
  <2>1. PICK u \in EntryAnswers(batch) \cup PictureAnswers(batch) \cup TableAnswers(batch) :
          batch' = u /\ UNCHANGED caller
    BY <1>3 DEF ChainAnswered
  <2>2. BatchOK(u)
    BY <1>1, BatchEntryKeeps, BatchPictureKeeps, BatchTableKeeps
  <2>3. QED
    BY <1>2, <2>1, <2>2
<1>4. CASE CommandAnswered
  <2>1. PICK t \in LoadAnswers(batch) \cup CommandAnswers(batch) \cup RouteAnswers(batch)
                     \cup TitleLoopAnswers(batch) : batch' \in Ordered(t) /\ UNCHANGED caller
    BY <1>4 DEF CommandAnswered
  <2>2. BatchOK(t)
    BY <1>1, BatchLoadKeeps, BatchCommandsKeep, BatchRouteAnswersKeep, BatchTitleLoopKeeps
  <2>3. PICK u : u \in Ordered(t) /\ batch' = u /\ caller' = caller
    BY <2>1
  <2>4. BatchOK(u)
    BY <2>2, <2>3, BatchOrderedKeeps
  <2>5. QED
    BY <1>2, <2>3, <2>4
<1>5. CASE LocalStep
  <2>1. PICK u \in LocalSteps(batch) : batch' = u /\ UNCHANGED caller
    BY <1>5 DEF LocalStep
  <2>2. BatchOK(u)
    BY <1>1, BatchLocalKeeps
  <2>3. QED
    BY <1>2, <2>1, <2>2
<1>6. CASE UNCHANGED batchVars
  <2>1. batch' = batch /\ caller' = caller
    BY <1>6 DEF batchVars
  <2>2. QED
    BY <1>1, <1>2, <2>1
<1>7. QED
  BY <1>3, <1>4, <1>5, <1>6 DEF BatchStep

LEMMA BatchPlacesCovered ==
  BatchPlaces \subseteq BatchEntryPlaces \cup BatchLoadPlaces \cup BatchPlainPlaces
                       \cup BatchCountPlaces
<1> DEFINE All == BatchEntryPlaces \cup BatchLoadPlaces \cup BatchPlainPlaces \cup BatchCountPlaces
<1>1. ASSUME NEW edges, NEW p \in Sources(edges) PROVE \E a : a \in EdgeEnds(edges, p)
  <2>1. PICK e \in edges : p = e[1]
    BY <1>1 DEF Sources
  <2>2. QED
    BY <2>1 DEF EdgeEnds
<1>2. /\ Sources(ExecEdges) \subseteq All /\ Sources(ServiceEdges) \subseteq All
  <2>1. ASSUME NEW p \in Sources(ExecEdges) \cup Sources(ServiceEdges)
        PROVE  \E a : a \in EdgeEnds(ExecEdges \cup ServiceEdges, p)
    <3>1. p \in Sources(ExecEdges \cup ServiceEdges)
      BY <2>1 DEF Sources
    <3>2. QED
      BY <3>1, <1>1
  <2>2. QED
    BY <2>1, BatchEntryEdges
<1>3. Sources(PictureEdges) \subseteq All
  BY <1>1, BatchPictureEdges
<1>4. /\ Sources(CommandEdges) \subseteq All /\ Sources(TwoOperandEdges) \subseteq All
      /\ Sources(HighEdges) \subseteq All
  BY <1>1, BatchCommandEdges
<1>5. Sources(AnswerEdges) \subseteq All
  BY <1>1, BatchAnswerEdges
<1>6. Sources(LocalEdges) \subseteq All
  BY <1>1, BatchLocalEdges
<1>7. QED
  BY <1>2, <1>3, <1>4, <1>5, <1>6
     DEF BatchPlaces, BatchEntryPlaces, BatchLoadPlaces, BatchPlainPlaces, BatchCountPlaces,
         BatchNestedPlaces, BatchDescriptorPlaces, BatchTailPlaces

LEMMA BatchTyped == BatchInv => BatchTypeOK
<1> SUFFICES ASSUME BatchInv PROVE BatchTypeOK
  OBVIOUS
<1>1. /\ batch \in Batches /\ caller \in {"coordinator", "session"}
      /\ batch.done \in Nat /\ batch.left \in Nat /\ batch.at \in BatchPlaces
  BY DEF BatchInv, BatchOK, Batches
<1>2. Chunks \in Nat \ {0} /\ CopyLongs \in Nat \ {0} /\ NestedPasses \in Nat /\ Repeats \in Nat
  BY BatchAssumption
<1>3. LoadGoesOn(batch) /\ PassesGoOn(batch)
  BY DEF BatchInv, BatchOK
<1>4. batch.at \in BatchEntryPlaces \cup BatchLoadPlaces \cup BatchPlainPlaces
                     \cup BatchCountPlaces
  BY <1>1, BatchPlacesCovered
<1>5. batch.done <= ChipWrites \/ batch.done <= Chunks \/ batch.done <= CopyLongs
  <2>1. CASE batch.at \in BatchEntryPlaces
    BY <1>1, <1>3, <2>1 DEF LoadGoesOn, ChipWrites
  <2>2. CASE batch.at \in BatchLoadPlaces
    BY <1>1, <1>2, <1>3, <2>2 DEF LoadGoesOn, BatchLoadPlaces, ChipWrites
  <2>3. CASE batch.at \in BatchPlainPlaces \cup BatchCountPlaces
    BY <1>1, <1>2, <1>3, <2>3 DEF LoadGoesOn, BatchIsLoaded
  <2>4. QED
    BY <1>4, <2>1, <2>2, <2>3
<1>6. batch.left < DescriptorPasses \/ batch.left <= Repeats \/ batch.left <= NestedPasses
  <2>1. CASE batch.at \in BatchEntryPlaces \cup BatchLoadPlaces \cup BatchPlainPlaces
    BY <1>3, <2>1 DEF PassesGoOn, DescriptorPasses
  <2>2. CASE batch.at \in BatchCountPlaces
    BY <1>1, <1>2, <1>3, <2>2
       DEF PassesGoOn, BatchCountPlaces, BatchNestedPlaces, BatchDescriptorPlaces,
           BatchTailPlaces, DescriptorPasses, TailCalls
  <2>3. QED
    BY <1>4, <2>1, <2>2
<1>7. QED
  BY <1>1, <1>5, <1>6 DEF BatchTypeOK

LEMMA BatchSound == BatchInv => BatchIsSound
<1> SUFFICES ASSUME BatchInv PROVE BatchIsSound
  OBVIOUS
<1>1. LoadGoesOn(batch) /\ PassesGoOn(batch) /\ caller \in {"coordinator", "session"}
  BY DEF BatchInv, BatchOK
<1>2. "table_word" \in BatchPlainPlaces /\ "opcode" \in BatchPlainPlaces
  BY DEF BatchPlainPlaces
<1>3. CommandsAreLoaded
  BY <1>1, <1>2 DEF CommandsAreLoaded, LoadGoesOn, BatchIsLoaded
<1>4. TailIsWhole
  BY <1>1 DEF TailIsWhole, PassesGoOn
<1>5. QED
  BY <1>3, <1>4 DEF BatchIsSound

LEMMA SessionsAreBatches == [SessionsNext]_sessionVars => [BatchStep]_batchVars
BY DEF SessionsNext, sessionVars, DosTitleStep, TitleStageStep, MainStageStep,
       AtariSessionStep, GameSessionStep, DriverStep, BootstrapStep, LoaderStep

(* The inductive invariant of the title batches.                           *)
THEOREM BatchInvariant == SessionsSpec => []BatchInv
<1>1. SessionsInit => BatchInv
  BY BatchInitially DEF SessionsInit
<1>2. QED
  BY <1>1, SessionsAreBatches, BatchStepKeeps, PTL DEF SessionsSpec

(* No title command is interpreted before every read ended well and the    *)
(* selected part was copied whole, unless a caller of the session itself   *)
(* chose to copy nothing, and the main stage follows only the last call of *)
(* the tail (DeuterosAmigaTitleStageSession): for any number of reads,     *)
(* longs, repeats and passes.                                              *)
THEOREM BatchIsSoundHolds == SessionsSpec => []BatchIsSound
BY BatchInvariant, BatchSound, PTL

(* The title stage's session has its type and its counters their bounds.   *)
THEOREM BatchTypeHolds == SessionsSpec => []BatchTypeOK
BY BatchInvariant, BatchTyped, PTL

-----------------------------------------------------------------------------
(* The Atari's configuration and its module's entry: the session's own     *)
(* record first, without the picture and the fade.                         *)
Ataris ==
  [via : {"coordinator", "session"}, at : ConfigPlaces, block : 0..(Blocks - 1),
   second : BOOLEAN, prefix : BOOLEAN, setUp : BOOLEAN, unpacks : 0..2,
   loaded : LoadedParts, closed : BOOLEAN, entered : BOOLEAN]

(* The close writes its mark, and only the loader's return enters.         *)
AtariOK(s) ==
  /\ s \in Ataris
  /\ s.at \in {"post_rts", "complete"} => s.closed
  /\ s.entered => s.at = "complete"
  /\ s.via = "coordinator" => IF s.setUp THEN s.unpacks = 1 ELSE s.unpacks = 0

(* No operation of the configuration starts where its loader has returned. *)
AtariMoves(s, t) ==
  /\ t.via = s.via /\ s.at # "complete" /\ t.closed = s.closed /\ t.entered = s.entered
  /\ t.at \in ConfigPlaces /\ t.at \notin {"post_rts", "complete"}

LEMMA ConfigPlacesHere ==
  /\ {"loop_branch", "fopen", "fopen_spin", "jsr_2a5c2", "fread", "fclose", "fread_prefix",
      "jsr_2b2be", "source_byte", "zero_pair", "zero_counter", "replicated", "swapped",
      "extended", "complete_picture", "palette_copy", "palette_words", "palette_set",
      "palette_recurrence", "palette_last", "palette_rts", "post_fopen", "post_fopen_spin",
      "post_fread", "post_fclose", "post_rts", "complete"} \subseteq ConfigPlaces
  /\ {"status_register", "d0_indexed_word", "movem_frame", "jsr_2aa0c", "second_rts"}
       \subseteq ConfigPlaces
<1>1. /\ <<"status_register", "selector_two">> \in StraightEdges
      /\ <<"d0_indexed_word", "a0_indexed_word">> \in StraightEdges
      /\ <<"movem_frame", "jsr_2aa68">> \in StraightEdges
      /\ <<"jsr_2aa0c", "fopen">> \in StraightEdges
      /\ <<"second_rts", "second_selector_38">> \in LoaderEdges
  BY DEF StraightEdges, ServiceEdges16, CalleeEdges, CallerEdges, LoaderEdges
<1>2. /\ {"status_register", "d0_indexed_word", "movem_frame", "jsr_2aa0c"} \subseteq Sources(StraightEdges)
      /\ "second_rts" \in Sources(LoaderEdges)
  BY <1>1 DEF Sources
<1>3. QED
  BY <1>2 DEF ConfigPlaces

LEMMA AtariEdges ==
  ASSUME NEW p, NEW a \in EdgeEnds(StraightEdges, p) \cup EdgeEnds(LoaderEdges, p)
  PROVE  a \in ConfigPlaces /\ a \notin {"post_rts", "complete"} /\ p # "complete"
<1>1. \/ a \in {"loop_branch", "fopen", "post_fopen"}
      \/ \E e : <<a, e>> \in StraightEdges \cup LoaderEdges
  BY DEF EdgeEnds, StraightEdges, ServiceEdges16, CalleeEdges, CallerEdges, LoaderEdges
<1>2. a \in ConfigPlaces
  <2>1. CASE a \in {"loop_branch", "fopen", "post_fopen"}
    BY <2>1, ConfigPlacesHere
  <2>2. CASE \E e : <<a, e>> \in StraightEdges \cup LoaderEdges
    BY <2>2 DEF Sources, ConfigPlaces
  <2>3. QED
    BY <1>1, <2>1, <2>2
<1>3. a \notin {"post_rts", "complete"} /\ p # "complete"
  BY DEF EdgeEnds, StraightEdges, ServiceEdges16, CalleeEdges, CallerEdges, LoaderEdges
<1>4. QED
  BY <1>2, <1>3

(* A move that reads nothing but the place.                                *)
LEMMA AtariPlaceKeeps ==
  ASSUME NEW s, AtariOK(s), s.at # "complete",
         NEW a \in ConfigPlaces, a \notin {"post_rts", "complete"}
  PROVE  AtariOK([s EXCEPT !.at = a]) /\ AtariMoves(s, [s EXCEPT !.at = a])
BY DEF AtariOK, AtariMoves, Ataris

LEMMA StraightKeeps ==
  ASSUME AtariOK(atari), Straight
  PROVE  AtariOK(atari') /\ AtariMoves(atari, atari')
<1>1. PICK a \in EdgeEnds(StraightEdges, atari.at) : atari' = [atari EXCEPT !.at = a]
  BY DEF Straight
<1>2. QED
  BY <1>1, AtariEdges, AtariPlaceKeeps

LEMMA CalleeLoopKeeps ==
  ASSUME AtariOK(atari), CalleeLoop
  PROVE  AtariOK(atari') /\ AtariMoves(atari, atari')
<1>1. atari.at = "loop_branch" /\ atari' = LoopBranch(atari) /\ atari \in Ataris
  BY DEF CalleeLoop, AtariOK
<1>2. Blocks \in Nat \ {0} /\ atari.block \in 0..(Blocks - 1)
  BY <1>1, ConfigAssumption DEF Ataris
<1>3. CASE atari.block + 1 < Blocks
  <2>1. PICK n \in 0..(Blocks - 1) : n = atari.block + 1
    BY <1>2, <1>3
  <2>2. atari' = [atari EXCEPT !.block = n, !.at = "d0_indexed_word"]
    BY <1>1, <1>3, <2>1 DEF LoopBranch
  <2>3. QED
    BY <1>1, <2>2, ConfigPlacesHere DEF AtariOK, Ataris, AtariMoves
<1>4. CASE ~(atari.block + 1 < Blocks)
  BY <1>1, <1>4, ConfigPlacesHere, AtariPlaceKeeps DEF LoopBranch
<1>5. QED
  BY <1>3, <1>4

LEMMA FilesKeep ==
  ASSUME AtariOK(atari), Fopen \/ Fread \/ Fclose \/ FreadPrefix
  PROVE  AtariOK(atari') /\ AtariMoves(atari, atari')
<1>1. CASE Fopen
  BY <1>1, ConfigPlacesHere, AtariPlaceKeeps DEF Fopen
<1>2. CASE Fread
  <2>1. CASE atari' = [atari EXCEPT !.at = "fread"] /\ atari.at = "jsr_2a5c2"
    BY <2>1, ConfigPlacesHere, AtariPlaceKeeps
  <2>2. CASE atari.at = "fread" /\ \E whole \in BOOLEAN :
                atari' = [atari EXCEPT !.at = "fclose", !.prefix = whole]
    BY <2>2, ConfigPlacesHere DEF AtariOK, Ataris, AtariMoves
  <2>3. QED
    BY <1>2, <2>1, <2>2 DEF Fread
<1>3. CASE Fclose
  BY <1>3, ConfigPlacesHere, AtariPlaceKeeps DEF Fclose
<1>4. CASE FreadPrefix
  BY <1>4, ConfigPlacesHere, AtariPlaceKeeps DEF FreadPrefix
<1>5. QED
  BY <1>1, <1>2, <1>3, <1>4

LEMMA PictureStepKeepsSession ==
  ASSUME AtariOK(atari), PictureStep
  PROVE  AtariOK(atari') /\ AtariMoves(atari, atari')
<1>1. CASE Unpack
  <2>1. /\ atari.at = "jsr_2b2be" /\ (atari.via = "coordinator" => ~atari.setUp)
        /\ atari \in Ataris /\ atari.unpacks \in 0..2
        /\ atari' = [atari EXCEPT !.at = "source_byte", !.setUp = TRUE,
                       !.unpacks = IF atari.unpacks < 2 THEN atari.unpacks + 1 ELSE atari.unpacks]
    BY <1>1 DEF Unpack, AtariOK, Ataris
  <2>2. PICK n \in 0..2 : n = IF atari.unpacks < 2 THEN atari.unpacks + 1 ELSE atari.unpacks
    BY <2>1
  <2>3. atari.via = "coordinator" => n = 1
    BY <2>1, <2>2 DEF AtariOK
  <2>4. atari' = [atari EXCEPT !.at = "source_byte", !.setUp = TRUE, !.unpacks = n]
    BY <2>1, <2>2
  <2>5. QED
    BY <2>1, <2>3, <2>4, ConfigPlacesHere DEF AtariOK, Ataris, AtariMoves
<1>2. CASE SourceByte
  <2>1. /\ atari.at = "source_byte"
        /\ \E a \in {"zero_pair", "replicated", "swapped", "extended"} : atari' = [atari EXCEPT !.at = a]
    BY <1>2 DEF SourceByte
  <2>2. QED
    BY <2>1, ConfigPlacesHere, AtariPlaceKeeps
<1>3. CASE ZeroPair
  BY <1>3, ConfigPlacesHere, AtariPlaceKeeps DEF ZeroPair
<1>4. CASE ZeroCounter
  <2>1. /\ atari.at = "zero_counter"
        /\ \E a \in {"complete_picture", "source_byte", "zero_pair"} : atari' = [atari EXCEPT !.at = a]
    BY <1>4 DEF ZeroCounter
  <2>2. QED
    BY <2>1, ConfigPlacesHere, AtariPlaceKeeps
<1>5. CASE Run
  <2>1. /\ atari.at \in {"replicated", "swapped", "extended"}
        /\ \E a \in {"complete_picture", "source_byte"} : atari' = [atari EXCEPT !.at = a]
    BY <1>5 DEF Run
  <2>2. QED
    BY <2>1, ConfigPlacesHere, AtariPlaceKeeps
<1>6. QED
  BY <1>1, <1>2, <1>3, <1>4, <1>5 DEF PictureStep

LEMMA FadeStepKeepsSession ==
  ASSUME AtariOK(atari), FadeStep
  PROVE  AtariOK(atari') /\ AtariMoves(atari, atari')
<1>1. CASE CopyPalette
  <2>1. /\ atari.at \in {"complete_picture", "palette_copy"}
        /\ \E a \in {"palette_copy", "palette_words"} : atari' = [atari EXCEPT !.at = a]
    BY <1>1 DEF CopyPalette
  <2>2. QED
    BY <2>1, ConfigPlacesHere, AtariPlaceKeeps
<1>2. CASE PaletteWords
  BY <1>2, ConfigPlacesHere, AtariPlaceKeeps DEF PaletteWords
<1>3. CASE PaletteSet
  BY <1>3, ConfigPlacesHere, AtariPlaceKeeps DEF PaletteSet
<1>4. CASE PaletteRecurrence
  BY <1>4, ConfigPlacesHere, AtariPlaceKeeps DEF PaletteRecurrence
<1>5. CASE FadeReturn
  <2>1. CASE atari.at = "palette_last" /\ atari' = [atari EXCEPT !.at = "palette_rts"]
    BY <2>1, ConfigPlacesHere, AtariPlaceKeeps
  <2>2. CASE atari.at = "palette_rts" /\ atari' = [atari EXCEPT !.at = "jsr_2aa0c", !.second = TRUE]
    BY <2>2, ConfigPlacesHere DEF AtariOK, Ataris, AtariMoves
  <2>3. QED
    BY <1>5, <2>1, <2>2 DEF FadeReturn
<1>6. QED
  BY <1>1, <1>2, <1>3, <1>4, <1>5 DEF FadeStep

LEMMA LoaderKeeps ==
  ASSUME AtariOK(atari), Loader
  PROVE  AtariOK(atari') /\ atari'.via = atari.via /\ atari.at # "complete"
<1>1. CASE \E a \in EdgeEnds(LoaderEdges, atari.at) : atari' = [atari EXCEPT !.at = a]
  BY <1>1, AtariEdges, AtariPlaceKeeps DEF AtariMoves
<1>2. CASE /\ atari.at = "post_fopen"
           /\ \E a \in {"post_fopen_spin", "post_fread"} : atari' = [atari EXCEPT !.at = a]
  BY <1>2, ConfigPlacesHere, AtariPlaceKeeps DEF AtariMoves
<1>3. CASE /\ atari.at = "post_fread"
           /\ \E n \in LoadedParts : atari' = [atari EXCEPT !.at = "post_fclose", !.loaded = n]
  BY <1>3, ConfigPlacesHere DEF AtariOK, Ataris
<1>4. CASE atari.at = "post_fclose" /\ atari' = [atari EXCEPT !.at = "post_rts", !.closed = TRUE]
  BY <1>4, ConfigPlacesHere DEF AtariOK, Ataris
<1>5. QED
  BY <1>1, <1>2, <1>3, <1>4 DEF Loader

LEMMA ConfigStepKeeps ==
  ASSUME AtariOK(atari), ConfigStep
  PROVE  AtariOK(atari') /\ atari'.via = atari.via /\ atari.at # "complete"
BY StraightKeeps, CalleeLoopKeeps, FilesKeep, PictureStepKeepsSession, FadeStepKeepsSession,
   LoaderKeeps DEF ConfigStep, AtariMoves

LEMMA ReturnKeeps ==
  ASSUME AtariOK(atari), NEW toModule \in BOOLEAN, LoaderReturns(toModule)
  PROVE  AtariOK(atari') /\ atari'.via = atari.via /\ atari.at = "post_rts" /\ atari'.at = "complete"
         /\ atari'.closed /\ atari'.entered = toModule /\ atari'.loaded = atari.loaded
<1>1. atari.at = "post_rts" /\ atari' = [atari EXCEPT !.at = "complete", !.entered = toModule]
  BY DEF LoaderReturns
<1>2. QED
  BY <1>1, ConfigPlacesHere DEF AtariOK, Ataris

-----------------------------------------------------------------------------
(* The entry.                                                              *)
AtariEntryPlaces ==
  {"entry_jump", "status_register", "line_a", "caller_transfer", "key_at_1fc76",
   "returned_elsewhere", "fcreated"} \cup NeedsAll \cup Sources(SystemCalls)

Entries == [at : AtariEntryPlaces, mode : {"none", "user", "supervisor"}, equal : BOOLEAN]

EntryInv == AtariOK(atari) /\ entry \in Entries /\ EntryFollowsLoader

LEMMA AtariEntryEdges ==
  ASSUME NEW p, NEW a \in EdgeEnds(SystemCalls, p) \cup EdgeEnds(FcreateEdges, p)
  PROVE  a \in AtariEntryPlaces /\ a # "caller_transfer" /\ p # "entry_jump"
<1>1. a \in {"line_a", "fcreate_return", "fcreated"} \/ \E e : <<a, e>> \in SystemCalls
  BY DEF EdgeEnds, SystemCalls, FcreateEdges
<1>2. a \in AtariEntryPlaces
  <2>1. CASE a \in {"line_a", "fcreate_return", "fcreated"}
    BY <2>1 DEF AtariEntryPlaces, NeedsAll
  <2>2. ASSUME NEW e, <<a, e>> \in SystemCalls PROVE a \in Sources(SystemCalls)
    BY <2>2 DEF Sources
  <2>3. QED
    BY <1>1, <2>1, <2>2 DEF AtariEntryPlaces
<1>3. a # "caller_transfer" /\ p # "entry_jump"
  BY DEF EdgeEnds, SystemCalls, FcreateEdges
<1>4. QED
  BY <1>2, <1>3

LEMMA EntryInitially == EntryInit => EntryInv
<1> SUFFICES ASSUME EntryInit PROVE EntryInv
  OBVIOUS
<1>1. PICK v \in {"coordinator", "session"} : atari = NewAtari(v)
  BY DEF EntryInit, ConfigInit
<1>2. 0 \in 0..(Blocks - 1) /\ 0 \in LoadedParts
  BY ConfigAssumption DEF LoadedParts
<1>3. AtariOK(atari)
  BY <1>1, <1>2, ConfigPlacesHere DEF NewAtari, AtariOK, Ataris
<1>4. entry = NewEntry /\ NewEntry \in Entries
  BY DEF EntryInit, NewEntry, Entries, AtariEntryPlaces
<1>5. QED
  BY <1>3, <1>4 DEF EntryInv, EntryFollowsLoader, NewEntry

LEMMA EntryOwnStepKeeps ==
  ASSUME EntryInv, UNCHANGED configVars, entry' \in Entries,
         Coordinator => entry.at # "entry_jump" /\ entry'.at # "caller_transfer"
  PROVE  EntryInv'
<1>1. atari' = atari
  BY DEF configVars
<1>2. QED
  BY <1>1 DEF EntryInv, EntryFollowsLoader, Coordinator, AtariOK, PartNeeded

LEMMA EntryPlaceKeeps ==
  ASSUME EntryInv, UNCHANGED configVars, NEW a \in AtariEntryPlaces,
         entry' = [entry EXCEPT !.at = a],
         entry.at # "entry_jump", a # "caller_transfer" \/ ~Coordinator
  PROVE  EntryInv'
<1>1. entry' \in Entries /\ entry'.at = a
  BY DEF EntryInv, Entries
<1>2. QED
  BY <1>1, EntryOwnStepKeeps

LEMMA EntryPlacesHere ==
  {"status_register", "local_call", "bytecode", "crawcin_flag", "fopen", "key_at_1fc76",
   "fopen_return", "fcreate", "returned_elsewhere", "selector_26", "caller_transfer"}
     \subseteq AtariEntryPlaces
<1>1. <<"selector_26", "selector_15">> \in SystemCalls
  BY DEF SystemCalls
<1>2. "selector_26" \in Sources(SystemCalls)
  BY <1>1 DEF Sources
<1>3. QED
  BY <1>2 DEF AtariEntryPlaces, NeedsAll

LEMMA LoaderReturnKeeps == EntryInv /\ LoaderReturn => EntryInv'
<1> SUFFICES ASSUME EntryInv, NEW toModule \in BOOLEAN, LoaderReturns(toModule),
             IF toModule /\ Coordinator
             THEN /\ entry.at = "entry_jump" /\ InMemory("entry_jump")
                  /\ entry' = [entry EXCEPT !.at = "status_register"]
             ELSE UNCHANGED entry
    PROVE  EntryInv'
  BY DEF LoaderReturn
<1>1. AtariOK(atari) /\ entry \in Entries
  BY DEF EntryInv
<1>2. /\ AtariOK(atari') /\ atari'.via = atari.via /\ atari.at = "post_rts"
      /\ atari'.at = "complete" /\ atari'.closed /\ atari'.entered = toModule
      /\ atari'.loaded = atari.loaded
  BY <1>1, ReturnKeeps
<1>3. CASE toModule /\ Coordinator
  <2>1. entry' = [entry EXCEPT !.at = "status_register"] /\ InMemory("entry_jump")
    BY <1>3
  <2>2. entry' \in Entries /\ entry'.at = "status_register"
    BY <1>1, <2>1, EntryPlacesHere DEF Entries
  <2>3. atari'.loaded >= PartNeeded("entry_jump")
    BY <1>2, <1>3, <2>1 DEF InMemory
  <2>4. QED
    BY <1>2, <1>3, <2>2, <2>3 DEF EntryInv, EntryFollowsLoader, AtariOK, PartNeeded
<1>4. CASE ~(toModule /\ Coordinator)
  <2>1. entry' = entry
    BY <1>4
  <2>2. Coordinator => entry.at = "entry_jump"
    BY <1>2 DEF EntryInv, EntryFollowsLoader
  <2>3. Coordinator' = Coordinator
    BY <1>2 DEF Coordinator
  <2>4. QED
    BY <1>1, <1>2, <2>1, <2>2, <2>3 DEF EntryInv, EntryFollowsLoader, AtariOK
<1>5. QED
  BY <1>3, <1>4

LEMMA EntryJumpKeeps == EntryInv /\ EntryJump => EntryInv'
<1> SUFFICES ASSUME EntryInv, EntryJump PROVE EntryInv'
  OBVIOUS
<1>1. /\ entry' = [entry EXCEPT !.at = "status_register"] /\ InMemory("entry_jump")
      /\ (Coordinator => atari.at = "complete" /\ atari.entered) /\ UNCHANGED configVars
  BY DEF EntryJump
<1>2. AtariOK(atari) /\ entry \in Entries
  BY DEF EntryInv
<1>3. entry' \in Entries /\ entry'.at = "status_register"
  BY <1>1, <1>2, EntryPlacesHere DEF Entries
<1>4. Coordinator => atari.closed /\ atari.loaded >= PartNeeded("entry_jump")
  BY <1>1, <1>2 DEF AtariOK, InMemory
<1>5. atari' = atari
  BY <1>1 DEF configVars
<1>6. QED
  BY <1>1, <1>2, <1>3, <1>4, <1>5
     DEF EntryInv, EntryFollowsLoader, Coordinator, AtariOK, PartNeeded

LEMMA LineAKeeps == EntryInv /\ LineA => EntryInv'
<1> SUFFICES ASSUME EntryInv, LineA PROVE EntryInv'
  OBVIOUS
<1>1. entry.at = "line_a" /\ UNCHANGED configVars /\ entry \in Entries
  BY DEF LineA, EntryInv
<1>2. PICK same \in Compared :
        entry' = [entry EXCEPT !.at = IF same THEN "local_call" ELSE "caller_transfer",
                               !.equal = same]
  BY DEF LineA
<1>3. same \in BOOLEAN /\ (Coordinator => same)
  <2>1. CASE Coordinator
    BY <1>1, <2>1 DEF Compared, EntryInv, EntryFollowsLoader
  <2>2. CASE ~Coordinator
    BY <2>2 DEF Compared
  <2>3. QED
    BY <2>1, <2>2
<1>4. entry' \in Entries /\ (same => entry'.at # "caller_transfer")
  <2>1. CASE same
    BY <1>1, <1>2, <1>3, <2>1, EntryPlacesHere DEF Entries
  <2>2. CASE ~same
    BY <1>1, <1>2, <1>3, <2>2, EntryPlacesHere DEF Entries
  <2>3. QED
    BY <2>1, <2>2
<1>5. QED
  BY <1>1, <1>3, <1>4, EntryOwnStepKeeps

LEMMA StatusRegisterKeeps == EntryInv /\ StatusRegister => EntryInv'
<1> SUFFICES ASSUME EntryInv, StatusRegister PROVE EntryInv'
  OBVIOUS
<1>1. PICK mode \in StatusRegisterModes :
        entry' = [entry EXCEPT !.at = "selector_26", !.mode = mode] /\ UNCHANGED configVars
  BY DEF StatusRegister
<1>2. mode \in {"user", "supervisor"} /\ entry.at = "status_register" /\ entry \in Entries
  BY DEF StatusRegisterModes, EntryInv
<1>3. entry' \in Entries /\ entry'.at = "selector_26"
  BY <1>1, <1>2, EntryPlacesHere DEF Entries
<1>4. QED
  BY <1>1, <1>2, <1>3, EntryOwnStepKeeps

LEMMA EntryMovesKeep ==
  ASSUME EntryInv,
         \/ EntryService \/ BytecodeCall \/ Bytecode \/ CrawcinFlag \/ EntryFopen \/ FopenReturn
         \/ Fcreate
  PROVE  EntryInv'
<1>1. CASE EntryService \/ Fcreate
  <2>1. PICK a \in EdgeEnds(SystemCalls, entry.at) \cup EdgeEnds(FcreateEdges, entry.at) :
          entry' = [entry EXCEPT !.at = a] /\ UNCHANGED configVars
    BY <1>1 DEF EntryService, Fcreate
  <2>2. QED
    BY <2>1, AtariEntryEdges, EntryPlaceKeeps
<1>2. CASE BytecodeCall \/ Bytecode \/ CrawcinFlag \/ EntryFopen \/ FopenReturn
  <2>1. entry.at # "entry_jump" /\ UNCHANGED configVars
    BY <1>2 DEF BytecodeCall, Bytecode, CrawcinFlag, EntryFopen, FopenReturn
  <2>2. \E a \in {"crawcin_flag", "bytecode", "fopen", "key_at_1fc76", "fopen_return",
                  "fcreate", "returned_elsewhere"} : entry' = [entry EXCEPT !.at = a]
    BY <1>2 DEF BytecodeCall, Bytecode, CrawcinFlag, EntryFopen, FopenReturn
  <2>3. PICK a \in AtariEntryPlaces : entry' = [entry EXCEPT !.at = a] /\ a # "caller_transfer"
    BY <2>2, EntryPlacesHere
  <2>4. QED
    BY <2>1, <2>3, EntryPlaceKeeps
<1>3. QED
  BY <1>1, <1>2

LEMMA EntryStepKeeps == EntryInv /\ [AtariStep]_entryVars => EntryInv'
<1> SUFFICES ASSUME EntryInv, [AtariStep]_entryVars PROVE EntryInv'
  OBVIOUS
<1>1. CASE ConfigStep /\ UNCHANGED entry
  <2>1. AtariOK(atari') /\ atari'.via = atari.via /\ atari.at # "complete"
    BY <1>1, ConfigStepKeeps DEF EntryInv
  <2>2. QED
    BY <1>1, <2>1 DEF EntryInv, EntryFollowsLoader, Coordinator
<1>2. CASE EntryStep
  BY <1>2, LoaderReturnKeeps, EntryJumpKeeps, StatusRegisterKeeps, LineAKeeps, EntryMovesKeep
     DEF EntryStep
<1>3. CASE UNCHANGED entryVars
  BY <1>3 DEF entryVars, configVars, EntryInv, EntryFollowsLoader, Coordinator
<1>4. QED
  BY <1>1, <1>2, <1>3 DEF AtariStep

LEMMA EntryInvSays ==
  EntryInv => EntryFollowsLoader /\ EntryTypeOK /\ PictureDrawnOnce
<1> SUFFICES ASSUME EntryInv PROVE EntryFollowsLoader /\ EntryTypeOK /\ PictureDrawnOnce
  OBVIOUS
<1>1. EntryFollowsLoader /\ AtariOK(atari) /\ entry \in Entries
  BY DEF EntryInv
<1>2. EntryTypeOK
  BY <1>1 DEF Entries, EntryTypeOK, AtariEntryPlaces
<1>3. PictureDrawnOnce
  BY <1>1 DEF AtariOK, PictureDrawnOnce
<1>4. QED
  BY <1>1, <1>2, <1>3

-----------------------------------------------------------------------------
(* The fade: what a tone has gained is one step for each pass.             *)
FadePlaces == {"palette_words", "palette_set", "palette_recurrence", "palette_last", "palette_rts"}

Fades ==
  [level : 0..(ByteLimit - 1), step : 0..(ByteLimit - 1), colour : Nat, start : Nat,
   left : 0..FadePasses, passes : Nat]

FadeOK(at, f) ==
  /\ f \in Fades
  /\ at = "palette_words" => f.left = FadePasses /\ f.passes = 0
  /\ at \in FadePlaces \ {"palette_words"} =>
       f.colour * ByteLimit + f.level = f.start + f.passes * f.step
  /\ at = "palette_set" => f.passes + f.left = FadePasses + 1
  /\ at = "palette_recurrence" => f.passes + f.left = FadePasses
  /\ at \in {"palette_last", "palette_rts"} => f.passes = FadePasses + 1

(* A pass adds one step to the tone, carried or not.                       *)
LEMMA FadedGains ==
  ASSUME NEW f \in Fades
  PROVE  LET g == Faded(f) IN
         /\ g \in Fades /\ g.passes = f.passes + 1 /\ g.step = f.step /\ g.start = f.start
         /\ g.left = f.left
         /\ g.colour * ByteLimit + g.level = f.colour * ByteLimit + f.level + f.step
<1>1. ByteLimit \in Nat \ {0} /\ ByteLimit >= 2
  BY ConfigAssumption
<1>2. /\ f.level \in 0..(ByteLimit - 1) /\ f.step \in 0..(ByteLimit - 1) /\ f.colour \in Nat
      /\ f.passes \in Nat
  BY DEF Fades
<1>3. PICK n \in Nat : n = f.passes + 1
  BY <1>2
<1>4. CASE f.level + f.step > ByteLimit - 1
  <2>1. PICK l \in 0..(ByteLimit - 1) : l = f.level + f.step - ByteLimit
    BY <1>1, <1>2, <1>4
  <2>2. (f.level + f.step) % ByteLimit = l
    <3>1. (f.level + f.step) % ByteLimit = (f.level + f.step - ByteLimit) % ByteLimit
      BY <1>1, <1>2
    <3>2. l % ByteLimit = l
      BY <1>1, <2>1
    <3>3. QED
      BY <2>1, <3>1, <3>2
  <2>3. PICK c \in Nat : c = f.colour + 1
    BY <1>2
  <2>4. Faded(f) = [f EXCEPT !.level = l, !.passes = n, !.colour = c]
    BY <1>3, <1>4, <2>2, <2>3 DEF Faded
  <2>5. c * ByteLimit = f.colour * ByteLimit + ByteLimit
    BY <1>1, <1>2, <2>3
  <2>6. f.colour * ByteLimit \in Nat
    BY <1>1, <1>2
  <2>7. c * ByteLimit + l = f.colour * ByteLimit + f.level + f.step
    BY <1>1, <1>2, <2>1, <2>5, <2>6
  <2>8. QED
    BY <1>2, <1>3, <2>1, <2>3, <2>4, <2>7 DEF Fades
<1>5. CASE ~(f.level + f.step > ByteLimit - 1)
  <2>1. PICK l \in 0..(ByteLimit - 1) : l = f.level + f.step
    BY <1>1, <1>2, <1>5
  <2>2. (f.level + f.step) % ByteLimit = l
    BY <1>1, <2>1
  <2>3. Faded(f) = [f EXCEPT !.level = l, !.passes = n]
    <3>1. f.colour = (IF f.level + f.step > ByteLimit - 1 THEN f.colour + 1 ELSE f.colour)
      BY <1>5
    <3>2. [f EXCEPT !.level = l, !.passes = n] = [f EXCEPT !.level = l, !.passes = n, !.colour = f.colour]
      BY DEF Fades
    <3>3. QED
      BY <1>3, <2>2, <3>1, <3>2 DEF Faded
  <2>4. f.colour * ByteLimit \in Nat
    BY <1>1, <1>2
  <2>5. f.colour * ByteLimit + l = f.colour * ByteLimit + f.level + f.step
    BY <1>2, <2>1, <2>4
  <2>6. QED
    BY <1>2, <1>3, <2>1, <2>3, <2>5 DEF Fades
<1>6. QED
  BY <1>4, <1>5

LEMMA FadedKeeps ==
  ASSUME NEW f \in Fades, f.colour * ByteLimit + f.level = f.start + f.passes * f.step,
         f.passes + f.left = FadePasses
  PROVE  FadeOK("palette_set", Faded(f))
<1> DEFINE g == Faded(f)
<1>1. /\ g \in Fades /\ g.passes = f.passes + 1 /\ g.step = f.step /\ g.start = f.start
      /\ g.left = f.left
      /\ g.colour * ByteLimit + g.level = f.colour * ByteLimit + f.level + f.step
  BY FadedGains
<1>2. f.passes \in Nat /\ f.step \in Nat /\ f.start \in Nat /\ f.left \in Nat /\ FadePasses \in Nat
  BY ConfigAssumption DEF Fades
<1>3. (f.passes + 1) * f.step = f.passes * f.step + f.step /\ f.passes * f.step \in Nat
  BY <1>2
<1> HIDE DEF g
<1>4. g.colour * ByteLimit + g.level = g.start + g.passes * g.step
  BY <1>1, <1>2, <1>3
<1>5. g.passes + g.left = FadePasses + 1
  BY <1>1, <1>2
<1>6. FadeOK("palette_set", g)
  BY <1>1, <1>4, <1>5 DEF FadeOK
<1>7. QED
  BY <1>6 DEF g

LEMMA NoFadeHere == NoFade \in Fades
BY ConfigAssumption DEF NoFade, Fades

LEMMA FadeStepKeeps ==
  ASSUME AtariOK(atari), FadeOK(atari.at, fade), FadeStep
  PROVE  FadeOK(atari'.at, fade')
<1>1. atari \in Ataris /\ fade \in Fades
  BY DEF AtariOK, FadeOK
<1>2. CASE CopyPalette
  <2>1. CASE atari.at = "complete_picture" /\ atari' = [atari EXCEPT !.at = "palette_copy"] /\ UNCHANGED fade
    BY <1>1, <2>1 DEF Ataris, FadeOK, FadePlaces
  <2>2. CASE /\ atari' = [atari EXCEPT !.at = "palette_words"]
             /\ \E level, step \in 0..(ByteLimit - 1) :
                  fade' = [NoFade EXCEPT !.level = level, !.step = step, !.left = FadePasses]
    <3>1. PICK level \in 0..(ByteLimit - 1), step \in 0..(ByteLimit - 1) :
            fade' = [NoFade EXCEPT !.level = level, !.step = step, !.left = FadePasses]
      BY <2>2
    <3>2. fade' \in Fades /\ fade'.left = FadePasses /\ fade'.passes = 0
      <4>1. FadePasses \in Nat /\ FadePasses \in 0..FadePasses
        BY ConfigAssumption
      <4>2. NoFade.passes = 0
        BY DEF NoFade
      <4>3. QED
        BY <3>1, <4>1, <4>2, NoFadeHere DEF Fades
    <3>3. atari'.at = "palette_words"
      BY <1>1, <2>2 DEF Ataris
    <3>4. QED
      BY <3>2, <3>3 DEF FadeOK
  <2>3. QED
    BY <1>2, <2>1, <2>2 DEF CopyPalette
<1>3. CASE PaletteWords
  <2>1. PICK c \in 0..1 :
          fade' = Faded([fade EXCEPT !.colour = c, !.start = c * ByteLimit + fade.level])
    BY <1>3 DEF PaletteWords
  <2>2. atari.at = "palette_words" /\ atari'.at = "palette_set"
    BY <1>1, <1>3 DEF PaletteWords, Ataris
  <2> DEFINE f == [fade EXCEPT !.colour = c, !.start = c * ByteLimit + fade.level]
  <2>3. fade.left = FadePasses /\ fade.passes = 0 /\ fade.level \in Nat /\ fade.step \in Nat
    BY <1>1, <2>2 DEF FadeOK, Fades
  <2>4. PICK n \in Nat : n = c * ByteLimit + fade.level
    BY <2>3, ConfigAssumption
  <2>5. /\ f \in Fades /\ f.colour = c /\ f.start = n /\ f.level = fade.level /\ f.left = FadePasses
        /\ f.passes = 0 /\ f.step = fade.step
    <3>1. f = [fade EXCEPT !.colour = c, !.start = n] /\ c \in Nat
      BY <2>4
    <3>2. QED
      BY <1>1, <2>3, <2>4, <3>1 DEF Fades
  <2> HIDE DEF f
  <2>6. f.colour * ByteLimit + f.level = f.start + f.passes * f.step
    <3>1. f.passes * f.step = 0
      BY <2>3, <2>5
    <3>2. QED
      BY <2>4, <2>5, <3>1
  <2>7. f.passes + f.left = FadePasses
    BY <2>5, ConfigAssumption
  <2>8. FadeOK("palette_set", Faded(f))
    BY <2>5, <2>6, <2>7, FadedKeeps
  <2>9. QED
    BY <2>1, <2>2, <2>8 DEF f
<1>4. CASE PaletteSet
  <2>1. /\ atari.at = "palette_set" /\ fade.passes + fade.left = FadePasses + 1
        /\ fade.colour * ByteLimit + fade.level = fade.start + fade.passes * fade.step
        /\ fade.left \in 0..FadePasses /\ fade.passes \in Nat /\ FadePasses \in Nat
    BY <1>1, <1>4, ConfigAssumption DEF PaletteSet, FadeOK, FadePlaces, Fades
  <2>2. CASE fade.left = 0
    <3>1. atari'.at = "palette_last" /\ fade' = fade
      BY <1>1, <1>4, <2>2 DEF PaletteSet, Ataris
    <3>2. QED
      BY <1>1, <2>1, <2>2, <3>1 DEF FadeOK
  <2>3. CASE fade.left # 0
    <3>1. PICK n \in 0..FadePasses : n = fade.left - 1
      BY <2>1, <2>3
    <3>2. atari'.at = "palette_recurrence" /\ fade' = [fade EXCEPT !.left = n]
      BY <1>1, <1>4, <2>3, <3>1 DEF PaletteSet, Ataris
    <3>3. /\ fade' \in Fades /\ fade'.left = n /\ fade'.passes = fade.passes
          /\ fade'.colour = fade.colour /\ fade'.level = fade.level /\ fade'.start = fade.start
          /\ fade'.step = fade.step
      BY <1>1, <3>2 DEF Fades
    <3>4. fade'.passes + fade'.left = FadePasses
      BY <2>1, <3>1, <3>3
    <3>5. QED
      BY <2>1, <3>2, <3>3, <3>4 DEF FadeOK
  <2>4. QED
    BY <2>2, <2>3
<1>5. CASE PaletteRecurrence
  <2>1. /\ fade.passes + fade.left = FadePasses
        /\ fade.colour * ByteLimit + fade.level = fade.start + fade.passes * fade.step
    BY <1>5 DEF PaletteRecurrence, FadeOK, FadePlaces
  <2>2. atari'.at = "palette_set" /\ fade' = Faded(fade)
    BY <1>1, <1>5 DEF PaletteRecurrence, Ataris
  <2>3. QED
    BY <1>1, <2>1, <2>2, FadedKeeps
<1>6. CASE FadeReturn
  <2>1. CASE atari.at = "palette_last" /\ atari' = [atari EXCEPT !.at = "palette_rts"] /\ UNCHANGED fade
    BY <1>1, <2>1 DEF Ataris, FadeOK, FadePlaces
  <2>2. CASE atari' = [atari EXCEPT !.at = "jsr_2aa0c", !.second = TRUE] /\ fade' = NoFade
    BY <1>1, <2>2, NoFadeHere DEF Ataris, FadeOK, FadePlaces
  <2>3. QED
    BY <1>6, <2>1, <2>2 DEF FadeReturn
<1>7. QED
  BY <1>2, <1>3, <1>4, <1>5, <1>6 DEF FadeStep

(* The places of the picture, and the operations between.                  *)
UnpackPlaces == {"source_byte", "zero_pair", "zero_counter", "replicated", "swapped", "extended",
                 "complete_picture"}

LEMMA AtariEdgesOutside ==
  ASSUME NEW p, NEW a \in EdgeEnds(StraightEdges, p) \cup EdgeEnds(LoaderEdges, p)
  PROVE  a \notin FadePlaces \cup UnpackPlaces /\ a # "palette_copy"
BY DEF EdgeEnds, StraightEdges, ServiceEdges16, CalleeEdges, CallerEdges, LoaderEdges,
       FadePlaces, UnpackPlaces

LEMMA OtherStepsOutside ==
  ASSUME AtariOK(atari),
         \/ Straight \/ CalleeLoop \/ Fopen \/ Fread \/ Fclose \/ FreadPrefix \/ Loader
         \/ \E toModule \in BOOLEAN : LoaderReturns(toModule)
  PROVE  /\ atari'.at \notin FadePlaces \cup UnpackPlaces /\ atari'.at # "palette_copy"
         /\ UNCHANGED <<picture, fade>>
<1>1. UNCHANGED <<picture, fade>>
  BY DEF Straight, CalleeLoop, Fopen, Fread, Fclose, FreadPrefix, Loader, LoaderReturns
<1>2. atari \in Ataris
  BY DEF AtariOK
<1>3. CASE Straight \/ \E a \in EdgeEnds(LoaderEdges, atari.at) : atari' = [atari EXCEPT !.at = a]
  <2>1. PICK a \in EdgeEnds(StraightEdges, atari.at) \cup EdgeEnds(LoaderEdges, atari.at) :
          atari' = [atari EXCEPT !.at = a]
    BY <1>3 DEF Straight
  <2>2. atari'.at = a
    BY <1>2, <2>1 DEF Ataris
  <2>3. QED
    BY <1>1, <2>2, AtariEdgesOutside
<1>4. CASE ~Straight /\ ~\E a \in EdgeEnds(LoaderEdges, atari.at) : atari' = [atari EXCEPT !.at = a]
  <2>1. atari'.at \in {"d0_indexed_word", "movem_frame", "fopen_spin", "jsr_2a5c2", "fread",
                       "fclose", "fread_prefix", "second_rts", "jsr_2b2be", "post_fopen_spin",
                       "post_fread", "post_fclose", "post_rts", "complete"}
    <3>1. CASE CalleeLoop
      BY <1>2, <3>1 DEF CalleeLoop, LoopBranch, Ataris
    <3>2. CASE Fopen \/ Fread \/ Fclose \/ FreadPrefix
      BY <1>2, <3>2 DEF Fopen, Fread, Fclose, FreadPrefix, Ataris
    <3>3. CASE Loader
      BY <1>2, <1>4, <3>3 DEF Loader, Ataris
    <3>4. CASE \E toModule \in BOOLEAN : LoaderReturns(toModule)
      BY <1>2, <3>4 DEF LoaderReturns, Ataris
    <3>5. QED
      BY <1>4, <3>1, <3>2, <3>3, <3>4
  <2>2. QED
    BY <1>1, <2>1 DEF FadePlaces, UnpackPlaces
<1>5. QED
  BY <1>3, <1>4

LEMMA PictureStepOutside ==
  ASSUME AtariOK(atari), PictureStep
  PROVE  atari'.at \in UnpackPlaces /\ atari'.at \notin FadePlaces /\ fade' = fade
<1>1. atari \in Ataris
  BY DEF AtariOK
<1>2. atari'.at \in UnpackPlaces /\ fade' = fade
  BY <1>1 DEF PictureStep, Unpack, SourceByte, ZeroPair, ZeroCounter, Run, UnpackPlaces, Ataris
<1>3. QED
  BY <1>2 DEF FadePlaces, UnpackPlaces

-----------------------------------------------------------------------------
(* The unpacker.  A word's number is written with the plane as its lowest  *)
(* digit, the group next and the line above: each word has one place.      *)
WordOf(i, j, k) == i + LineWords * j + Planes * k

LEMMA DigitsApart ==
  ASSUME NEW m \in Nat \ {0}, NEW a \in 0..(m - 1), NEW c \in 0..(m - 1),
         NEW b \in Nat, NEW d \in Nat, a + m * b = c + m * d
  PROVE  a = c /\ b = d
<1>1. ASSUME NEW n \in Nat, n >= 1 PROVE m * n \in Nat /\ m * n >= m
  <2>1. m * (n - 1) \in Nat
    BY <1>1
  <2>2. m * n = m * (n - 1) + m
    BY <1>1
  <2>3. QED
    BY <2>1, <2>2
<1>2. m * b \in Nat /\ m * d \in Nat
  OBVIOUS
<1>3. CASE b < d
  <2>1. m * d = m * b + m * (d - b) /\ d - b \in Nat /\ d - b >= 1
    BY <1>3
  <2>2. m * (d - b) \in Nat /\ m * (d - b) >= m
    BY <1>1, <2>1
  <2>3. QED
    BY <1>2, <2>1, <2>2
<1>4. CASE d < b
  <2>1. m * b = m * d + m * (b - d) /\ b - d \in Nat /\ b - d >= 1
    BY <1>4
  <2>2. m * (b - d) \in Nat /\ m * (b - d) >= m
    BY <1>1, <2>1
  <2>3. QED
    BY <1>2, <2>1, <2>2
<1>5. CASE b = d
  BY <1>2, <1>5
<1>6. QED
  BY <1>3, <1>4, <1>5

LEMMA WordPlace ==
  ASSUME NEW i \in 0..(Planes - 1), NEW j \in Nat, NEW k \in 0..(Columns16 - 1),
         NEW a \in 0..(Planes - 1), NEW b \in Nat, NEW c \in 0..(Columns16 - 1),
         WordOf(i, j, k) = WordOf(a, b, c)
  PROVE  i = a /\ j = b /\ k = c
<1>1. Planes \in Nat \ {0} /\ Columns16 \in Nat \ {0}
  BY ConfigAssumption
<1>2. \A y \in Nat, z \in 0..(Columns16 - 1) :
        LineWords * y + Planes * z = Planes * (z + Columns16 * y)
  BY <1>1 DEF LineWords
<1>3. Columns16 * j \in Nat /\ Columns16 * b \in Nat
  BY <1>1
<1>4. k + Columns16 * j \in Nat /\ c + Columns16 * b \in Nat
  BY <1>1, <1>3
<1>5. i + Planes * (k + Columns16 * j) = a + Planes * (c + Columns16 * b)
  <2>1. LineWords * j \in Nat /\ Planes * k \in Nat /\ LineWords * b \in Nat /\ Planes * c \in Nat
    BY <1>1 DEF LineWords
  <2>2. i + (LineWords * j + Planes * k) = a + (LineWords * b + Planes * c)
    BY <2>1 DEF WordOf
  <2>3. QED
    BY <1>2, <2>2
<1>6. i = a /\ k + Columns16 * j = c + Columns16 * b
  BY <1>1, <1>4, <1>5, DigitsApart
<1>7. k = c /\ j = b
  BY <1>1, <1>6, DigitsApart
<1>8. QED
  BY <1>6, <1>7

LEMMA WordsStep ==
  ASSUME NEW i \in Nat, NEW j \in Nat, NEW k \in Nat
  PROVE  /\ WordOf(i, j, k) \in Nat
         /\ WordOf(i, j, k) + Planes = WordOf(i, j, k + 1)
         /\ WordOf(i, j, 0) + LineWords = WordOf(i, j + 1, 0)
         /\ WordOf(i, 0, 0) = i
<1>1. Planes \in Nat /\ Columns16 \in Nat /\ LineWords \in Nat
  BY ConfigAssumption DEF LineWords
<1>2. /\ LineWords * j \in Nat /\ Planes * k \in Nat /\ LineWords * (j + 1) = LineWords * j + LineWords
      /\ Planes * (k + 1) = Planes * k + Planes /\ LineWords * 0 = 0 /\ Planes * 0 = 0
  BY <1>1
<1>3. QED
  BY <1>1, <1>2 DEF WordOf

(* The words of r lines of c groups before a place.                        *)
EarlierPlace(a, b, d, i, j, k) ==
  \/ a < i
  \/ a = i /\ b < j
  \/ a = i /\ b = j /\ d < k

WordsTo(r, c, i, j, k) ==
  {w \in Nat : \E a \in 0..(Planes - 1), b \in 0..(r - 1), d \in 0..(c - 1) :
     w = WordOf(a, b, d) /\ EarlierPlace(a, b, d, i, j, k)}

LEMMA WordsOneMore ==
  ASSUME NEW r \in Nat, NEW c \in 1..Columns16, NEW i \in 0..(Planes - 1), NEW j \in 0..(r - 1),
         NEW k \in 0..(c - 1)
  PROVE  /\ WordsTo(r, c, i, j, k + 1) = WordsTo(r, c, i, j, k) \cup {WordOf(i, j, k)}
         /\ WordOf(i, j, k) \notin WordsTo(r, c, i, j, k)
<1>1. Planes \in Nat \ {0} /\ Columns16 \in Nat \ {0}
  BY ConfigAssumption
<1>2. i \in Nat /\ j \in Nat /\ k \in Nat /\ WordOf(i, j, k) \in Nat
  BY <1>1, WordsStep
<1>3. ASSUME NEW a \in 0..(Planes - 1), NEW b \in 0..(r - 1), NEW d \in 0..(c - 1)
      PROVE  /\ EarlierPlace(a, b, d, i, j, k + 1) <=>
                  EarlierPlace(a, b, d, i, j, k) \/ (a = i /\ b = j /\ d = k)
             /\ ~EarlierPlace(i, j, k, i, j, k)
  BY <1>1, <1>2 DEF EarlierPlace
<1>4. WordsTo(r, c, i, j, k + 1) \subseteq WordsTo(r, c, i, j, k) \cup {WordOf(i, j, k)}
  BY <1>3 DEF WordsTo
<1>5. WordsTo(r, c, i, j, k) \cup {WordOf(i, j, k)} \subseteq WordsTo(r, c, i, j, k + 1)
  BY <1>2, <1>3 DEF WordsTo
<1>6. WordOf(i, j, k) \notin WordsTo(r, c, i, j, k)
  <2>1. SUFFICES ASSUME NEW a \in 0..(Planes - 1), NEW b \in 0..(r - 1), NEW d \in 0..(c - 1),
                        WordOf(i, j, k) = WordOf(a, b, d), EarlierPlace(a, b, d, i, j, k)
                 PROVE  FALSE
    BY DEF WordsTo
  <2>2. b \in Nat /\ d \in 0..(Columns16 - 1) /\ k \in 0..(Columns16 - 1)
    BY <1>1
  <2>3. a = i /\ b = j /\ d = k
    BY <1>2, <2>1, <2>2, WordPlace
  <2>4. QED
    BY <1>3, <2>1, <2>3
<1>7. QED
  BY <1>4, <1>5, <1>6

LEMMA WordsLineEnds ==
  ASSUME NEW r \in Nat, NEW c \in 1..Columns16, NEW i \in Nat, NEW j \in Nat
  PROVE  WordsTo(r, c, i, j, c) = WordsTo(r, c, i, j + 1, 0)
<1>1. ASSUME NEW a \in 0..(Planes - 1), NEW b \in 0..(r - 1), NEW d \in 0..(c - 1)
      PROVE  EarlierPlace(a, b, d, i, j, c) <=> EarlierPlace(a, b, d, i, j + 1, 0)
  BY ConfigAssumption DEF EarlierPlace
<1>2. QED
  BY <1>1 DEF WordsTo

LEMMA WordsPlaneEnds ==
  ASSUME NEW r \in Nat, NEW c \in 1..Columns16, NEW i \in Nat
  PROVE  WordsTo(r, c, i, r, 0) = WordsTo(r, c, i + 1, 0, 0)
<1>1. ASSUME NEW a \in 0..(Planes - 1), NEW b \in 0..(r - 1), NEW d \in 0..(c - 1)
      PROVE  EarlierPlace(a, b, d, i, r, 0) <=> EarlierPlace(a, b, d, i + 1, 0, 0)
  BY ConfigAssumption DEF EarlierPlace
<1>2. QED
  BY <1>1 DEF WordsTo

LEMMA WordsAllDrawn ==
  ASSUME NEW r \in Nat, NEW c \in 1..Columns16, NEW j \in Int, NEW k \in Int
  PROVE  WordsTo(r, c, Planes, j, k) = WordsTo(r, c, Planes, 0, 0)
<1>1. ASSUME NEW a \in 0..(Planes - 1), NEW b \in 0..(r - 1), NEW d \in 0..(c - 1)
      PROVE  EarlierPlace(a, b, d, Planes, j, k) /\ EarlierPlace(a, b, d, Planes, 0, 0)
  BY ConfigAssumption DEF EarlierPlace
<1>2. QED
  BY <1>1 DEF WordsTo

LEMMA NoWords ==
  ASSUME NEW r \in Nat, NEW c \in 1..Columns16
  PROVE  WordsTo(r, c, 0, 0, 0) = {}
<1>1. ASSUME NEW a \in 0..(Planes - 1), NEW b \in 0..(r - 1), NEW d \in 0..(c - 1)
      PROVE  ~EarlierPlace(a, b, d, 0, 0, 0)
  BY ConfigAssumption DEF EarlierPlace
<1>2. QED
  BY <1>1 DEF WordsTo

(* The property's words are those.                                         *)
LEMMA WordsBeforeAre ==
  ASSUME NEW p, Remaining(p.rows) \in Nat, p.columns \in 1..Columns16
  PROVE  WordsBefore(p) =
           WordsTo(Remaining(p.rows), p.columns, Planes - p.plane,
                   Remaining(p.rows) - Remaining(p.row), p.columns - p.column)
<1> DEFINE r == Remaining(p.rows)
           i == Planes - p.plane
           j == r - Remaining(p.row)
           k == p.columns - p.column
           Cells == (0..(Planes - 1)) \X (0..(r - 1)) \X (0..(p.columns - 1))
           Cell(y) == \/ y[1] < i
                      \/ y[1] = i /\ y[2] < j
                      \/ y[1] = i /\ y[2] = j /\ y[3] < k
<1>1. WordsBefore(p) = {x[1] + LineWords * x[2] + Planes * x[3] : x \in {y \in Cells : Cell(y)}}
  BY DEF WordsBefore
<1>2. ASSUME NEW x \in Cells, Cell(x)
      PROVE  x[1] + LineWords * x[2] + Planes * x[3] \in WordsTo(r, p.columns, i, j, k)
  <2>1. x[1] \in 0..(Planes - 1) /\ x[2] \in 0..(r - 1) /\ x[3] \in 0..(p.columns - 1)
    OBVIOUS
  <2>2. x[1] \in Nat /\ x[2] \in Nat /\ x[3] \in Nat
    BY <2>1, ConfigAssumption
  <2>3. WordOf(x[1], x[2], x[3]) \in Nat /\ EarlierPlace(x[1], x[2], x[3], i, j, k)
    BY <1>2, <2>2, WordsStep DEF EarlierPlace
  <2>4. QED
    BY <2>1, <2>3 DEF WordsTo, WordOf
<1>3. ASSUME NEW a \in 0..(Planes - 1), NEW b \in 0..(r - 1), NEW d \in 0..(p.columns - 1),
             EarlierPlace(a, b, d, i, j, k)
      PROVE  WordOf(a, b, d) \in {x[1] + LineWords * x[2] + Planes * x[3] : x \in {y \in Cells : Cell(y)}}
  <2>1. <<a, b, d>> \in Cells /\ Cell(<<a, b, d>>)
    BY <1>3 DEF EarlierPlace
  <2>2. WordOf(a, b, d) = <<a, b, d>>[1] + LineWords * <<a, b, d>>[2] + Planes * <<a, b, d>>[3]
    BY DEF WordOf
  <2> HIDE DEF Cells, Cell
  <2>3. QED
    BY <2>1, <2>2
<1> HIDE DEF Cells, Cell, i, j, k, r
<1>4. WordsBefore(p) \subseteq WordsTo(r, p.columns, i, j, k)
  BY <1>1, <1>2
<1>5. WordsTo(r, p.columns, i, j, k) \subseteq WordsBefore(p)
  BY <1>1, <1>3 DEF WordsTo
<1>6. WordsBefore(p) = WordsTo(r, p.columns, i, j, k)
  BY <1>4, <1>5
<1>7. QED
  BY <1>6 DEF i, j, k, r

(* The unpacker's registers name the place of the next word, and the words *)
(* drawn are those before it.                                              *)
Pictures ==
  [columns : 1..Columns16, rows : 0..Lines, column : 0..Columns16, row : 0..(CountLimit - 1),
   plane : 0..Planes, run : 0..(CountLimit - 1), address : Int, line : Int, base : Int,
   drawn : SUBSET Int, twice : BOOLEAN]

(* The place in plane i, line j and group k.                               *)
PlaceIs(p, i, j, k) ==
  /\ i \in 0..(Planes - 1) /\ p.plane = Planes - i
  /\ j \in 0..(Remaining(p.rows) - 1) /\ Remaining(p.row) = Remaining(p.rows) - j
  /\ k \in 0..p.columns /\ p.column = p.columns - k
  /\ p.base = i /\ p.line = WordOf(i, j, 0) /\ p.address = WordOf(i, j, k)
  /\ p.drawn = WordsTo(Remaining(p.rows), p.columns, i, j, k)

UnderWay(p) ==
  /\ p \in Pictures /\ ~p.twice
  /\ \E i, j, k \in Nat : PlaceIs(p, i, j, k)

AtWord(p) == UnderWay(p) /\ p.column # 0

PictureOver(p) ==
  /\ p \in Pictures /\ ~p.twice /\ p.plane = 0
  /\ p.drawn = WordsTo(Remaining(p.rows), p.columns, Planes, 0, 0)

LEMMA CountsHere ==
  /\ CountLimit \in Nat /\ CountLimit >= 2 /\ ByteLimit \in Nat /\ ByteLimit >= 2
  /\ ByteLimit <= CountLimit /\ RunLimit \in Nat \ {0} /\ RunLimit < ByteLimit
  /\ Lines \in Nat \ {0} /\ Lines < CountLimit
<1>1. /\ CountLimit \in Nat /\ ByteLimit \in Nat /\ RunLimit \in Nat \ {0} /\ RunLimit < ByteLimit
      /\ RunLimit * ByteLimit <= CountLimit /\ Lines \in Nat \ {0} /\ Lines < CountLimit
  BY ConfigAssumption
<1>2. RunLimit * ByteLimit = ByteLimit + (RunLimit - 1) * ByteLimit /\ (RunLimit - 1) * ByteLimit \in Nat
  BY <1>1
<1>3. QED
  BY <1>1, <1>2

LEMMA CountedDown ==
  ASSUME NEW n \in 0..(CountLimit - 1)
  PROVE  /\ Decremented(n) \in 0..(CountLimit - 1)
         /\ Remaining(n) \in 1..CountLimit
         /\ Decremented(n) = 0 <=> Remaining(n) = 1
         /\ Decremented(n) # 0 => Remaining(Decremented(n)) = Remaining(n) - 1
<1>1. CountLimit \in Nat /\ CountLimit >= 2
  BY CountsHere
<1>2. CASE n = 0
  <2>1. (n - 1) % CountLimit = CountLimit - 1
    <3>1. (0 - 1) % CountLimit = (CountLimit - 1) % CountLimit
      BY <1>1
    <3>2. QED
      BY <1>1, <1>2, <3>1
  <2>2. QED
    BY <1>1, <1>2, <2>1 DEF Decremented, Remaining
<1>3. CASE n # 0
  <2>1. (n - 1) % CountLimit = n - 1
    BY <1>1, <1>3
  <2>2. QED
    BY <1>1, <1>3, <2>1 DEF Decremented, Remaining
<1>4. QED
  BY <1>2, <1>3

LEMMA DrawnKeeps ==
  ASSUME NEW p, AtWord(p)
  PROVE  UnderWay(Drawn(p)) /\ Drawn(p).run = p.run
<1>1. p \in Pictures /\ ~p.twice /\ p.column # 0
  BY DEF AtWord, UnderWay
<1>2. PICK i \in Nat, j \in Nat, k \in Nat : PlaceIs(p, i, j, k)
  BY DEF AtWord, UnderWay
<1> DEFINE r == Remaining(p.rows)
           ws == WordsTo(r, p.columns, i, j, k)
<1>3. /\ i \in 0..(Planes - 1) /\ j \in 0..(r - 1) /\ k \in 0..(p.columns - 1)
      /\ p.address = WordOf(i, j, k) /\ p.drawn = ws /\ p.columns \in 1..Columns16
      /\ p.column = p.columns - k
  BY <1>1, <1>2 DEF PlaceIs, Pictures
<1>4. r \in Nat
  BY <1>1, CountsHere DEF Remaining, Pictures
<1>5. /\ WordsTo(r, p.columns, i, j, k + 1) = ws \cup {p.address} /\ p.address \notin p.drawn
  BY <1>3, <1>4, WordsOneMore
<1>6. p.address \in Nat /\ p.address + Planes = WordOf(i, j, k + 1)
  BY <1>3, WordsStep
<1>7. PICK n \in 0..Columns16 : n = p.column - 1
  BY <1>1, ConfigAssumption DEF Pictures
<1>8. PICK a \in Int : a = p.address + Planes
  BY <1>6, ConfigAssumption
<1>9. Drawn(p) = [p EXCEPT !.drawn = ws \cup {p.address}, !.twice = FALSE, !.address = a, !.column = n]
  BY <1>1, <1>3, <1>5, <1>7, <1>8 DEF Drawn
<1>10. ws \cup {p.address} \in SUBSET Int
  BY <1>6 DEF WordsTo
<1> HIDE DEF ws
<1> DEFINE q == Drawn(p)
<1>11. /\ q \in Pictures /\ ~q.twice /\ q.columns = p.columns /\ q.rows = p.rows /\ q.row = p.row
       /\ q.plane = p.plane /\ q.run = p.run /\ q.base = p.base /\ q.line = p.line
       /\ q.column = n /\ q.address = a /\ q.drawn = ws \cup {p.address}
  BY <1>1, <1>9, <1>10 DEF Pictures
<1> HIDE DEF q
<1>12. PlaceIs(q, i, j, k + 1)
  BY <1>2, <1>3, <1>5, <1>6, <1>7, <1>8, <1>11 DEF PlaceIs
<1>13. k + 1 \in Nat
  OBVIOUS
<1>14. UnderWay(q) /\ q.run = p.run
  BY <1>11, <1>12, <1>13 DEF UnderWay
<1>15. QED
  BY <1>14 DEF q

(* The registers after a line or a plane are those of the next place.      *)
LEMMA NextPlaneKeeps ==
  ASSUME NEW p \in Pictures, ~p.twice, NEW i \in Nat, NEW j \in Nat,
         PlaceIs(p, i, j, p.columns), Remaining(p.row) = 1
  PROVE  /\ AtWord(NextPlane(p)) \/ PictureOver(NextPlane(p))
         /\ NextPlane(p).run = p.run
<1> DEFINE r == Remaining(p.rows)
           c == p.columns
           q == NextPlane(p)
<1>1. /\ Planes \in Nat \ {0} /\ Columns16 \in Nat \ {0} /\ c \in 1..Columns16
      /\ CountLimit \in Nat /\ CountLimit >= 2 /\ Lines \in Nat /\ Lines < CountLimit
  BY CountsHere, ConfigAssumption DEF Pictures
<1>2. r \in 1..CountLimit /\ p.rows \in 0..(CountLimit - 1)
  BY <1>1 DEF Remaining, Pictures
<1>3. /\ i \in 0..(Planes - 1) /\ p.plane = Planes - i /\ j = r - 1
      /\ p.drawn = WordsTo(r, c, i, j, c) /\ p.base = i
  BY <1>1, <1>2 DEF PlaceIs, Pictures
<1>4. p.drawn = WordsTo(r, c, i + 1, 0, 0)
  <2>1. j + 1 = r /\ r \in Nat
    BY <1>2, <1>3
  <2>2. WordsTo(r, c, i, j, c) = WordsTo(r, c, i, r, 0)
    BY <1>1, <2>1, WordsLineEnds
  <2>3. QED
    BY <1>1, <1>3, <2>1, <2>2, WordsPlaneEnds
<1>5. CASE p.plane = 1
  <2>1. q = [p EXCEPT !.plane = 0, !.row = 0] /\ i + 1 = Planes
    BY <1>1, <1>3, <1>5 DEF NextPlane
  <2>2. /\ q \in Pictures /\ q.plane = 0 /\ q.twice = p.twice /\ q.rows = p.rows /\ q.columns = c
        /\ q.run = p.run /\ q.drawn = p.drawn
    <3>1. 0 \in 0..Planes /\ 0 \in 0..(CountLimit - 1)
      BY <1>1
    <3>2. QED
      BY <2>1, <3>1 DEF Pictures
  <2> HIDE DEF q
  <2>3. PictureOver(q)
    BY <1>4, <2>1, <2>2 DEF PictureOver
  <2>4. QED
    BY <2>2, <2>3 DEF q
<1>6. CASE p.plane # 1
  <2>1. PICK n \in 0..Planes : n = p.plane - 1
    BY <1>1, <1>3
  <2>2. PICK m \in Int : m = p.base + 1 /\ m = i + 1
    BY <1>3
  <2>3. q = [p EXCEPT !.plane = n, !.base = m, !.line = m, !.address = m, !.column = c, !.row = p.rows]
    BY <1>6, <2>1, <2>2 DEF NextPlane
  <2>4. /\ q \in Pictures /\ q.plane = n /\ q.base = m /\ q.line = m /\ q.address = m
        /\ q.column = c /\ q.row = p.rows /\ q.rows = p.rows /\ q.columns = c
        /\ q.drawn = p.drawn /\ q.run = p.run /\ q.twice = p.twice
    <3>1. c \in 0..Columns16
      BY <1>1
    <3>2. QED
      BY <1>2, <2>3, <3>1 DEF Pictures
  <2> HIDE DEF q
  <2>5. m \in Nat /\ m \in 0..(Planes - 1) /\ n = Planes - m
    BY <1>1, <1>3, <1>6, <2>1, <2>2
  <2>6. WordOf(m, 0, 0) = m
    BY <2>5, WordsStep
  <2>7. PlaceIs(q, m, 0, 0)
    BY <1>1, <1>2, <1>4, <2>2, <2>4, <2>5, <2>6 DEF PlaceIs
  <2>8. AtWord(q)
    BY <1>1, <2>4, <2>5, <2>7 DEF AtWord, UnderWay
  <2>9. QED
    BY <2>4, <2>8 DEF q
<1>7. QED
  BY <1>5, <1>6

LEMMA NextLineKeeps ==
  ASSUME NEW p, UnderWay(p), p.column = 0
  PROVE  /\ AtWord(NextLine(p)) \/ PictureOver(NextLine(p))
         /\ NextLine(p).run = p.run
<1>1. p \in Pictures /\ ~p.twice
  BY DEF UnderWay
<1>2. PICK i \in Nat, j \in Nat, k \in Nat : PlaceIs(p, i, j, k)
  BY DEF UnderWay
<1> DEFINE r == Remaining(p.rows)
           c == p.columns
           q == NextLine(p)
<1>3. c \in 1..Columns16 /\ c \in Nat /\ k = c
  BY <1>1, <1>2, ConfigAssumption DEF PlaceIs, Pictures
<1>4. PlaceIs(p, i, j, c)
  BY <1>2, <1>3
<1>5. CASE Decremented(p.row) = 0
  <2>1. Remaining(p.row) = 1
    BY <1>1, <1>5, CountedDown DEF Pictures
  <2>2. q = NextPlane(p)
    BY <1>5 DEF NextLine
  <2>3. QED
    BY <1>1, <1>4, <2>1, <2>2, NextPlaneKeeps
<1>6. CASE Decremented(p.row) # 0
  <2>1. /\ Decremented(p.row) \in 0..(CountLimit - 1)
        /\ Remaining(Decremented(p.row)) = Remaining(p.row) - 1
        /\ Remaining(p.row) \in 1..CountLimit /\ Remaining(p.row) # 1
    BY <1>1, <1>6, CountedDown DEF Pictures
  <2>2. /\ i \in 0..(Planes - 1) /\ j \in 0..(r - 1) /\ Remaining(p.row) = r - j /\ p.plane = Planes - i
        /\ p.line = WordOf(i, j, 0) /\ p.base = i /\ p.drawn = WordsTo(r, c, i, j, c)
    BY <1>4 DEF PlaceIs
  <2>3. r \in Nat /\ CountLimit \in Nat
    BY <1>1, CountsHere DEF Remaining, Pictures
  <2>4. p.line + LineWords = WordOf(i, j + 1, 0) /\ p.line + LineWords \in Nat
    BY <2>2, WordsStep
  <2>5. PICK m \in Int : m = p.line + LineWords
    BY <2>4
  <2>6. PICK n \in 0..(CountLimit - 1) : n = Decremented(p.row)
    BY <2>1
  <2>7. q = [p EXCEPT !.row = n, !.line = m, !.address = m, !.column = c]
    BY <1>6, <2>5, <2>6 DEF NextLine
  <2>8. /\ q \in Pictures /\ q.row = n /\ q.line = m /\ q.address = m /\ q.column = c
        /\ q.plane = p.plane /\ q.base = p.base /\ q.rows = p.rows /\ q.columns = c
        /\ q.drawn = p.drawn /\ q.run = p.run /\ q.twice = p.twice
    <3>1. c \in 0..Columns16
      BY <1>3, ConfigAssumption
    <3>2. QED
      BY <1>1, <2>7, <3>1 DEF Pictures
  <2> HIDE DEF q
  <2>9. p.drawn = WordsTo(r, c, i, j + 1, 0)
    BY <1>3, <2>2, <2>3, WordsLineEnds
  <2>10. j + 1 \in 0..(r - 1) /\ Remaining(n) = r - (j + 1)
    BY <2>1, <2>2, <2>3, <2>6
  <2>11. PlaceIs(q, i, j + 1, 0)
    BY <1>3, <2>2, <2>4, <2>5, <2>8, <2>9, <2>10 DEF PlaceIs
  <2>12. AtWord(q)
    <3>1. j + 1 \in Nat /\ c # 0
      BY <1>3
    <3>2. QED
      BY <1>1, <2>8, <2>11, <3>1 DEF AtWord, UnderWay
  <2>13. QED
    BY <2>8, <2>12 DEF q
<1>7. QED
  BY <1>5, <1>6

LEMMA NextGroupKeeps ==
  ASSUME NEW p, UnderWay(p)
  PROVE  /\ AtWord(NextGroup(p)) \/ PictureOver(NextGroup(p))
         /\ NextGroup(p).run = p.run
<1>1. CASE p.column = 0
  BY <1>1, NextLineKeeps DEF NextGroup
<1>2. CASE p.column # 0
  BY <1>2 DEF NextGroup, AtWord
<1>3. QED
  BY <1>1, <1>2

-----------------------------------------------------------------------------
(* The runs.                                                               *)
LEMMA RunWordKeeps ==
  ASSUME NEW p, AtWord(p)
  PROVE  AtWord(RunWord(p)) \/ PictureOver(RunWord(p))
<1> DEFINE q == NextGroup(Drawn(p))
<1>1. (AtWord(q) \/ PictureOver(q)) /\ q.run = p.run
  BY DrawnKeeps, NextGroupKeeps
<1>2. CASE q.plane = 0
  <2>1. RunWord(p) = q
    BY <1>2 DEF RunWord
  <2>2. QED
    BY <1>1, <2>1
<1>3. CASE q.plane # 0
  <2>1. AtWord(q) /\ q \in Pictures
    BY <1>1, <1>3 DEF PictureOver, AtWord, UnderWay
  <2>2. PICK n \in 0..(CountLimit - 1) : n = Decremented(q.run)
    BY <2>1, CountedDown DEF Pictures
  <2>3. RunWord(p) = [q EXCEPT !.run = n]
    BY <1>3, <2>2 DEF RunWord
  <2> HIDE DEF q
  <2> DEFINE u == [q EXCEPT !.run = n]
  <2>4. /\ u \in Pictures /\ u.twice = q.twice /\ u.column = q.column /\ u.columns = q.columns
        /\ u.rows = q.rows /\ u.row = q.row /\ u.plane = q.plane /\ u.base = q.base
        /\ u.line = q.line /\ u.address = q.address /\ u.drawn = q.drawn
    BY <2>1 DEF Pictures
  <2> HIDE DEF u
  <2>5. AtWord(u)
    BY <2>1, <2>4 DEF AtWord, UnderWay, PlaceIs
  <2>6. QED
    BY <2>3, <2>5 DEF u
<1>4. QED
  BY <1>2, <1>3

(* The word after another, and nothing after the picture's end.            *)
RunGoesOn(p) == IF p.plane = 0 THEN p ELSE RunWord(p)

LEMMA RunGoesOnKeeps ==
  ASSUME NEW p, AtWord(p) \/ PictureOver(p)
  PROVE  AtWord(RunGoesOn(p)) \/ PictureOver(RunGoesOn(p))
<1>1. CASE p.plane = 0
  BY <1>1 DEF RunGoesOn
<1>2. CASE p.plane # 0
  BY <1>2, RunWordKeeps DEF RunGoesOn, PictureOver
<1>3. QED
  BY <1>1, <1>2

(* Every run ends at a word to draw, or at the end of the picture.         *)
LEMMA RunDrawnKeeps ==
  ASSUME NEW p, AtWord(p)
  PROVE  AtWord(RunDrawn(p)) \/ PictureOver(RunDrawn(p))
<1> DEFINE n == IF p.run = 0 THEN CountLimit ELSE p.run
           Step(f, i) == IF i = 0 THEN p ELSE RunGoesOn(f[i - 1])
           Families(f, k) == f = [i \in 0..k |-> Step(f, i)]
           Limits == {k \in Nat : \E f : Families(f, k)}
<1>0. n \in Nat
  BY CountsHere DEF AtWord, UnderWay, Pictures
<1> HIDE DEF n
<1>1. 0 \in Limits
  <2> DEFINE f == [i \in 0..0 |-> p]
  <2>1. Families(f, 0)
    OBVIOUS
  <2>2. QED
    BY <2>1
<1>2. ASSUME NEW k \in Nat, k \in Limits PROVE k + 1 \in Limits
  <2>1. PICK f : Families(f, k)
    BY <1>2
  <2> DEFINE g == [i \in 0..(k + 1) |-> IF i = k + 1 THEN RunGoesOn(f[k]) ELSE f[i]]
  <2>2. ASSUME NEW i \in 0..(k + 1) PROVE g[i] = Step(g, i)
    <3>1. CASE i = k + 1
      BY <3>1
    <3>2. CASE i \in 1..k
      <4>1. g[i] = f[i] /\ g[i - 1] = f[i - 1] /\ i # 0
        BY <3>2
      <4>2. f[i] = Step(f, i)
        <5> HIDE DEF Step
        <5>1. QED
          BY <2>1, <3>2
      <4>3. QED
        BY <4>1, <4>2
    <3>3. CASE i = 0
      BY <2>1, <3>3
    <3>4. QED
      BY <3>1, <3>2, <3>3
  <2>3. Families(g, k + 1)
    <3>1. g = [i \in 0..(k + 1) |-> g[i]]
      OBVIOUS
    <3> HIDE DEF g, Step
    <3>2. QED
      BY <2>2, <3>1
  <2> HIDE DEF g, Families
  <2>4. QED
    BY <2>3
<1>3. n \in Limits
  <2> HIDE DEF Limits
  <2>1. QED
    BY <1>0, <1>1, <1>2, NatSetInduction
<1> DEFINE after == CHOOSE h : h = [i \in 0..n |-> Step(h, i)]
<1>4. after = [i \in 0..n |-> Step(after, i)]
  <2>1. PICK f : Families(f, n)
    BY <1>3
  <2>2. QED
    BY <2>1
<1>5. RunDrawn(p) = after[n]
  BY DEF RunDrawn, n, RunGoesOn
<1> HIDE DEF after
<1> DEFINE Same == {k \in Nat : k <= n => AtWord(after[k]) \/ PictureOver(after[k])}
<1>6. 0 \in Same
  <2>1. after[0] = p
    BY <1>0, <1>4
  <2>2. QED
    BY <2>1
<1>7. ASSUME NEW k \in Nat, k \in Same PROVE k + 1 \in Same
  <2>1. SUFFICES ASSUME k + 1 <= n PROVE AtWord(after[k + 1]) \/ PictureOver(after[k + 1])
    OBVIOUS
  <2>2. k + 1 \in 0..n /\ k + 1 # 0 /\ (k + 1) - 1 = k /\ k <= n
    BY <1>0, <2>1
  <2>3. after[k + 1] = Step(after, k + 1)
    <3> HIDE DEF Step
    <3>1. QED
      BY <1>4, <2>2
  <2>4. after[k + 1] = RunGoesOn(after[k])
    BY <2>2, <2>3
  <2>5. AtWord(after[k]) \/ PictureOver(after[k])
    BY <1>7, <2>2
  <2>6. QED
    BY <2>4, <2>5, RunGoesOnKeeps
<1>8. n \in Same
  <2> HIDE DEF Same
  <2>1. QED
    BY <1>0, <1>6, <1>7, NatSetInduction
<1>9. n <= n
  BY <1>0
<1>10. QED
  BY <1>5, <1>8, <1>9

-----------------------------------------------------------------------------
(* The picture at each place of the session.                               *)
WordPlaces == {"source_byte", "zero_pair", "replicated", "swapped", "extended"}

PictureFits(at, p) ==
  /\ at \notin UnpackPlaces \cup {"palette_copy"} => p = NoPicture
  /\ at \in WordPlaces => AtWord(p)
  /\ at = "zero_counter" => UnderWay(p)
  /\ at \in {"complete_picture", "palette_copy"} => PictureOver(p)
  /\ at = "extended" => p.run < RunLimit

LEMMA RunSetKeeps ==
  ASSUME NEW p, AtWord(p), NEW n \in 0..(CountLimit - 1)
  PROVE  AtWord([p EXCEPT !.run = n]) /\ [p EXCEPT !.run = n].run = n
<1> DEFINE u == [p EXCEPT !.run = n]
<1>1. p \in Pictures
  BY DEF AtWord, UnderWay
<1>2. /\ u \in Pictures /\ u.twice = p.twice /\ u.column = p.column /\ u.columns = p.columns
      /\ u.rows = p.rows /\ u.row = p.row /\ u.plane = p.plane /\ u.base = p.base
      /\ u.line = p.line /\ u.address = p.address /\ u.drawn = p.drawn /\ u.run = n
  BY <1>1 DEF Pictures
<1> HIDE DEF u
<1>3. AtWord(u)
  BY <1>2 DEF AtWord, UnderWay, PlaceIs
<1>4. QED
  BY <1>2, <1>3 DEF u

LEMMA NoPictureHere ==
  /\ NoPicture \in Pictures /\ NoPicture.address = 0 /\ NoPicture.line = 0
  /\ NoPicture.base = 0 /\ NoPicture.drawn = {} /\ ~NoPicture.twice
<1>1. Columns16 \in Nat \ {0} /\ Planes \in Nat \ {0} /\ Lines \in Nat \ {0}
  BY ConfigAssumption
<1>2. 1 \in 1..Columns16 /\ 1 \in 0..Columns16 /\ 0 \in 0..Columns16
  BY <1>1
<1>3. 1 \in 0..Lines /\ 0 \in 0..Planes
  BY <1>1
<1>4. 1 \in 0..(CountLimit - 1) /\ 0 \in 0..(CountLimit - 1)
  BY CountsHere
<1>5. QED
  BY <1>2, <1>3, <1>4 DEF NoPicture, Pictures

LEMMA NewPictureFits ==
  ASSUME NEW c \in 1..Columns16, NEW r \in 0..Lines
  PROVE  AtWord(NewPicture(c, r))
<1> DEFINE q == NewPicture(c, r)
<1>1. /\ Planes \in Nat \ {0} /\ Columns16 \in Nat \ {0} /\ CountLimit \in Nat /\ CountLimit >= 2
      /\ Lines \in Nat /\ Lines < CountLimit
  BY CountsHere, ConfigAssumption
<1>2. c \in 0..Columns16 /\ r \in 0..(CountLimit - 1) /\ Planes \in 0..Planes
      /\ 0 \in 0..(CountLimit - 1)
  BY <1>1
<1>3. q = [NoPicture EXCEPT !.columns = c, !.rows = r, !.column = c, !.row = r, !.plane = Planes]
  BY DEF NewPicture
<1>4. /\ q \in Pictures /\ q.columns = c /\ q.rows = r /\ q.column = c /\ q.row = r
      /\ q.plane = Planes /\ q.address = 0 /\ q.line = 0 /\ q.base = 0 /\ q.drawn = {} /\ ~q.twice
  BY <1>2, <1>3, NoPictureHere DEF Pictures
<1> HIDE DEF q
<1>5. Remaining(r) \in Nat /\ Remaining(r) >= 1
  BY <1>1, <1>2 DEF Remaining
<1>6. WordOf(0, 0, 0) = 0 /\ WordsTo(Remaining(r), c, 0, 0, 0) = {}
  BY <1>5, WordsStep, NoWords
<1>7. PlaceIs(q, 0, 0, 0)
  BY <1>1, <1>2, <1>4, <1>5, <1>6 DEF PlaceIs
<1>8. AtWord(q)
  BY <1>1, <1>4, <1>7 DEF AtWord, UnderWay
<1>9. QED
  BY <1>8 DEF q

LEMMA PictureStepFits ==
  ASSUME AtariOK(atari), PictureFits(atari.at, picture), PictureStep
  PROVE  PictureFits(atari'.at, picture')
<1>1. atari \in Ataris
  BY DEF AtariOK
<1>2. CASE Unpack
  <2>1. atari'.at = "source_byte"
    BY <1>1, <1>2 DEF Unpack, Ataris
  <2>2. PICK c \in 1..Columns16, r \in 0..Lines : picture' = NewPicture(c, r)
    BY <1>2 DEF Unpack
  <2>3. AtWord(picture')
    BY <2>2, NewPictureFits
  <2>4. QED
    BY <2>1, <2>3 DEF PictureFits, UnpackPlaces, WordPlaces
<1>3. CASE SourceByte
  <2>1. PICK a \in {"zero_pair", "replicated", "swapped", "extended"}, n \in 0..(RunLimit - 1) :
          atari' = [atari EXCEPT !.at = a] /\ picture' = [picture EXCEPT !.run = n]
    BY <1>3 DEF SourceByte
  <2>2. AtWord(picture) /\ atari'.at = a
    BY <1>1, <1>3, <2>1 DEF SourceByte, PictureFits, WordPlaces, Ataris
  <2>3. n \in 0..(CountLimit - 1) /\ n < RunLimit
    BY CountsHere
  <2>4. AtWord(picture') /\ picture'.run = n
    BY <2>1, <2>2, <2>3, RunSetKeeps
  <2>5. QED
    BY <2>2, <2>3, <2>4 DEF PictureFits, UnpackPlaces, WordPlaces
<1>4. CASE ZeroPair
  <2>1. AtWord(picture) /\ picture' = Drawn(picture) /\ atari'.at = "zero_counter"
    BY <1>1, <1>4 DEF ZeroPair, PictureFits, WordPlaces, Ataris
  <2>2. UnderWay(picture')
    BY <2>1, DrawnKeeps
  <2>3. QED
    BY <2>1, <2>2 DEF PictureFits, UnpackPlaces, WordPlaces
<1>5. CASE ZeroCounter
  <2> DEFINE p == NextGroup(picture)
             n == (p.run - 1) % ByteLimit
  <2>1. /\ UnderWay(picture) /\ picture' = (IF p.plane = 0 THEN p ELSE [p EXCEPT !.run = n])
        /\ atari' = [atari EXCEPT !.at = IF p.plane = 0 THEN "complete_picture"
                                         ELSE IF n = 0 THEN "source_byte" ELSE "zero_pair"]
    BY <1>5 DEF ZeroCounter, PictureFits
  <2>2. AtWord(p) \/ PictureOver(p)
    BY <2>1, NextGroupKeeps
  <2>3. p.run \in 0..(CountLimit - 1) /\ (AtWord(p) => p.plane # 0)
    <3>1. p \in Pictures
      BY <2>2 DEF AtWord, UnderWay, PictureOver
    <3>2. AtWord(p) => p.plane # 0
      <4>1. ASSUME NEW i \in Nat, NEW j \in Nat, NEW k \in Nat, PlaceIs(p, i, j, k)
            PROVE  p.plane # 0
        BY <4>1, ConfigAssumption DEF PlaceIs
      <4>2. QED
        BY <4>1 DEF AtWord, UnderWay
    <3>3. QED
      BY <3>1, <3>2 DEF Pictures
  <2>4. n \in 0..(CountLimit - 1)
    <3>1. p.run - 1 \in Int
      BY <2>3, CountsHere
    <3>2. n \in 0..(ByteLimit - 1)
      BY <3>1, CountsHere
    <3>3. QED
      BY <3>2, CountsHere
  <2> HIDE DEF p, n
  <2>5. CASE p.plane = 0
    <3>1. PictureOver(picture') /\ atari'.at = "complete_picture"
      BY <1>1, <2>1, <2>2, <2>3, <2>5 DEF Ataris
    <3>2. QED
      BY <3>1 DEF PictureFits, UnpackPlaces, WordPlaces
  <2>6. CASE p.plane # 0
    <3>1. AtWord(p)
      BY <2>2, <2>6 DEF PictureOver
    <3>2. AtWord(picture')
      BY <2>1, <2>4, <2>6, <3>1, RunSetKeeps
    <3>3. atari'.at \in {"source_byte", "zero_pair"}
      BY <1>1, <2>1, <2>6 DEF Ataris
    <3>4. QED
      BY <3>2, <3>3 DEF PictureFits, UnpackPlaces, WordPlaces
  <2>7. QED
    BY <2>5, <2>6
<1>6. CASE Run
  <2>1. atari.at \in {"replicated", "swapped", "extended"}
    BY <1>6 DEF Run
  <2>2. PICK low \in 0..(ByteLimit - 1) :
          picture' = RunDrawn(IF atari.at = "extended"
                              THEN [picture EXCEPT !.run = @ * ByteLimit + low] ELSE picture)
    BY <1>6 DEF Run
  <2>3. AtWord(picture) /\ picture \in Pictures
    BY <2>1 DEF PictureFits, WordPlaces, AtWord, UnderWay
  <2>4. AtWord(RunDrawn(picture)) \/ PictureOver(RunDrawn(picture))
    BY <2>3, RunDrawnKeeps
  <2>5. AtWord(picture') \/ PictureOver(picture')
    <3>1. CASE atari.at = "extended"
      <4>1. picture.run \in Nat /\ picture.run <= RunLimit - 1
        BY <2>3, <3>1, CountsHere DEF PictureFits, Pictures
      <4>2. /\ RunLimit * ByteLimit = (RunLimit - 1) * ByteLimit + ByteLimit
            /\ (RunLimit - 1) * ByteLimit =
                 picture.run * ByteLimit + (RunLimit - 1 - picture.run) * ByteLimit
            /\ picture.run * ByteLimit \in Nat
            /\ (RunLimit - 1 - picture.run) * ByteLimit \in Nat
        <5>1. PICK m \in Nat : m = RunLimit - 1 - picture.run
          BY <4>1, CountsHere
        <5>2. m * ByteLimit \in Nat /\ picture.run * ByteLimit \in Nat
          BY <4>1, <5>1, CountsHere
        <5>3. RunLimit = m + picture.run + 1
          BY <4>1, <5>1, CountsHere
        <5>4. (m + picture.run + 1) * ByteLimit = m * ByteLimit + picture.run * ByteLimit + ByteLimit
          BY <4>1, <5>1, CountsHere
        <5>5. (m + picture.run) * ByteLimit = m * ByteLimit + picture.run * ByteLimit
          BY <4>1, <5>1, CountsHere
        <5>6. RunLimit - 1 = m + picture.run
          BY <4>1, <5>3
        <5>7. QED
          BY <5>1, <5>2, <5>3, <5>4, <5>5, <5>6, CountsHere
      <4>3. picture.run * ByteLimit + low \in 0..(CountLimit - 1)
        <5>1. RunLimit * ByteLimit <= CountLimit /\ RunLimit * ByteLimit \in Nat /\ low \in Nat
              /\ low < ByteLimit
          BY CountsHere, ConfigAssumption
        <5>2. QED
          BY <4>2, <5>1, CountsHere
      <4>4. AtWord([picture EXCEPT !.run = picture.run * ByteLimit + low])
        BY <2>3, <4>3, RunSetKeeps
      <4>5. QED
        BY <2>2, <3>1, <4>4, RunDrawnKeeps
    <3>2. CASE atari.at # "extended"
      BY <2>2, <2>4, <3>2
    <3>3. QED
      BY <3>1, <3>2
  <2>6. atari' = [atari EXCEPT !.at = IF picture'.plane = 0 THEN "complete_picture" ELSE "source_byte"]
    BY <1>6 DEF Run
  <2>7. CASE picture'.plane = 0
    <3>1. PictureOver(picture')
      <4>1. ASSUME NEW i \in Nat, NEW j \in Nat, NEW k \in Nat, PlaceIs(picture', i, j, k)
            PROVE  picture'.plane # 0
        BY <4>1, ConfigAssumption DEF PlaceIs
      <4>2. QED
        BY <2>5, <2>7, <4>1 DEF AtWord, UnderWay
    <3>2. atari'.at = "complete_picture"
      BY <1>1, <2>6, <2>7 DEF Ataris
    <3>3. QED
      BY <3>1, <3>2 DEF PictureFits, UnpackPlaces, WordPlaces
  <2>8. CASE picture'.plane # 0
    <3>1. AtWord(picture')
      BY <2>5, <2>8 DEF PictureOver
    <3>2. atari'.at = "source_byte"
      BY <1>1, <2>6, <2>8 DEF Ataris
    <3>3. QED
      BY <3>1, <3>2 DEF PictureFits, UnpackPlaces, WordPlaces
  <2>9. QED
    BY <2>7, <2>8
<1>7. QED
  BY <1>2, <1>3, <1>4, <1>5, <1>6 DEF PictureStep

LEMMA FadeStepFits ==
  ASSUME AtariOK(atari), PictureFits(atari.at, picture), FadeStep
  PROVE  PictureFits(atari'.at, picture')
<1>1. atari \in Ataris
  BY DEF AtariOK
<1>2. CASE CopyPalette
  <2>1. CASE atari.at = "complete_picture" /\ atari' = [atari EXCEPT !.at = "palette_copy"]
             /\ UNCHANGED picture
    BY <1>1, <2>1 DEF Ataris, PictureFits, UnpackPlaces, WordPlaces
  <2>2. CASE atari' = [atari EXCEPT !.at = "palette_words"] /\ picture' = NoPicture
    BY <1>1, <2>2 DEF Ataris, PictureFits, UnpackPlaces, WordPlaces
  <2>3. QED
    BY <1>2, <2>1, <2>2 DEF CopyPalette
<1>3. CASE PaletteWords \/ PaletteSet \/ PaletteRecurrence \/ FadeReturn
  <2>1. /\ atari.at \in {"palette_words", "palette_set", "palette_recurrence", "palette_last",
                         "palette_rts"}
        /\ picture' = picture
    BY <1>3 DEF PaletteWords, PaletteSet, PaletteRecurrence, FadeReturn
  <2>2. atari'.at \in {"palette_set", "palette_last", "palette_recurrence", "palette_rts", "jsr_2aa0c"}
    <3>1. CASE PaletteWords \/ PaletteRecurrence
      BY <1>1, <3>1 DEF PaletteWords, PaletteRecurrence, Ataris
    <3>2. CASE PaletteSet
      BY <1>1, <3>2 DEF PaletteSet, Ataris
    <3>3. CASE FadeReturn
      BY <1>1, <3>3 DEF FadeReturn, Ataris
    <3>4. QED
      BY <1>3, <3>1, <3>2, <3>3
  <2>3. picture = NoPicture
    BY <2>1 DEF PictureFits, UnpackPlaces
  <2>4. QED
    BY <2>1, <2>2, <2>3 DEF PictureFits, UnpackPlaces, WordPlaces
<1>4. QED
  BY <1>2, <1>3 DEF FadeStep

LEMMA OutsideKeeps ==
  ASSUME PictureFits(atari.at, picture), FadeOK(atari.at, fade),
         atari.at \notin UnpackPlaces \cup {"palette_copy"},
         atari'.at \notin FadePlaces \cup UnpackPlaces, atari'.at # "palette_copy",
         UNCHANGED <<picture, fade>>
  PROVE  PictureFits(atari'.at, picture') /\ FadeOK(atari'.at, fade')
BY DEF PictureFits, FadeOK, FadePlaces, UnpackPlaces, WordPlaces

LEMMA OtherStepsStart ==
  ASSUME \/ Straight \/ CalleeLoop \/ Fopen \/ Fread \/ Fclose \/ FreadPrefix \/ Loader
         \/ \E toModule \in BOOLEAN : LoaderReturns(toModule)
  PROVE  atari.at \notin UnpackPlaces \cup {"palette_copy"}
<1>1. CASE Straight \/ \E a : a \in EdgeEnds(LoaderEdges, atari.at)
  <2>1. PICK a : a \in EdgeEnds(StraightEdges, atari.at) \cup EdgeEnds(LoaderEdges, atari.at)
    BY <1>1 DEF Straight
  <2>2. QED
    BY <2>1 DEF EdgeEnds, StraightEdges, ServiceEdges16, CalleeEdges, CallerEdges, LoaderEdges,
                UnpackPlaces
<1>2. CASE ~Straight /\ ~\E a : a \in EdgeEnds(LoaderEdges, atari.at)
  BY <1>2 DEF CalleeLoop, Fopen, Fread, Fclose, FreadPrefix, Loader, LoaderReturns, UnpackPlaces
<1>3. QED
  BY <1>1, <1>2

-----------------------------------------------------------------------------
(* The inductive invariant of the Atari's sessions.                        *)
AtariInv == EntryInv /\ FadeOK(atari.at, fade) /\ PictureFits(atari.at, picture)

LEMMA AtariInitially == EntryInit => AtariInv
<1> SUFFICES ASSUME EntryInit PROVE AtariInv
  OBVIOUS
<1>1. picture = NoPicture /\ fade = NoFade /\ atari.at = "status_register"
  BY DEF EntryInit, ConfigInit, NewAtari
<1>2. EntryInv
  BY EntryInitially
<1>3. FadeOK(atari.at, fade)
  BY <1>1, NoFadeHere DEF FadeOK, FadePlaces
<1>4. PictureFits(atari.at, picture)
  BY <1>1 DEF PictureFits, UnpackPlaces, WordPlaces
<1>5. QED
  BY <1>2, <1>3, <1>4 DEF AtariInv

LEMMA AtariStepKeeps == AtariInv /\ [AtariStep]_entryVars => AtariInv'
<1> SUFFICES ASSUME AtariInv, [AtariStep]_entryVars PROVE AtariInv'
  OBVIOUS
<1>1. EntryInv /\ AtariOK(atari) /\ FadeOK(atari.at, fade) /\ PictureFits(atari.at, picture)
  BY DEF AtariInv, EntryInv
<1>2. EntryInv'
  BY <1>1, EntryStepKeeps
<1>3. PictureFits(atari'.at, picture') /\ FadeOK(atari'.at, fade')
  <2>1. CASE PictureStep
    <3>1. PictureFits(atari'.at, picture')
      BY <1>1, <2>1, PictureStepFits
    <3>2. FadeOK(atari'.at, fade')
      BY <1>1, <2>1, PictureStepOutside DEF FadeOK, FadePlaces
    <3>3. QED
      BY <3>1, <3>2
  <2>2. CASE FadeStep
    BY <1>1, <2>2, FadeStepFits, FadeStepKeeps
  <2>3. CASE \/ Straight \/ CalleeLoop \/ Fopen \/ Fread \/ Fclose \/ FreadPrefix \/ Loader
             \/ \E toModule \in BOOLEAN : LoaderReturns(toModule)
    BY <1>1, <2>3, OtherStepsStart, OtherStepsOutside, OutsideKeeps
  <2>4. CASE UNCHANGED configVars
    BY <1>1, <2>4 DEF configVars
  <2>5. ConfigStep \/ (\E toModule \in BOOLEAN : LoaderReturns(toModule)) \/ UNCHANGED configVars
    <3>1. CASE EntryStep
      BY <3>1 DEF EntryStep, LoaderReturn, EntryJump, StatusRegister, EntryService, LineA,
                  BytecodeCall, Bytecode, CrawcinFlag, EntryFopen, FopenReturn, Fcreate
    <3>2. CASE UNCHANGED entryVars
      BY <3>2 DEF entryVars
    <3>3. QED
      BY <3>1, <3>2 DEF AtariStep
  <2>6. QED
    BY <2>1, <2>2, <2>3, <2>4, <2>5 DEF ConfigStep
<1>4. QED
  BY <1>2, <1>3 DEF AtariInv

LEMMA AtariInvSays ==
  AtariInv => PictureIsSound /\ EntryFollowsLoader /\ ConfigTypeOK /\ EntryTypeOK
<1> SUFFICES ASSUME AtariInv
    PROVE  PictureIsSound /\ EntryFollowsLoader /\ ConfigTypeOK /\ EntryTypeOK
  OBVIOUS
<1>1. EntryInv /\ AtariOK(atari) /\ FadeOK(atari.at, fade) /\ PictureFits(atari.at, picture)
  BY DEF AtariInv, EntryInv
<1>2. EntryFollowsLoader /\ EntryTypeOK /\ PictureDrawnOnce
  BY <1>1, EntryInvSays
<1>3. FadeIsExact
  BY <1>1 DEF FadeOK, FadePlaces, FadeIsExact
<1>4. ASSUME AtWord(picture) \/ UnderWay(picture) \/ PictureOver(picture)
      PROVE  picture \in Pictures /\ ~picture.twice /\ picture.drawn = WordsBefore(picture)
  <2>1. picture \in Pictures /\ ~picture.twice
    BY <1>4 DEF AtWord, UnderWay, PictureOver
  <2>2. picture.columns \in 1..Columns16 /\ Remaining(picture.rows) \in Nat
        /\ Remaining(picture.row) \in Nat
    BY <2>1, CountsHere DEF Pictures, Remaining
  <2>3. WordsBefore(picture) =
          WordsTo(Remaining(picture.rows), picture.columns, Planes - picture.plane,
                  Remaining(picture.rows) - Remaining(picture.row), picture.columns - picture.column)
    BY <2>2, WordsBeforeAre
  <2>4. CASE UnderWay(picture)
    <3>1. PICK i \in Nat, j \in Nat, k \in Nat : PlaceIs(picture, i, j, k)
      BY <2>4 DEF UnderWay
    <3>2. /\ i = Planes - picture.plane
          /\ j = Remaining(picture.rows) - Remaining(picture.row)
          /\ k = picture.columns - picture.column
      BY <2>1, <2>2, <3>1, ConfigAssumption DEF PlaceIs, Pictures
    <3>3. QED
      BY <2>1, <2>3, <3>1, <3>2 DEF PlaceIs
  <2>5. CASE PictureOver(picture)
    <3>1. Planes - picture.plane = Planes
      BY <2>5, ConfigAssumption DEF PictureOver
    <3>2. /\ Remaining(picture.rows) - Remaining(picture.row) \in Int
          /\ picture.columns - picture.column \in Int
      BY <2>1, <2>2, ConfigAssumption DEF Pictures
    <3>3. QED
      BY <2>1, <2>2, <2>3, <2>5, <3>1, <3>2, WordsAllDrawn DEF PictureOver
  <2>6. QED
    BY <1>4, <2>4, <2>5 DEF AtWord
<1>5. PictureIsWhole
  BY <1>1, <1>4 DEF PictureIsWhole, PictureFits, UnpackPlaces, WordPlaces, PictureOver
<1>6. ConfigTypeOK
  <2>1. atari \in Ataris /\ fade \in Fades
    BY <1>1 DEF AtariOK, FadeOK
  <2>2. picture \in Pictures
    BY <1>1, <1>4, NoPictureHere DEF PictureFits, UnpackPlaces, WordPlaces
  <2>3. QED
    BY <2>1, <2>2 DEF ConfigTypeOK, Ataris, Fades, Pictures
<1>7. QED
  BY <1>2, <1>3, <1>5, <1>6 DEF PictureIsSound

LEMMA SessionsAreAtari == [SessionsNext]_sessionVars => [AtariStep]_entryVars
BY DEF SessionsNext, sessionVars, DosTitleStep, TitleStageStep, MainStageStep,
       AtariSessionStep, GameSessionStep, DriverStep, BootstrapStep, LoaderStep

(* The inductive invariant of the Atari's entry and its picture.           *)
THEOREM AtariInvariant == SessionsSpec => []AtariInv
<1>1. SessionsInit => AtariInv
  BY AtariInitially DEF SessionsInit
<1>2. QED
  BY <1>1, SessionsAreAtari, AtariStepKeeps, PTL DEF SessionsSpec

(* However its runs fall across lines and planes, the Atari's unpacker has *)
(* drawn each word before its place once and no other, colour and level of *)
(* the fade are the start and one step for each pass, and the coordinator  *)
(* unpacks one picture (MillenniumAtariStConfigLoadSession): for any       *)
(* planes, lines, groups and passes.                                       *)
THEOREM PictureIsSoundHolds == SessionsSpec => []PictureIsSound
<1>1. AtariInv => PictureIsSound
  BY AtariInvSays
<1>2. QED
  BY <1>1, AtariInvariant, PTL
-----------------------------------------------------------------------------
(* The Amiga's bootstrap: a place's rank is its number in the order of the *)
(* code.                                                                   *)
RankIs(place, n) == place \in Range(Places) /\ Rank(place) = n

LEMMA PlacesHere ==
  /\ DOMAIN Places = 1..19
  /\ Places[1] = Overread /\ Places[2] = TerminalJump /\ Places[3] = SetupCall
  /\ Places[4] = FirstRead /\ Places[5] = FirstStage /\ Places[6] = FirstIllegal
  /\ Places[7] = SecondIllegal /\ Places[8] = FirstTrace /\ Places[9] = Decrypted
  /\ Places[10] = RegisterTrace /\ Places[11] = MemoryWrite /\ Places[12] = ChipAwaited
  /\ Places[13] = ExecService /\ Places[14] = OpenGraphics /\ Places[15] = Allocation
  /\ Places[16] = GraphicsInit /\ Places[17] = ViewInit /\ Places[18] = InterruptControl
  /\ Places[19] = Ended
BY DEF Places

LEMMA IndexHere ==
  ASSUME NEW i \in 1..19
  PROVE  \/ i = 1 \/ i = 2 \/ i = 3 \/ i = 4 \/ i = 5 \/ i = 6 \/ i = 7
         \/ i = 8 \/ i = 9 \/ i = 10 \/ i = 11 \/ i = 12 \/ i = 13 \/ i = 14
         \/ i = 15 \/ i = 16 \/ i = 17 \/ i = 18 \/ i = 19
OBVIOUS

LEMMA PlaceRanks ==
  /\ RankIs(Overread, 1) /\ RankIs(TerminalJump, 2) /\ RankIs(SetupCall, 3)
  /\ RankIs(FirstRead, 4) /\ RankIs(FirstStage, 5) /\ RankIs(FirstIllegal, 6)
  /\ RankIs(SecondIllegal, 7) /\ RankIs(FirstTrace, 8) /\ RankIs(Decrypted, 9)
  /\ RankIs(RegisterTrace, 10) /\ RankIs(MemoryWrite, 11) /\ RankIs(ChipAwaited, 12)
  /\ RankIs(ExecService, 13) /\ RankIs(OpenGraphics, 14) /\ RankIs(Allocation, 15)
  /\ RankIs(GraphicsInit, 16) /\ RankIs(ViewInit, 17) /\ RankIs(InterruptControl, 18)
  /\ RankIs(Ended, 19)
<1>1. RankIs(Overread, 1)
  <2>1. ASSUME NEW i \in 1..19, Places[i] = Overread PROVE i = 1
    BY <2>1, IndexHere, PlacesHere
       DEF Overread, TerminalJump, SetupCall, FirstRead, FirstStage, FirstIllegal,
         SecondIllegal, FirstTrace, Decrypted, RegisterTrace, MemoryWrite, ChipAwaited,
         ExecService, OpenGraphics, Allocation, GraphicsInit, ViewInit, InterruptControl, Ended
  <2>2. QED
    BY <2>1, PlacesHere DEF RankIs, Rank, Range
<1>2. RankIs(TerminalJump, 2)
  <2>1. ASSUME NEW i \in 1..19, Places[i] = TerminalJump PROVE i = 2
    BY <2>1, IndexHere, PlacesHere
       DEF Overread, TerminalJump, SetupCall, FirstRead, FirstStage, FirstIllegal,
         SecondIllegal, FirstTrace, Decrypted, RegisterTrace, MemoryWrite, ChipAwaited,
         ExecService, OpenGraphics, Allocation, GraphicsInit, ViewInit, InterruptControl, Ended
  <2>2. QED
    BY <2>1, PlacesHere DEF RankIs, Rank, Range
<1>3. RankIs(SetupCall, 3)
  <2>1. ASSUME NEW i \in 1..19, Places[i] = SetupCall PROVE i = 3
    BY <2>1, IndexHere, PlacesHere
       DEF Overread, TerminalJump, SetupCall, FirstRead, FirstStage, FirstIllegal,
         SecondIllegal, FirstTrace, Decrypted, RegisterTrace, MemoryWrite, ChipAwaited,
         ExecService, OpenGraphics, Allocation, GraphicsInit, ViewInit, InterruptControl, Ended
  <2>2. QED
    BY <2>1, PlacesHere DEF RankIs, Rank, Range
<1>4. RankIs(FirstRead, 4)
  <2>1. ASSUME NEW i \in 1..19, Places[i] = FirstRead PROVE i = 4
    BY <2>1, IndexHere, PlacesHere
       DEF Overread, TerminalJump, SetupCall, FirstRead, FirstStage, FirstIllegal,
         SecondIllegal, FirstTrace, Decrypted, RegisterTrace, MemoryWrite, ChipAwaited,
         ExecService, OpenGraphics, Allocation, GraphicsInit, ViewInit, InterruptControl, Ended
  <2>2. QED
    BY <2>1, PlacesHere DEF RankIs, Rank, Range
<1>5. RankIs(FirstStage, 5)
  <2>1. ASSUME NEW i \in 1..19, Places[i] = FirstStage PROVE i = 5
    BY <2>1, IndexHere, PlacesHere
       DEF Overread, TerminalJump, SetupCall, FirstRead, FirstStage, FirstIllegal,
         SecondIllegal, FirstTrace, Decrypted, RegisterTrace, MemoryWrite, ChipAwaited,
         ExecService, OpenGraphics, Allocation, GraphicsInit, ViewInit, InterruptControl, Ended
  <2>2. QED
    BY <2>1, PlacesHere DEF RankIs, Rank, Range
<1>6. RankIs(FirstIllegal, 6)
  <2>1. ASSUME NEW i \in 1..19, Places[i] = FirstIllegal PROVE i = 6
    BY <2>1, IndexHere, PlacesHere
       DEF Overread, TerminalJump, SetupCall, FirstRead, FirstStage, FirstIllegal,
         SecondIllegal, FirstTrace, Decrypted, RegisterTrace, MemoryWrite, ChipAwaited,
         ExecService, OpenGraphics, Allocation, GraphicsInit, ViewInit, InterruptControl, Ended
  <2>2. QED
    BY <2>1, PlacesHere DEF RankIs, Rank, Range
<1>7. RankIs(SecondIllegal, 7)
  <2>1. ASSUME NEW i \in 1..19, Places[i] = SecondIllegal PROVE i = 7
    BY <2>1, IndexHere, PlacesHere
       DEF Overread, TerminalJump, SetupCall, FirstRead, FirstStage, FirstIllegal,
         SecondIllegal, FirstTrace, Decrypted, RegisterTrace, MemoryWrite, ChipAwaited,
         ExecService, OpenGraphics, Allocation, GraphicsInit, ViewInit, InterruptControl, Ended
  <2>2. QED
    BY <2>1, PlacesHere DEF RankIs, Rank, Range
<1>8. RankIs(FirstTrace, 8)
  <2>1. ASSUME NEW i \in 1..19, Places[i] = FirstTrace PROVE i = 8
    BY <2>1, IndexHere, PlacesHere
       DEF Overread, TerminalJump, SetupCall, FirstRead, FirstStage, FirstIllegal,
         SecondIllegal, FirstTrace, Decrypted, RegisterTrace, MemoryWrite, ChipAwaited,
         ExecService, OpenGraphics, Allocation, GraphicsInit, ViewInit, InterruptControl, Ended
  <2>2. QED
    BY <2>1, PlacesHere DEF RankIs, Rank, Range
<1>9. RankIs(Decrypted, 9)
  <2>1. ASSUME NEW i \in 1..19, Places[i] = Decrypted PROVE i = 9
    BY <2>1, IndexHere, PlacesHere
       DEF Overread, TerminalJump, SetupCall, FirstRead, FirstStage, FirstIllegal,
         SecondIllegal, FirstTrace, Decrypted, RegisterTrace, MemoryWrite, ChipAwaited,
         ExecService, OpenGraphics, Allocation, GraphicsInit, ViewInit, InterruptControl, Ended
  <2>2. QED
    BY <2>1, PlacesHere DEF RankIs, Rank, Range
<1>10. RankIs(RegisterTrace, 10)
  <2>1. ASSUME NEW i \in 1..19, Places[i] = RegisterTrace PROVE i = 10
    BY <2>1, IndexHere, PlacesHere
       DEF Overread, TerminalJump, SetupCall, FirstRead, FirstStage, FirstIllegal,
         SecondIllegal, FirstTrace, Decrypted, RegisterTrace, MemoryWrite, ChipAwaited,
         ExecService, OpenGraphics, Allocation, GraphicsInit, ViewInit, InterruptControl, Ended
  <2>2. QED
    BY <2>1, PlacesHere DEF RankIs, Rank, Range
<1>11. RankIs(MemoryWrite, 11)
  <2>1. ASSUME NEW i \in 1..19, Places[i] = MemoryWrite PROVE i = 11
    BY <2>1, IndexHere, PlacesHere
       DEF Overread, TerminalJump, SetupCall, FirstRead, FirstStage, FirstIllegal,
         SecondIllegal, FirstTrace, Decrypted, RegisterTrace, MemoryWrite, ChipAwaited,
         ExecService, OpenGraphics, Allocation, GraphicsInit, ViewInit, InterruptControl, Ended
  <2>2. QED
    BY <2>1, PlacesHere DEF RankIs, Rank, Range
<1>12. RankIs(ChipAwaited, 12)
  <2>1. ASSUME NEW i \in 1..19, Places[i] = ChipAwaited PROVE i = 12
    BY <2>1, IndexHere, PlacesHere
       DEF Overread, TerminalJump, SetupCall, FirstRead, FirstStage, FirstIllegal,
         SecondIllegal, FirstTrace, Decrypted, RegisterTrace, MemoryWrite, ChipAwaited,
         ExecService, OpenGraphics, Allocation, GraphicsInit, ViewInit, InterruptControl, Ended
  <2>2. QED
    BY <2>1, PlacesHere DEF RankIs, Rank, Range
<1>13. RankIs(ExecService, 13)
  <2>1. ASSUME NEW i \in 1..19, Places[i] = ExecService PROVE i = 13
    BY <2>1, IndexHere, PlacesHere
       DEF Overread, TerminalJump, SetupCall, FirstRead, FirstStage, FirstIllegal,
         SecondIllegal, FirstTrace, Decrypted, RegisterTrace, MemoryWrite, ChipAwaited,
         ExecService, OpenGraphics, Allocation, GraphicsInit, ViewInit, InterruptControl, Ended
  <2>2. QED
    BY <2>1, PlacesHere DEF RankIs, Rank, Range
<1>14. RankIs(OpenGraphics, 14)
  <2>1. ASSUME NEW i \in 1..19, Places[i] = OpenGraphics PROVE i = 14
    BY <2>1, IndexHere, PlacesHere
       DEF Overread, TerminalJump, SetupCall, FirstRead, FirstStage, FirstIllegal,
         SecondIllegal, FirstTrace, Decrypted, RegisterTrace, MemoryWrite, ChipAwaited,
         ExecService, OpenGraphics, Allocation, GraphicsInit, ViewInit, InterruptControl, Ended
  <2>2. QED
    BY <2>1, PlacesHere DEF RankIs, Rank, Range
<1>15. RankIs(Allocation, 15)
  <2>1. ASSUME NEW i \in 1..19, Places[i] = Allocation PROVE i = 15
    BY <2>1, IndexHere, PlacesHere
       DEF Overread, TerminalJump, SetupCall, FirstRead, FirstStage, FirstIllegal,
         SecondIllegal, FirstTrace, Decrypted, RegisterTrace, MemoryWrite, ChipAwaited,
         ExecService, OpenGraphics, Allocation, GraphicsInit, ViewInit, InterruptControl, Ended
  <2>2. QED
    BY <2>1, PlacesHere DEF RankIs, Rank, Range
<1>16. RankIs(GraphicsInit, 16)
  <2>1. ASSUME NEW i \in 1..19, Places[i] = GraphicsInit PROVE i = 16
    BY <2>1, IndexHere, PlacesHere
       DEF Overread, TerminalJump, SetupCall, FirstRead, FirstStage, FirstIllegal,
         SecondIllegal, FirstTrace, Decrypted, RegisterTrace, MemoryWrite, ChipAwaited,
         ExecService, OpenGraphics, Allocation, GraphicsInit, ViewInit, InterruptControl, Ended
  <2>2. QED
    BY <2>1, PlacesHere DEF RankIs, Rank, Range
<1>17. RankIs(ViewInit, 17)
  <2>1. ASSUME NEW i \in 1..19, Places[i] = ViewInit PROVE i = 17
    BY <2>1, IndexHere, PlacesHere
       DEF Overread, TerminalJump, SetupCall, FirstRead, FirstStage, FirstIllegal,
         SecondIllegal, FirstTrace, Decrypted, RegisterTrace, MemoryWrite, ChipAwaited,
         ExecService, OpenGraphics, Allocation, GraphicsInit, ViewInit, InterruptControl, Ended
  <2>2. QED
    BY <2>1, PlacesHere DEF RankIs, Rank, Range
<1>18. RankIs(InterruptControl, 18)
  <2>1. ASSUME NEW i \in 1..19, Places[i] = InterruptControl PROVE i = 18
    BY <2>1, IndexHere, PlacesHere
       DEF Overread, TerminalJump, SetupCall, FirstRead, FirstStage, FirstIllegal,
         SecondIllegal, FirstTrace, Decrypted, RegisterTrace, MemoryWrite, ChipAwaited,
         ExecService, OpenGraphics, Allocation, GraphicsInit, ViewInit, InterruptControl, Ended
  <2>2. QED
    BY <2>1, PlacesHere DEF RankIs, Rank, Range
<1>19. RankIs(Ended, 19)
  <2>1. ASSUME NEW i \in 1..19, Places[i] = Ended PROVE i = 19
    BY <2>1, IndexHere, PlacesHere
       DEF Overread, TerminalJump, SetupCall, FirstRead, FirstStage, FirstIllegal,
         SecondIllegal, FirstTrace, Decrypted, RegisterTrace, MemoryWrite, ChipAwaited,
         ExecService, OpenGraphics, Allocation, GraphicsInit, ViewInit, InterruptControl, Ended
  <2>2. QED
    BY <2>1, PlacesHere DEF RankIs, Rank, Range
<1>20. QED
  BY <1>1, <1>2, <1>3, <1>4, <1>5, <1>6, <1>7, <1>8, <1>9, <1>10, <1>11,
     <1>12, <1>13, <1>14, <1>15, <1>16, <1>17, <1>18, <1>19

(* The steps that write, up to a place.                                    *)
WritingSteps(n) == IF n < 4 THEN 0 ELSE IF n = 19 THEN 14 ELSE n - 4

Boots ==
  [at : Range(Places), kept : Held, base : Held, graphics : Held, area : 0..Free,
   owned : SUBSET (Cursor..Free), count : {"absent", "zero", "other"}, batches : Nat,
   refused : SUBSET Range(Places)]

BootOK(b) ==
  /\ b \in Boots
  /\ holder = "coordinator" =>
       /\ b.batches = WritingSteps(Rank(b.at))
       /\ Rank(b.at) > 4 => Stage \subseteq b.owned

(* What a batch may write.                                                 *)
BatchHere(parts) == \A i \in DOMAIN parts : parts[i] \subseteq Cursor..Beyond

LEMMA AdmittedHere ==
  ASSUME NEW parts, BatchHere(parts), Admits(parts)
  PROVE  Written(parts) \subseteq Cursor..Free
<1>1. ASSUME NEW i \in DOMAIN parts PROVE parts[i] \subseteq Cursor..Free
  BY <1>1 DEF BatchHere, Admits, Cursor, Beyond, Free
<1>2. QED
  BY <1>1 DEF Written

(* The coordinator keeps the session and the memory together.              *)
LEMMA KeepStays ==
  ASSUME BootOK(boot), NEW n \in 5..17, NEW m, m = n + 1, RankIs(boot.at, n),
         NEW next, RankIs(next, m),
         NEW new \in Boots, new.owned = boot.owned, new.batches = boot.batches,
         new.refused = boot.refused,
         NEW parts, BatchHere(parts), Keep(next, new, parts)
  PROVE  BootOK(boot')
<1>1. /\ boot \in Boots /\ next \in Range(Places) /\ Rank(next) = n + 1 /\ Rank(boot.at) = n
      /\ boot.at \in Range(Places)
  BY DEF BootOK, RankIs
<1>2. CASE holder = "alone"
  <2>1. boot' = [new EXCEPT !.at = next]
    BY <1>2 DEF Keep
  <2>2. boot' \in Boots
    BY <1>1, <2>1 DEF Boots
  <2>3. QED
    BY <1>2, <2>2 DEF BootOK
<1>3. CASE holder # "alone" /\ Admits(parts)
  <2>1. PICK count \in IF Count \in Written(parts) THEN {"zero", "other"} ELSE {boot.count} :
          boot' = [new EXCEPT !.at = next, !.batches = @ + 1, !.count = count,
                              !.owned = @ \cup Written(parts)]
    BY <1>3 DEF Keep
  <2>2. count \in {"absent", "zero", "other"}
    BY <1>1, <2>1 DEF Boots
  <2>3. PICK taken \in Nat : taken = new.batches + 1
    BY DEF Boots
  <2>4. new.owned \cup Written(parts) \in SUBSET (Cursor..Free)
    BY <1>3, AdmittedHere DEF Boots
  <2>5. boot' = [new EXCEPT !.at = next, !.batches = taken, !.count = count,
                            !.owned = new.owned \cup Written(parts)]
    BY <2>1, <2>3
  <2>6. /\ boot' \in Boots /\ boot'.at = next /\ boot'.batches = taken
        /\ boot'.owned = new.owned \cup Written(parts)
    BY <1>1, <2>2, <2>4, <2>5 DEF Boots
  <2>7. boot.batches \in Nat
    BY <1>1 DEF Boots
  <2>8. holder = "coordinator" => boot'.batches = WritingSteps(n + 1) /\ Stage \subseteq boot'.owned
    BY <1>1, <2>3, <2>6, <2>7 DEF BootOK, WritingSteps
  <2>9. QED
    BY <1>1, <2>6, <2>8 DEF BootOK
<1>4. CASE holder # "alone" /\ ~Admits(parts)
  <2>1. boot' = [boot EXCEPT !.refused = boot.refused \cup {boot.at}]
    BY <1>4 DEF Keep
  <2>2. /\ boot' \in Boots /\ boot'.at = boot.at /\ boot'.batches = boot.batches
        /\ boot'.owned = boot.owned
    BY <1>1, <2>1 DEF Boots
  <2>3. QED
    BY <2>2 DEF BootOK
<1>5. QED
  BY <1>2, <1>3, <1>4

-----------------------------------------------------------------------------
(* The batches of the steps lie in the memory and its end.                 *)
LEMMA SpotsHere ==
  /\ {Vector, TraceVectors, SavedRegs, Work, Count, Body, Pool, Free, Beyond, Cursor}
       \subseteq Cursor..Beyond
  /\ Spots \subseteq Cursor..Beyond /\ Stage \subseteq Cursor..Free
BY DEF Vector, TraceVectors, SavedRegs, Work, Count, Body, Pool, Free, Beyond, Cursor, Spots, Stage

LEMMA BatchesHere ==
  ASSUME NEW a \in SUBSET (Cursor..Beyond), NEW b \in SUBSET (Cursor..Beyond),
         NEW c \in SUBSET (Cursor..Beyond), NEW d \in SUBSET (Cursor..Beyond)
  PROVE  /\ BatchHere(<<a>>) /\ BatchHere(<<a, b>>) /\ BatchHere(<<a, b, c>>)
         /\ BatchHere(<<a, b, c, d>>) /\ BatchHere(<< >>)
<1>1. BatchHere(<<a>>)
  <2>1. DOMAIN <<a>> = 1..1
    OBVIOUS
  <2>2. <<a>>[1] = a
    OBVIOUS
  <2>3. ASSUME NEW i \in 1..1 PROVE <<a>>[i] \subseteq Cursor..Beyond
    <3>1. i = 1
      BY <2>3
    <3>2. QED
      BY <2>2, <3>1
  <2>4. QED
    BY <2>1, <2>3 DEF BatchHere
<1>2. BatchHere(<<a, b>>)
  <2>1. DOMAIN <<a, b>> = 1..2
    OBVIOUS
  <2>2. <<a, b>>[1] = a /\ <<a, b>>[2] = b
    OBVIOUS
  <2>3. ASSUME NEW i \in 1..2 PROVE <<a, b>>[i] \subseteq Cursor..Beyond
    <3>1. i = 1 \/ i = 2
      BY <2>3
    <3>2. QED
      BY <2>2, <3>1
  <2>4. QED
    BY <2>1, <2>3 DEF BatchHere
<1>3. BatchHere(<<a, b, c>>)
  <2>1. DOMAIN <<a, b, c>> = 1..3
    OBVIOUS
  <2>2. <<a, b, c>>[1] = a /\ <<a, b, c>>[2] = b /\ <<a, b, c>>[3] = c
    OBVIOUS
  <2>3. ASSUME NEW i \in 1..3 PROVE <<a, b, c>>[i] \subseteq Cursor..Beyond
    <3>1. i = 1 \/ i = 2 \/ i = 3
      BY <2>3
    <3>2. QED
      BY <2>2, <3>1
  <2>4. QED
    BY <2>1, <2>3 DEF BatchHere
<1>4. BatchHere(<<a, b, c, d>>)
  <2>1. DOMAIN <<a, b, c, d>> = 1..4
    OBVIOUS
  <2>2. /\ <<a, b, c, d>>[1] = a /\ <<a, b, c, d>>[2] = b /\ <<a, b, c, d>>[3] = c
        /\ <<a, b, c, d>>[4] = d
    OBVIOUS
  <2>3. ASSUME NEW i \in 1..4 PROVE <<a, b, c, d>>[i] \subseteq Cursor..Beyond
    <3>1. i = 1 \/ i = 2 \/ i = 3 \/ i = 4
      BY <2>3
    <3>2. QED
      BY <2>2, <3>1
  <2>4. QED
    BY <2>1, <2>3 DEF BatchHere
<1>5. BatchHere(<< >>)
  <2>1. DOMAIN << >> = {}
    OBVIOUS
  <2>2. QED
    BY <2>1 DEF BatchHere
<1>6. QED
  BY <1>1, <1>2, <1>3, <1>4, <1>5

LEMMA FirstStageEntryKeeps == BootOK(boot) /\ ObserveFirstStageEntry => BootOK(boot')
<1> SUFFICES ASSUME BootOK(boot), NEW stack \in Spots, NEW d0 \in Held,
             EntryTakes(stack), Keep(FirstIllegal, [boot EXCEPT !.kept = d0], EntryWrites(stack))
    PROVE  BootOK(boot')
  BY DEF ObserveFirstStageEntry
<1>1. 5 \in 5..17 /\ 6 = 5 + 1 /\ RankIs(boot.at, 5) /\ RankIs(FirstIllegal, 6)
  BY PlaceRanks DEF EntryTakes
<1>2. boot \in Boots
  BY DEF BootOK
<1> DEFINE new == [boot EXCEPT !.kept = d0]
<1>3. /\ new \in Boots /\ new.owned = boot.owned /\ new.batches = boot.batches
      /\ new.refused = boot.refused
  BY <1>2, SpotsHere DEF Boots
<1>4. BatchHere(EntryWrites(stack))
  BY <1>2, SpotsHere, BatchesHere DEF EntryWrites
<1>5. Keep(FirstIllegal, new, EntryWrites(stack))
  OBVIOUS
<1> HIDE DEF new
<1>6. QED
  BY <1>1, <1>3, <1>4, <1>5, KeepStays

LEMMA FirstIllegalKeeps == BootOK(boot) /\ ObserveFirstIllegalHandler => BootOK(boot')
<1> SUFFICES ASSUME BootOK(boot), NEW over \in Spots, NEW vector \in Held,
             IllegalTakes(over, vector), Keep(SecondIllegal, boot, IllegalWrites(over))
    PROVE  BootOK(boot')
  BY DEF ObserveFirstIllegalHandler
<1>1. 6 \in 5..17 /\ 7 = 6 + 1 /\ RankIs(boot.at, 6) /\ RankIs(SecondIllegal, 7)
  BY PlaceRanks DEF IllegalTakes
<1>2. boot \in Boots
  BY DEF BootOK
<1> DEFINE new == boot
<1>3. /\ new \in Boots /\ new.owned = boot.owned /\ new.batches = boot.batches
      /\ new.refused = boot.refused
  BY <1>2, SpotsHere DEF Boots
<1>4. BatchHere(IllegalWrites(over))
  BY <1>2, SpotsHere, BatchesHere DEF IllegalWrites
<1>5. Keep(SecondIllegal, new, IllegalWrites(over))
  OBVIOUS
<1> HIDE DEF new
<1>6. QED
  BY <1>1, <1>3, <1>4, <1>5, KeepStays

LEMMA SecondIllegalKeeps == BootOK(boot) /\ ObserveSecondIllegalHandler => BootOK(boot')
<1> SUFFICES ASSUME BootOK(boot), NEW over \in Spots, NEW traced \in BOOLEAN,
             SecondIllegalTakes(over, traced), Keep(FirstTrace, boot, SecondIllegalWrites(over))
    PROVE  BootOK(boot')
  BY DEF ObserveSecondIllegalHandler
<1>1. 7 \in 5..17 /\ 8 = 7 + 1 /\ RankIs(boot.at, 7) /\ RankIs(FirstTrace, 8)
  BY PlaceRanks DEF SecondIllegalTakes
<1>2. boot \in Boots
  BY DEF BootOK
<1> DEFINE new == boot
<1>3. /\ new \in Boots /\ new.owned = boot.owned /\ new.batches = boot.batches
      /\ new.refused = boot.refused
  BY <1>2, SpotsHere DEF Boots
<1>4. BatchHere(SecondIllegalWrites(over))
  BY <1>2, SpotsHere, BatchesHere DEF SecondIllegalWrites
<1>5. Keep(FirstTrace, new, SecondIllegalWrites(over))
  OBVIOUS
<1> HIDE DEF new
<1>6. QED
  BY <1>1, <1>3, <1>4, <1>5, KeepStays

LEMMA BusErrorKeeps == BootOK(boot) /\ ObserveBusErrorPrefix => BootOK(boot')
<1> SUFFICES ASSUME BootOK(boot), NEW over \in Spots,
             BusErrorTakes(over), Keep(ChipAwaited, boot, BusErrorWrites(over))
    PROVE  BootOK(boot')
  BY DEF ObserveBusErrorPrefix
<1>1. 11 \in 5..17 /\ 12 = 11 + 1 /\ RankIs(boot.at, 11) /\ RankIs(ChipAwaited, 12)
  BY PlaceRanks DEF BusErrorTakes
<1>2. boot \in Boots
  BY DEF BootOK
<1> DEFINE new == boot
<1>3. /\ new \in Boots /\ new.owned = boot.owned /\ new.batches = boot.batches
      /\ new.refused = boot.refused
  BY <1>2, SpotsHere DEF Boots
<1>4. BatchHere(BusErrorWrites(over))
  BY <1>2, SpotsHere, BatchesHere DEF BusErrorWrites
<1>5. Keep(ChipAwaited, new, BusErrorWrites(over))
  OBVIOUS
<1> HIDE DEF new
<1>6. QED
  BY <1>1, <1>3, <1>4, <1>5, KeepStays

LEMMA CustomChipKeeps == BootOK(boot) /\ ObserveCustomChipExecPrefix => BootOK(boot')
<1> SUFFICES ASSUME BootOK(boot), NEW base \in Held,
             ChipTakes, Keep(ExecService, [boot EXCEPT !.base = base], << >>)
    PROVE  BootOK(boot')
  BY DEF ObserveCustomChipExecPrefix
<1>1. 12 \in 5..17 /\ 13 = 12 + 1 /\ RankIs(boot.at, 12) /\ RankIs(ExecService, 13)
  BY PlaceRanks DEF ChipTakes
<1>2. boot \in Boots
  BY DEF BootOK
<1> DEFINE new == [boot EXCEPT !.base = base]
<1>3. /\ new \in Boots /\ new.owned = boot.owned /\ new.batches = boot.batches
      /\ new.refused = boot.refused
  BY <1>2, SpotsHere DEF Boots
<1>4. BatchHere(<< >>)
  BY <1>2, SpotsHere, BatchesHere
<1>5. Keep(ExecService, new, << >>)
  OBVIOUS
<1> HIDE DEF new
<1>6. QED
  BY <1>1, <1>3, <1>4, <1>5, KeepStays

LEMMA ExecTransitionKeeps == BootOK(boot) /\ ObserveExecTransition => BootOK(boot')
<1> SUFFICES ASSUME BootOK(boot), NEW base \in Held, NEW stack \in Spots,
             ExecTakes(base, stack), Keep(OpenGraphics, boot, ExecWrites(stack))
    PROVE  BootOK(boot')
  BY DEF ObserveExecTransition
<1>1. 13 \in 5..17 /\ 14 = 13 + 1 /\ RankIs(boot.at, 13) /\ RankIs(OpenGraphics, 14)
  BY PlaceRanks DEF ExecTakes
<1>2. boot \in Boots
  BY DEF BootOK
<1> DEFINE new == boot
<1>3. /\ new \in Boots /\ new.owned = boot.owned /\ new.batches = boot.batches
      /\ new.refused = boot.refused
  BY <1>2, SpotsHere DEF Boots
<1>4. BatchHere(ExecWrites(stack))
  BY <1>2, SpotsHere, BatchesHere DEF ExecWrites
<1>5. Keep(OpenGraphics, new, ExecWrites(stack))
  OBVIOUS
<1> HIDE DEF new
<1>6. QED
  BY <1>1, <1>3, <1>4, <1>5, KeepStays

LEMMA AllocationKeeps == BootOK(boot) /\ ObserveAllocation => BootOK(boot')
<1> SUFFICES ASSUME BootOK(boot), NEW base \in Held, NEW area \in Spots, NEW cleared \in BOOLEAN,
             AllocationTakes(base, area, cleared),
             Keep(GraphicsInit, [boot EXCEPT !.area = area], AllocationWrites(area))
    PROVE  BootOK(boot')
  BY DEF ObserveAllocation
<1>1. 15 \in 5..17 /\ 16 = 15 + 1 /\ RankIs(boot.at, 15) /\ RankIs(GraphicsInit, 16)
  BY PlaceRanks DEF AllocationTakes
<1>2. boot \in Boots
  BY DEF BootOK
<1> DEFINE new == [boot EXCEPT !.area = area]
<1>3. /\ new \in Boots /\ new.owned = boot.owned /\ new.batches = boot.batches
      /\ new.refused = boot.refused
  BY <1>2, SpotsHere DEF Boots, Spots, Vector, Free, Beyond, AllocationTakes
<1>4. BatchHere(AllocationWrites(area))
  BY <1>2, SpotsHere, BatchesHere DEF AllocationWrites
<1>5. Keep(GraphicsInit, new, AllocationWrites(area))
  OBVIOUS
<1> HIDE DEF new
<1>6. QED
  BY <1>1, <1>3, <1>4, <1>5, KeepStays

LEMMA GraphicsInitKeeps == BootOK(boot) /\ ObserveGraphicsInitialization => BootOK(boot')
<1> SUFFICES ASSUME BootOK(boot), NEW graphics \in Held,
             GraphicsInitTakes(graphics), Keep(ViewInit, boot, <<{Work}>>)
    PROVE  BootOK(boot')
  BY DEF ObserveGraphicsInitialization
<1>1. 16 \in 5..17 /\ 17 = 16 + 1 /\ RankIs(boot.at, 16) /\ RankIs(ViewInit, 17)
  BY PlaceRanks DEF GraphicsInitTakes
<1>2. boot \in Boots
  BY DEF BootOK
<1> DEFINE new == boot
<1>3. /\ new \in Boots /\ new.owned = boot.owned /\ new.batches = boot.batches
      /\ new.refused = boot.refused
  BY <1>2, SpotsHere DEF Boots
<1>4. BatchHere(<<{Work}>>)
  BY <1>2, SpotsHere, BatchesHere
<1>5. Keep(ViewInit, new, <<{Work}>>)
  OBVIOUS
<1> HIDE DEF new
<1>6. QED
  BY <1>1, <1>3, <1>4, <1>5, KeepStays

LEMMA ViewServicesKeeps == BootOK(boot) /\ ObserveViewServices => BootOK(boot')
<1> SUFFICES ASSUME BootOK(boot), NEW graphics \in Held, NEW stacks \in [1..4 -> {8, 12, 16}],
             NEW spot \in Spots,
             ViewTakes(graphics, stacks), Keep(InterruptControl, boot, ViewWrites(spot))
    PROVE  BootOK(boot')
  BY DEF ObserveViewServices
<1>1. 17 \in 5..17 /\ 18 = 17 + 1 /\ RankIs(boot.at, 17) /\ RankIs(InterruptControl, 18)
  BY PlaceRanks DEF ViewTakes
<1>2. boot \in Boots
  BY DEF BootOK
<1> DEFINE new == boot
<1>3. /\ new \in Boots /\ new.owned = boot.owned /\ new.batches = boot.batches
      /\ new.refused = boot.refused
  BY <1>2, SpotsHere DEF Boots
<1>4. BatchHere(ViewWrites(spot))
  <2>1. {spot} \subseteq Cursor..Beyond /\ {Work} \subseteq Cursor..Beyond
    BY SpotsHere
  <2>2. {boot.area} \subseteq Cursor..Beyond
    BY <1>2 DEF Boots, Cursor, Free, Beyond
  <2>3. QED
    BY <2>1, <2>2, BatchesHere DEF ViewWrites
<1>5. Keep(InterruptControl, new, ViewWrites(spot))
  OBVIOUS
<1> HIDE DEF new
<1>6. QED
  BY <1>1, <1>3, <1>4, <1>5, KeepStays

(* The steps before the memory, and the last one, move the place alone.    *)
LEMMA AtKeeps ==
  ASSUME BootOK(boot), NEW n \in 1..19, NEW m \in 1..19, RankIs(boot.at, n),
         NEW next, RankIs(next, m), WritingSteps(m) = WritingSteps(n), n <= 4 => m <= 4,
         boot' = [boot EXCEPT !.at = next]
  PROVE  BootOK(boot')
<1>1. boot \in Boots /\ next \in Range(Places) /\ Rank(next) = m /\ Rank(boot.at) = n
  BY DEF BootOK, RankIs
<1>2. boot' \in Boots /\ boot'.at = next /\ boot'.batches = boot.batches /\ boot'.owned = boot.owned
  BY <1>1 DEF Boots
<1>3. Rank(boot'.at) > 4 => Rank(boot.at) > 4
  BY <1>1, <1>2
<1>4. QED
  BY <1>1, <1>2, <1>3 DEF BootOK

LEMMA OverreadByteKeeps == BootOK(boot) /\ ObserveOverreadByte => BootOK(boot')
<1> SUFFICES ASSUME BootOK(boot), ObserveOverreadByte PROVE BootOK(boot')
  OBVIOUS
<1>1. RankIs(boot.at, 1) /\ RankIs(TerminalJump, 2) /\ boot' = [boot EXCEPT !.at = TerminalJump]
  BY PlaceRanks DEF ObserveOverreadByte
<1>2. WritingSteps(1) = WritingSteps(2) /\ 1 \in 1..19 /\ 2 \in 1..19 /\ (1 <= 4 => 2 <= 4)
  BY DEF WritingSteps
<1>3. QED
  BY <1>1, <1>2, AtKeeps

LEMMA TerminalJumpKeeps == BootOK(boot) /\ ObserveTerminalJump => BootOK(boot')
<1> SUFFICES ASSUME BootOK(boot), ObserveTerminalJump PROVE BootOK(boot')
  OBVIOUS
<1>1. RankIs(boot.at, 2) /\ RankIs(SetupCall, 3) /\ boot' = [boot EXCEPT !.at = SetupCall]
  BY PlaceRanks DEF ObserveTerminalJump
<1>2. WritingSteps(2) = WritingSteps(3) /\ 2 \in 1..19 /\ 3 \in 1..19 /\ (2 <= 4 => 3 <= 4)
  BY DEF WritingSteps
<1>3. QED
  BY <1>1, <1>2, AtKeeps

LEMMA SetupCallKeeps == BootOK(boot) /\ ObserveSetupCallReturn => BootOK(boot')
<1> SUFFICES ASSUME BootOK(boot), ObserveSetupCallReturn PROVE BootOK(boot')
  OBVIOUS
<1>1. RankIs(boot.at, 3) /\ RankIs(FirstRead, 4) /\ boot' = [boot EXCEPT !.at = FirstRead]
  BY PlaceRanks DEF ObserveSetupCallReturn
<1>2. WritingSteps(3) = WritingSteps(4) /\ 3 \in 1..19 /\ 4 \in 1..19 /\ (3 <= 4 => 4 <= 4)
  BY DEF WritingSteps
<1>3. QED
  BY <1>1, <1>2, AtKeeps

LEMMA InterruptControlKeeps == BootOK(boot) /\ ObserveInterruptControl => BootOK(boot')
<1> SUFFICES ASSUME BootOK(boot), ObserveInterruptControl PROVE BootOK(boot')
  OBVIOUS
<1>1. RankIs(boot.at, 18) /\ RankIs(Ended, 19) /\ boot' = [boot EXCEPT !.at = Ended]
  BY PlaceRanks DEF ObserveInterruptControl
<1>2. WritingSteps(18) = WritingSteps(19) /\ 18 \in 1..19 /\ 19 \in 1..19 /\ (18 <= 4 => 19 <= 4)
  BY DEF WritingSteps
<1>3. QED
  BY <1>1, <1>2, AtKeeps

(* The read brings the first stage, which no later step gives up.          *)
LEMMA FirstReadKeeps == BootOK(boot) /\ ObserveFirstReadReturn => BootOK(boot')
<1> SUFFICES ASSUME BootOK(boot), ObserveFirstReadReturn PROVE BootOK(boot')
  OBVIOUS
<1>1. /\ RankIs(boot.at, 4) /\ RankIs(FirstStage, 5)
      /\ IF holder = "alone"
         THEN boot' = [boot EXCEPT !.at = FirstStage]
         ELSE boot' = [boot EXCEPT !.at = FirstStage, !.batches = @ + 1,
                                   !.owned = @ \cup Stage, !.count = "zero"]
  BY PlaceRanks DEF ObserveFirstReadReturn
<1>2. boot \in Boots /\ FirstStage \in Range(Places) /\ Rank(FirstStage) = 5 /\ Rank(boot.at) = 4
  BY <1>1 DEF BootOK, RankIs
<1>3. CASE holder = "alone"
  <2>1. boot' = [boot EXCEPT !.at = FirstStage]
    BY <1>1, <1>3
  <2>2. boot' \in Boots
    BY <1>2, <2>1 DEF Boots
  <2>3. QED
    BY <1>3, <2>2 DEF BootOK
<1>4. CASE holder # "alone"
  <2>1. PICK n \in Nat : n = boot.batches + 1
    BY <1>2 DEF Boots
  <2>2. boot' = [boot EXCEPT !.at = FirstStage, !.batches = n,
                             !.owned = boot.owned \cup Stage, !.count = "zero"]
    BY <1>1, <1>4, <2>1
  <2>3. boot.owned \cup Stage \in SUBSET (Cursor..Free)
    BY <1>2, SpotsHere DEF Boots
  <2>4. /\ boot' \in Boots /\ boot'.at = FirstStage /\ boot'.batches = n
        /\ boot'.owned = boot.owned \cup Stage
    BY <1>2, <2>2, <2>3 DEF Boots
  <2>5. boot.batches \in Nat
    BY <1>2 DEF Boots
  <2>6. holder = "coordinator" => boot'.batches = WritingSteps(5) /\ Stage \subseteq boot'.owned
    BY <1>2, <2>1, <2>4, <2>5 DEF BootOK, WritingSteps
  <2>7. QED
    BY <1>2, <2>4, <2>6 DEF BootOK
<1>5. QED
  BY <1>3, <1>4

(* A caller alone may hand the first trace to the wait after the chain.    *)
LEMMA FirstTraceKeeps ==
  holder \in {"coordinator", "alone"} /\ BootOK(boot) /\ ObserveFirstTraceHandler
    => BootOK(boot')
<1> SUFFICES ASSUME NEW over \in Spots, FirstTraceTakes(over),
             holder = "coordinator" => boot.at = FirstTrace,
             Keep(Decrypted, boot, FirstTraceWrites(over)),
             holder \in {"coordinator", "alone"}, BootOK(boot)
    PROVE  BootOK(boot')
  BY DEF ObserveFirstTraceHandler
<1>1. boot \in Boots /\ RankIs(Decrypted, 9)
  BY PlaceRanks DEF BootOK
<1>2. CASE holder = "alone"
  <2>1. boot' = [boot EXCEPT !.at = Decrypted] /\ Decrypted \in Range(Places)
    BY <1>1, <1>2 DEF Keep, RankIs
  <2>2. boot' \in Boots
    BY <1>1, <2>1 DEF Boots
  <2>3. QED
    BY <1>2, <2>2 DEF BootOK
<1>3. CASE holder = "coordinator"
  <2>1. 8 \in 5..17 /\ 9 = 8 + 1 /\ RankIs(boot.at, 8)
    BY <1>3, PlaceRanks
  <2>2. BatchHere(FirstTraceWrites(over))
    BY SpotsHere, BatchesHere DEF FirstTraceWrites
  <2>3. boot.owned = boot.owned /\ boot.batches = boot.batches /\ boot.refused = boot.refused
    OBVIOUS
  <2>4. QED
    BY <1>1, <2>1, <2>2, <2>3, KeepStays
<1>4. QED
  BY <1>2, <1>3

(* A run of traces writes its frames and, each of them, the cursor.        *)
LEMMA TracesHere ==
  ASSUME NEW frames, \A i \in DOMAIN frames : frames[i] \in TraceFrames
  PROVE  BatchHere(TraceWrites(frames))
<1>1. /\ DOMAIN TraceWrites(frames) = DOMAIN frames
      /\ \A i \in DOMAIN frames : TraceWrites(frames)[i] = {frames[i], Cursor}
  BY DEF TraceWrites
<1>2. TraceFrames \subseteq Cursor..Beyond /\ Cursor \in Cursor..Beyond
  BY SpotsHere DEF TraceFrames
<1>3. QED
  BY <1>1, <1>2 DEF BatchHere

LEMMA BranchChainKeeps == BootOK(boot) /\ ObserveTraceBranchChain => BootOK(boot')
<1> SUFFICES ASSUME BootOK(boot), NEW frames, NEW status, ChainTakes(frames, status),
             Keep(RegisterTrace, boot, TraceWrites(frames))
    PROVE  BootOK(boot')
  BY DEF ObserveTraceBranchChain
<1>1. 9 \in 5..17 /\ 10 = 9 + 1 /\ RankIs(boot.at, 9) /\ RankIs(RegisterTrace, 10)
  BY PlaceRanks DEF ChainTakes
<1>2. /\ boot \in Boots /\ boot.owned = boot.owned /\ boot.batches = boot.batches
      /\ boot.refused = boot.refused
  BY DEF BootOK
<1>3. BatchHere(TraceWrites(frames))
  BY TracesHere DEF ChainTakes
<1>4. QED
  BY <1>1, <1>2, <1>3, KeepStays

LEMMA RegisterPrefixKeeps == BootOK(boot) /\ ObserveTraceRegisterPrefix => BootOK(boot')
<1> SUFFICES ASSUME BootOK(boot), NEW frames, PrefixTakes(frames),
             Keep(MemoryWrite, boot, TraceWrites(frames))
    PROVE  BootOK(boot')
  BY DEF ObserveTraceRegisterPrefix
<1>1. 10 \in 5..17 /\ 11 = 10 + 1 /\ RankIs(boot.at, 10) /\ RankIs(MemoryWrite, 11)
  BY PlaceRanks DEF PrefixTakes
<1>2. /\ boot \in Boots /\ boot.owned = boot.owned /\ boot.batches = boot.batches
      /\ boot.refused = boot.refused
  BY DEF BootOK
<1>3. BatchHere(TraceWrites(frames))
  BY TracesHere DEF PrefixTakes
<1>4. QED
  BY <1>1, <1>2, <1>3, KeepStays

LEMMA OpenGraphicsKeeps == BootOK(boot) /\ ObserveOpenGraphics => BootOK(boot')
<1> DEFINE new(g) == [boot EXCEPT !.graphics = g,
                                  !.count = IF holder = "alone" THEN @ ELSE "other"]
<1> SUFFICES ASSUME BootOK(boot), NEW base \in Held, NEW graphics \in Held, OpenTakes(base),
             Keep(Allocation, new(graphics), <<{Work}>>)
    PROVE  BootOK(boot')
  BY DEF ObserveOpenGraphics
<1>1. 14 \in 5..17 /\ 15 = 14 + 1 /\ RankIs(boot.at, 14) /\ RankIs(Allocation, 15)
  BY PlaceRanks DEF OpenTakes
<1>2. boot \in Boots
  BY DEF BootOK
<1>3. /\ new(graphics) \in Boots /\ new(graphics).owned = boot.owned
      /\ new(graphics).batches = boot.batches /\ new(graphics).refused = boot.refused
  BY <1>2 DEF Boots
<1>4. BatchHere(<<{Work}>>)
  BY SpotsHere, BatchesHere
<1> HIDE DEF new
<1>5. QED
  BY <1>1, <1>3, <1>4, KeepStays

-----------------------------------------------------------------------------
(* The bootstrap moves with the memory whatever the observations.          *)
BootInv == holder \in {"coordinator", "alone"} /\ BootOK(boot)

LEMMA BootInitially == BootInit => BootInv
<1> SUFFICES ASSUME BootInit PROVE BootInv
  OBVIOUS
<1>1. RankIs(Overread, 1)
  BY PlaceRanks
<1>2. boot = [at |-> Overread, kept |-> "first", base |-> "first", graphics |-> "first",
              area |-> 0, owned |-> {}, count |-> "absent", batches |-> 0, refused |-> {}]
  BY DEF BootInit
<1>3. Overread \in Range(Places) /\ 0 \in 0..Free /\ "first" \in Held /\ 0 \in Nat
  BY <1>1 DEF RankIs, Free, Held
<1>4. boot \in Boots
  BY <1>2, <1>3 DEF Boots
<1>5. boot.batches = WritingSteps(Rank(boot.at)) /\ Rank(boot.at) = 1
  BY <1>1, <1>2 DEF RankIs, WritingSteps
<1>6. QED
  BY <1>4, <1>5 DEF BootInv, BootOK, BootInit

LEMMA BootStepKeeps == BootInv /\ [BootStep]_bootVars => BootInv'
<1> SUFFICES ASSUME BootInv, [BootStep]_bootVars PROVE BootInv'
  OBVIOUS
<1>1. BootOK(boot) /\ holder \in {"coordinator", "alone"}
  BY DEF BootInv
<1>2. ASSUME BootOK(boot'), holder' = holder PROVE BootInv'
  <2>1. CASE holder = "coordinator"
    BY <1>1, <1>2 DEF BootInv, BootOK
  <2>2. QED
    BY <1>1, <1>2 DEF BootInv, BootOK
<1>3. CASE BootStep
  <2>1. holder' = holder
    BY <1>3 DEF BootStep
  <2>2. BootOK(boot')
    BY <1>1, <1>3, OverreadByteKeeps, TerminalJumpKeeps, SetupCallKeeps, FirstReadKeeps,
       FirstStageEntryKeeps, FirstIllegalKeeps, SecondIllegalKeeps, FirstTraceKeeps,
       BranchChainKeeps, RegisterPrefixKeeps, BusErrorKeeps, CustomChipKeeps,
       ExecTransitionKeeps, OpenGraphicsKeeps, AllocationKeeps, GraphicsInitKeeps,
       ViewServicesKeeps, InterruptControlKeeps DEF BootStep
  <2>3. QED
    BY <1>2, <2>1, <2>2
<1>4. CASE UNCHANGED bootVars
  BY <1>1, <1>4 DEF bootVars, BootInv, BootOK
<1>5. QED
  BY <1>3, <1>4

LEMMA BootInvSays == BootInv => BootMovesWithMemory /\ BootTypeOK
<1> SUFFICES ASSUME BootInv PROVE BootMovesWithMemory /\ BootTypeOK
  OBVIOUS
<1>1. boot \in Boots /\ holder \in {"coordinator", "alone"} /\ BootOK(boot)
  BY DEF BootInv, BootOK
<1>2. BootTypeOK
  BY <1>1 DEF BootTypeOK, Boots
<1>3. PICK n \in 1..19 : Places[n] = boot.at
  BY <1>1, PlacesHere DEF Boots, Range
<1>4. RankIs(boot.at, n) /\ (boot.at = Ended => n = 19) /\ (n = 19 => boot.at = Ended)
  BY <1>3, IndexHere, PlacesHere, PlaceRanks DEF RankIs
<1>5. Rank(FirstRead) = 4 /\ Rank(boot.at) = n
  BY <1>4, PlaceRanks DEF RankIs
<1>6. ASSUME holder = "coordinator"
      PROVE  boot.batches = WritingSteps(n) /\ (n > 4 => Stage \subseteq boot.owned)
  BY <1>1, <1>5, <1>6 DEF BootOK
<1>7. BootMovesWithMemory
  BY <1>4, <1>5, <1>6 DEF BootMovesWithMemory, WritingSteps
<1>8. QED
  BY <1>2, <1>7

LEMMA SessionsAreBoots == [SessionsNext]_sessionVars => [BootStep]_bootVars
BY DEF SessionsNext, sessionVars, DosTitleStep, TitleStageStep, MainStageStep,
       AtariSessionStep, GameSessionStep, DriverStep, BootstrapStep, LoaderStep

(* The inductive invariant of the Amiga's bootstrap.                       *)
THEOREM BootInvariant == SessionsSpec => []BootInv
<1>1. SessionsInit => BootInv
  BY BootInitially DEF SessionsInit
<1>2. QED
  BY <1>1, SessionsAreBoots, BootStepKeeps, PTL DEF SessionsSpec

(* The Atari's entry follows its loader's return, and the batches the      *)
(* Amiga's memory took are those of the steps its bootstrap has made, with *)
(* the first stage owned whole from its read on                            *)
(* (MillenniumAmigaFirstStageSession and the coordinator that keeps its    *)
(* copy with the memory's): whatever stacks and areas are observed.        *)
THEOREM BootstrapsAreSoundHolds == SessionsSpec => []BootstrapsAreSound
<1>1. AtariInv /\ BootInv => BootstrapsAreSound
  BY AtariInvSays, BootInvSays DEF BootstrapsAreSound
<1>2. QED
  BY <1>1, AtariInvariant, BootInvariant, PTL

-----------------------------------------------------------------------------
(* The types of all sessions, from the invariants above.                   *)
LEMMA StageTyped == StageInv => StageTypeOK
BY DEF StageInv, StageOK, StageTypeOK

LEMMA LoadTyped == LoadInv => LoadTypeOK
<1> SUFFICES ASSUME LoadInv PROVE LoadTypeOK
  OBVIOUS
<1>1. LoadShape
  BY DEF LoadInv
<1>2. video.at \in VideoStates
  BY <1>1 DEF LoadShape
<1>3. \E i \in 1..Len(VideoPlaces) : VideoAt(VideoPlaces[i])
  <2>1. Len(VideoPlaces) = 11 /\ 1..11 = 1..Len(VideoPlaces)
    BY DEF VideoPlaces
  <2>2. /\ VideoPlaces[1] = "none" /\ VideoPlaces[2] = "open" /\ VideoPlaces[3] = "seek_end"
        /\ VideoPlaces[4] = "allocation" /\ VideoPlaces[5] = "seek_start"
        /\ VideoPlaces[6] = "read" /\ VideoPlaces[7] = "close"
        /\ VideoPlaces[8] = "vector_request" /\ VideoPlaces[9] = "vector_result"
        /\ VideoPlaces[10] = "vector_seen" /\ VideoPlaces[11] = "ivt_seen"
    BY DEF VideoPlaces
  <2>3. \E i \in 1..11 : VideoPlaces[i] = video.at
    BY <1>2, <2>2 DEF VideoStates
  <2>4. QED
    BY <2>1, <2>3 DEF VideoAt
<1>4. /\ dos.kind \in {"sound_boundary", "title"} /\ dos.at \in SoundPlaces
      /\ dos.entry \in EntryPlaces /\ dos.started \in BOOLEAN /\ dos.size \in DriverSizes
      /\ {dos.seq, dos.last, dos.next, dos.sound, dos.child, dos.code, dos.vector} \subseteq Nat
  BY <1>1 DEF LoadShape
<1>5. /\ video.card \in {"none", "ega", "mcga"} /\ video.segment \in Observed \cup {0}
      /\ image \in [LoadSegments -> {"none", "sound", "child", "video"}]
      /\ met.front \in {"host", "launcher"} /\ met.shown \in {"sound_boundary", "title"}
  BY <1>1 DEF LoadShape
<1>6. QED
  BY <1>3, <1>4, <1>5 DEF LoadTypeOK

ActiveHere == active \in ReleasesHere

LEMMA SessionsStayActive == ActiveHere /\ [SessionsNext]_sessionVars => ActiveHere'
BY DEF ActiveHere, SessionsNext, sessionVars, DosTitleStep, TitleStageStep, MainStageStep,
       AtariSessionStep, GameSessionStep, DriverStep, BootstrapStep, LoaderStep

(* Every session has its type, of whichever release, for every value of    *)
(* the constants.                                                          *)
THEOREM TypeHolds == SessionsSpec => []TypeOK
<1>1. SessionsSpec => []ActiveHere
  <2>1. SessionsInit => ActiveHere
    BY DEF SessionsInit, ActiveHere
  <2>2. QED
    BY <2>1, SessionsStayActive, PTL DEF SessionsSpec
<1>2. SessionsSpec => []StageInv
  <2>1. SessionsInit => StageInv
    BY StageInvInit DEF SessionsInit
  <2>2. QED
    BY <2>1, SessionsKeepStage, PTL DEF SessionsSpec
<1>3. SessionsSpec => []LoadInv
  <2>1. SessionsInit => LoadInv
    BY LoadInvInit DEF SessionsInit
  <2>2. QED
    BY <2>1, SessionsKeepLoads, PTL DEF SessionsSpec
<1>4. /\ ActiveHere /\ TitleTypeOK /\ BatchTypeOK /\ StageInv /\ AtariInv
      /\ PathInv /\ VideoTypeOK /\ BootInv /\ LoadInv
      => TypeOK
  BY StageTyped, LoadTyped, AtariInvSays, PathIsSound, BootInvSays
     DEF TypeOK, ActiveHere
<1>5. QED
  BY <1>1, <1>2, <1>3, <1>4, TitleTypeHolds, BatchTypeHolds, AtariInvariant, SessionsKeepPath,
     DriverIsTyped, BootInvariant, PTL

=============================================================================

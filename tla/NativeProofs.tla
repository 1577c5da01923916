------------------------------ MODULE NativeProofs ------------------------------
(***************************************************************************)
(* The video driver's sessions, for words, bytes and limits of any size:   *)
(* the interrupt's returns are balanced, its copy and its palette stay     *)
(* within their counts, and a function returns where it was called from    *)
(* with no more drawn than it may draw.  The loads before the title, for   *)
(* an arena and images of any size: what is loaded lies apart and is kept, *)
(* but where the video driver was observed to be put over it.  The main    *)
(* stage, whatever it is asked: what it reports is what its calls did.     *)
(* The game: a handler is where its function was placed, the loop is       *)
(* dispatched by its own places, and each dispatch returns to its own.     *)
(***************************************************************************)
EXTENDS NativeSessions, FiniteSetTheorems, SequenceTheorems, WellFoundedInduction, TLAPS

-----------------------------------------------------------------------------
(* The interrupt.  Its session by the parts an inductive step can disturb. *)
CallbackShape ==
  /\ card \in {"ega", "mcga"}
  /\ callback \in [at : CallbackPlaces, busy : BOOLEAN, pushed : {0, 8, 9}, popped : 0..9,
                   reads : 0..(Wanted2 + 1), cx : DriverWord, rows : DriverWord,
                   ax : DriverWord, dx : DriverWord, colours : DriverWord, component : 0..2,
                   outer : DriverWord \union {NoCount}]

(* Before anything is saved, while all nine words are, and as they go.     *)
UnsavedPlaces ==
  {"request", "retrace_clear", "retrace_set", "postlude", "callback_byte", "callback_word",
   "local_return", "counter", "flag"}
RestoredPlaces == {"flags", "palette_return"}
SavedPlaces ==
  (DescriptorPlaces \ {"pops", "flags", "palette_return"}) \union {"copy_route", "height"}
    \union RowPlaces \union EpiloguePlaces \union PalettePlaces

StackIsKept ==
  /\ callback.at \in UnsavedPlaces \union {"saves", "saves_zero"} =>
       callback.pushed = 0 /\ callback.popped = 0
  /\ callback.at \in UnsavedPlaces \union {"palette_return", "iret", "returned"} => ~callback.busy
  /\ callback.at \in SavedPlaces => callback.pushed = 9 /\ callback.popped = 0
  /\ callback.at = "pops" => callback.pushed = 9 /\ callback.popped < 9
  /\ callback.at \in RestoredPlaces => callback.pushed = 9 /\ callback.popped = 9
  /\ callback.at \in {"iret", "returned"} => callback.pushed = callback.popped

(* The pointers a copy asks for keep it from being entered twice.          *)
AfterPointer ==
  {"component", "component_out", "palette_loop", "palette_si", "palette_ds", "descriptor_word",
   "count_stack"}
CopyingPlaces == RowPlaces \union EpiloguePlaces \union (PalettePlaces \ AfterPointer)

ReadsAreCounted ==
  /\ callback.outer # NoCount => callback.reads = Wanted2 + 1
  /\ callback.at \in CopyingPlaces => callback.reads = Wanted2
  /\ callback.at \in AfterPointer => callback.reads = Wanted2 + 1

CountsAreInRange ==
  /\ callback.at \in RowPlaces => callback.rows \in 1..(3 * (ByteTop + 1))
  /\ callback.at = "store" => callback.ax < callback.dx
  /\ callback.at \in {"palette_index", "palette_clear", "palette_prefix"} =>
       callback.rows \in DriverByte
  /\ callback.at \in {"palette_source", "palette_out", "palette_retrace"} =>
       callback.rows \in 1..(ByteTop + 1)
  /\ callback.at \in ColourPlaces => callback.colours \in 1..(ByteTop + 1)

CallbackInv == CallbackShape /\ StackIsKept /\ ReadsAreCounted /\ CountsAreInRange

(* Arithmetic goes round within a word.                                    *)
LEMMA WordsGoRound == \A n \in Int : InWord(n) \in DriverWord
  BY VideoAssumption, SMT DEF InWord, DriverWord

LEMMA BytesAreWords ==
  /\ WordTop \in Nat /\ ByteTop \in Nat /\ 6 <= WordTop /\ 3 * (ByteTop + 1) <= WordTop
  /\ DriverByte \subseteq DriverWord /\ DriverWord \subseteq Nat
  BY VideoAssumption, SMT DEF DriverByte, DriverWord

LEMMA CallbackInvInit == CallbackInit => CallbackInv
  BY BytesAreWords
  DEF CallbackInit, CallbackInv, CallbackShape, StackIsKept, ReadsAreCounted, CountsAreInRange,
      NoCallback, NoCount, Wanted2, DriverWord, DriverByte, CallbackPlaces, InterruptPlaces,
      UnsavedPlaces, RestoredPlaces, SavedPlaces, DescriptorPlaces, RowPlaces, EpiloguePlaces,
      PalettePlaces, ColourPlaces, CopyingPlaces, AfterPointer

(* A pointer counted changes the count of pointers alone.                  *)
LEMMA CountedPointer ==
  CallbackShape =>
    \E n \in 0..(Wanted2 + 1) :
      /\ PointerCounted(callback) = [callback EXCEPT !.reads = n]
      /\ callback.reads >= Wanted2 => n = Wanted2 + 1
      /\ callback.reads < Wanted2 => n <= Wanted2
  BY DEF CallbackShape, PointerCounted, Wanted2

LEMMA ShapeOfWords ==
  CallbackShape =>
    /\ {callback.cx, callback.ax, callback.dx, callback.rows, callback.colours} \subseteq Nat
    /\ callback.outer # NoCount => callback.outer \in Nat
    /\ callback.rows <= WordTop /\ callback.colours <= WordTop
  BY BytesAreWords, SMT DEF CallbackShape, DriverWord

LEMMA WordsOfSession ==
  CallbackShape =>
    /\ InWord(callback.cx - 1) \in DriverWord
    /\ callback.outer # NoCount => InWord(callback.outer - 1) \in DriverWord
    /\ InWord(callback.ax - callback.dx) \in DriverWord
    /\ \A w \in DriverWord : InWord(callback.ax + w) \in DriverWord
  <1> SUFFICES ASSUME CallbackShape
               PROVE  /\ InWord(callback.cx - 1) \in DriverWord
                      /\ callback.outer # NoCount => InWord(callback.outer - 1) \in DriverWord
                      /\ InWord(callback.ax - callback.dx) \in DriverWord
                      /\ \A w \in DriverWord : InWord(callback.ax + w) \in DriverWord
    OBVIOUS
  <1>1. {callback.cx, callback.ax, callback.dx} \subseteq Int  BY ShapeOfWords
  <1>2. callback.outer # NoCount => callback.outer \in Int  BY ShapeOfWords
  <1>3. DriverWord \subseteq Int  BY BytesAreWords
  <1> QED  BY <1>1, <1>2, <1>3, WordsGoRound

(* What the copy's arithmetic leaves in ax, and where it goes with it.      *)
LEMMA HeightEffect ==
  CopyHeight =>
    \E n \in 1..(3 * (ByteTop + 1)) :
      n \in DriverWord /\ callback' = [callback EXCEPT !.rows = n, !.at = "width"]
  <1>1. \A h \in DriverByte : 3 * (h + 1) \in 1..(3 * (ByteTop + 1)) /\ 3 * (h + 1) \in DriverWord
    BY BytesAreWords DEF DriverByte, DriverWord
  <1> QED  BY <1>1 DEF CopyHeight, Onward

LEMMA DestinationEffect ==
  CallbackShape /\ CopyDestination =>
    \E ax \in DriverWord :
      \/ callback' = [callback EXCEPT !.ax = ax, !.at = "density"]
      \/ callback' = [callback EXCEPT !.ax = ax, !.at = "store"] /\ ax < callback.dx
  <1> SUFFICES ASSUME CallbackShape, CopyDestination,
                      NEW w \in DriverWord, NEW ax, ax = InWord(callback.ax + w),
                      NEW place, callback' = [callback EXCEPT !.ax = ax, !.at = place],
                      place = IF callback.ax + w > WordTop \/ ax >= callback.dx
                              THEN "density" ELSE "store"
               PROVE  \E x \in DriverWord :
                        \/ callback' = [callback EXCEPT !.ax = x, !.at = "density"]
                        \/ callback' = [callback EXCEPT !.ax = x, !.at = "store"] /\ x < callback.dx
    BY DEF CopyDestination, Onward
  <1>1. ax \in DriverWord /\ ax \in Int /\ callback.dx \in Int
    BY WordsOfSession, ShapeOfWords, BytesAreWords
  <1>2. place = "density" \/ (place = "store" /\ ax < callback.dx)
    BY <1>1
  <1> QED  BY <1>1, <1>2

LEMMA CurrentEffect ==
  CallbackShape /\ CopyCurrent =>
    \E ax \in DriverWord :
      \/ callback' = [callback EXCEPT !.ax = ax, !.at = "current"]
      \/ callback' = [callback EXCEPT !.ax = ax, !.at = "store"] /\ ax < callback.dx
  <1> SUFFICES ASSUME CallbackShape, CopyCurrent
               PROVE  \E x \in DriverWord :
                        \/ callback' = [callback EXCEPT !.ax = x, !.at = "current"]
                        \/ callback' = [callback EXCEPT !.ax = x, !.at = "store"] /\ x < callback.dx
    OBVIOUS
  <1> DEFINE ax == InWord(callback.ax - callback.dx)
  <1>0. ax \in DriverWord  BY WordsOfSession
  <1>2. callback' = [callback EXCEPT !.ax = ax,
                                     !.at = IF ax >= callback.dx THEN "current" ELSE "store"]
    BY DEF CopyCurrent, Onward
  <1> HIDE DEF ax
  <1>1. ax \in Int /\ callback.dx \in Int  BY <1>0, ShapeOfWords, BytesAreWords
  <1>3. ~(ax >= callback.dx) => ax < callback.dx  BY <1>1
  <1> QED  BY <1>0, <1>1, <1>2, <1>3

(* Every part of the interrupt's invariant is kept by every step.          *)
LEMMA ShapeStep ==
  CallbackShape /\ StackIsKept /\ CountsAreInRange /\ CallbackStep => CallbackShape'
  <1> SUFFICES ASSUME CallbackShape, StackIsKept, CountsAreInRange, CallbackStep
               PROVE  CallbackShape'
    OBVIOUS
  <1> USE DEF CallbackShape, CallbackAt, Onward, CallbackPlaces, InterruptPlaces,
              DescriptorPlaces, RowPlaces, EpiloguePlaces, PalettePlaces, ColourPlaces
  <1>1. CASE InterruptRequest  BY <1>1 DEF InterruptRequest
  <1>2. CASE InterruptRetrace  BY <1>2 DEF InterruptRetrace
  <1>3. CASE Postlude  BY <1>3 DEF Postlude
  <1>4. CASE CallbackRead  BY <1>4 DEF CallbackRead
  <1>5. CASE CallbackCounter
    <2>1. CASE callback' = [callback EXCEPT !.busy = TRUE, !.at = "saves_zero"]
      BY <1>5, <2>1 DEF CallbackCounter
    <2>2. CASE callback' = [callback EXCEPT !.busy = FALSE, !.at = "local_return"]
      BY <1>5, <2>2 DEF CallbackCounter
    <2> QED  BY <1>5, <2>1, <2>2 DEF CallbackCounter
  <1>6. CASE BusyFlag  BY <1>6 DEF BusyFlag
  <1>7. CASE RegisterSaves  BY <1>7 DEF RegisterSaves
  <1>8. CASE ZeroPointer  BY <1>8 DEF ZeroPointer
  <1>9. CASE CountRead  BY <1>9 DEF CountRead
  <1>10. CASE PointerRead
    <2>1. PICK n \in 0..(Wanted2 + 1) :
            /\ callback' = [callback EXCEPT !.reads = n, !.at = "descriptor"]
            /\ callback.reads >= Wanted2 => n = Wanted2 + 1
      BY <1>10, CountedPointer DEF PointerRead
    <2>2. callback'.at = "descriptor" /\ callback'.reads = n /\ callback'.outer = callback.outer
      BY <2>1
    <2> QED  BY <1>10, <2>1, <2>2 DEF PointerRead
  <1>11. CASE TimerRead  BY <1>11 DEF TimerRead
  <1>12. CASE VideoPointer
    <2>1. PICK n \in 0..(Wanted2 + 1) :
            /\ callback' = [callback EXCEPT !.reads = n, !.at = "selector"]
            /\ callback.reads >= Wanted2 => n = Wanted2 + 1
      BY <1>12, CountedPointer DEF VideoPointer
    <2>2. callback'.at = "selector" /\ callback'.reads = n /\ callback'.outer = callback.outer
      BY <2>1
    <2> QED  BY <1>12, <2>1, <2>2 DEF VideoPointer
  <1>13. CASE DescriptorSelector  BY <1>13 DEF DescriptorSelector
  <1>14. CASE LoopIteration
    <2>1. InWord(callback.cx - 1) \in DriverWord  BY <1>14, WordsOfSession DEF LoopIteration
    <2> QED  BY <1>14, <2>1 DEF LoopIteration
  <1>15. CASE PaletteDescriptorLoop
    <2>1. InWord(callback.outer - 1) \in DriverWord
      BY <1>15, WordsOfSession DEF PaletteDescriptorLoop
    <2> QED  BY <1>15, <2>1 DEF PaletteDescriptorLoop
  <1>16. CASE ReturnPop
    <2>1. callback.popped + 1 \in 0..9  BY <1>16 DEF ReturnPop, StackIsKept
    <2> QED  BY <1>16, <2>1 DEF ReturnPop
  <1>17. CASE FlagClear  BY <1>17 DEF FlagClear
  <1>18. CASE CallbackReturn  BY <1>18 DEF CallbackReturn
  <1>19. CASE Iret  BY <1>19 DEF Iret
  <1>20. CASE CopyRoute  BY <1>20 DEF CopyRoute
  <1>21. CASE CopyHeight
    <2>1. PICK n \in 1..(3 * (ByteTop + 1)) :
            n \in DriverWord /\ callback' = [callback EXCEPT !.rows = n, !.at = "width"]
      BY <1>21, HeightEffect
    <2> QED  BY <1>21, <2>1 DEF CopyHeight
  <1>22. CASE CopyWidth  BY <1>22 DEF CopyWidth
  <1>23. CASE CopyLimit  BY <1>23 DEF CopyLimit
  <1>24. CASE CopySource  BY <1>24, BytesAreWords DEF CopySource
  <1>25. CASE CopyDestination
    <2>1. PICK ax \in DriverWord :
            \/ callback' = [callback EXCEPT !.ax = ax, !.at = "density"]
            \/ callback' = [callback EXCEPT !.ax = ax, !.at = "store"] /\ ax < callback.dx
      BY <1>25, DestinationEffect
    <2>2. CASE callback' = [callback EXCEPT !.ax = ax, !.at = "density"]
      BY <1>25, <2>2 DEF CopyDestination
    <2>3. CASE callback' = [callback EXCEPT !.ax = ax, !.at = "store"] /\ ax < callback.dx
      BY <1>25, <2>3 DEF CopyDestination
    <2> QED  BY <2>1, <2>2, <2>3
  <1>26. CASE CopyDensity  BY <1>26 DEF CopyDensity
  <1>27. CASE CopyCurrent
    <2>1. PICK ax \in DriverWord :
            \/ callback' = [callback EXCEPT !.ax = ax, !.at = "current"]
            \/ callback' = [callback EXCEPT !.ax = ax, !.at = "store"] /\ ax < callback.dx
      BY <1>27, CurrentEffect
    <2>2. CASE callback' = [callback EXCEPT !.ax = ax, !.at = "current"]
      BY <1>27, <2>2 DEF CopyCurrent
    <2>3. CASE callback' = [callback EXCEPT !.ax = ax, !.at = "store"] /\ ax < callback.dx
      BY <1>27, <2>3 DEF CopyCurrent
    <2> QED  BY <2>1, <2>2, <2>3
  <1>28. CASE CopyStore
    <2>1. callback.rows - 1 \in DriverWord /\ 0 \in DriverWord
      BY <1>28, ShapeOfWords, BytesAreWords DEF CopyStore, CountsAreInRange, RowPlaces, DriverWord
    <2> QED  BY <1>28, <2>1 DEF CopyStore
  <1>29. CASE Epilogue  BY <1>29 DEF Epilogue
  <1>30. CASE PaletteCount
    <2>1. PICK n \in DriverByte :
            card' = card /\ callback' = [callback EXCEPT !.rows = n, !.at = "palette_index"]
      BY <1>30 DEF PaletteCount
    <2>2. n \in DriverWord  BY BytesAreWords
    <2> QED  BY <2>1, <2>2
  <1>31. CASE PaletteIndex  BY <1>31 DEF PaletteIndex
  <1>32. CASE PalettePrefix
    <2>9. callback.at = "palette_prefix" => callback.rows + 1 \in DriverWord
      BY BytesAreWords DEF CountsAreInRange, DriverByte, DriverWord
    <2>1. CASE CallbackAt("palette_clear")  BY <1>32, <2>9, <2>1 DEF PalettePrefix
    <2>2. CASE CallbackAt("palette_prefix")  BY <1>32, <2>9, <2>2 DEF PalettePrefix
    <2>3. CASE CallbackAt("palette_source")  BY <1>32, <2>9, <2>3 DEF PalettePrefix
    <2>4. CASE CallbackAt("palette_out")  BY <1>32, <2>9, <2>4 DEF PalettePrefix
    <2> QED  BY <1>32, <2>1, <2>2, <2>3, <2>4 DEF PalettePrefix
  <1>33. CASE PaletteRetrace
    <2>1. 0 \in DriverWord  BY BytesAreWords DEF DriverWord
    <2> QED  BY <1>33, <2>1 DEF PaletteRetrace
  <1>34. CASE PalettePointer
    <2>1. PICK n \in 0..(Wanted2 + 1) :
            /\ callback' = [callback EXCEPT !.reads = n, !.at = "component"]
            /\ callback.reads >= Wanted2 => n = Wanted2 + 1
      BY <1>34, CountedPointer DEF PalettePointer
    <2>2. callback'.at = "component" /\ callback'.reads = n /\ callback'.outer = callback.outer
      BY <2>1
    <2> QED  BY <1>34, <2>1, <2>2 DEF PalettePointer
  <1>35. CASE Component  BY <1>35 DEF Component
  <1>36. CASE ComponentOut
    <2>1. (callback.component + 1) % 3 \in 0..2  OBVIOUS
    <2> QED  BY <1>36, <2>1 DEF ComponentOut
  <1>37. CASE PaletteLoop
    <2>1. callback.colours - 1 \in DriverWord
      BY <1>37, ShapeOfWords, BytesAreWords DEF PaletteLoop, DriverWord
    <2> QED  BY <1>37, <2>1 DEF PaletteLoop
  <1>38. CASE PaletteRestore
    <2>1. CASE CallbackAt("palette_si")  BY <1>38, <2>1 DEF PaletteRestore
    <2>2. CASE CallbackAt("palette_ds")  BY <1>38, <2>2 DEF PaletteRestore
    <2>3. CASE CallbackAt("descriptor_word")  BY <1>38, <2>3 DEF PaletteRestore
    <2>4. CASE CallbackAt("count_stack")  BY <1>38, <2>4 DEF PaletteRestore
    <2> QED  BY <1>38, <2>1, <2>2, <2>3, <2>4 DEF PaletteRestore
  <1> QED
    BY <1>1, <1>2, <1>3, <1>4, <1>5, <1>6, <1>7, <1>8, <1>9, <1>10, <1>11, <1>12, <1>13,
       <1>14, <1>15, <1>16, <1>17, <1>18, <1>19, <1>20, <1>21, <1>22, <1>23, <1>24, <1>25,
       <1>26, <1>27, <1>28, <1>29, <1>30, <1>31, <1>32, <1>33, <1>34, <1>35, <1>36, <1>37,
       <1>38 DEF CallbackStep, InterruptStep, DescriptorStep, CopyStep, PaletteStep

LEMMA StackStep == CallbackShape /\ StackIsKept /\ CallbackStep => StackIsKept'
  <1> SUFFICES ASSUME CallbackShape, StackIsKept, CallbackStep PROVE StackIsKept'
    OBVIOUS
  <1> USE DEF CallbackShape, StackIsKept, CallbackAt, Onward, UnsavedPlaces,
              RestoredPlaces, SavedPlaces, DescriptorPlaces, RowPlaces,
              EpiloguePlaces, PalettePlaces, ColourPlaces
  <1>1. CASE InterruptRequest  BY <1>1 DEF InterruptRequest
  <1>2. CASE InterruptRetrace  BY <1>2 DEF InterruptRetrace
  <1>3. CASE Postlude  BY <1>3 DEF Postlude
  <1>4. CASE CallbackRead  BY <1>4 DEF CallbackRead
  <1>5. CASE CallbackCounter
    <2>1. CASE callback' = [callback EXCEPT !.busy = TRUE, !.at = "saves_zero"]
      BY <1>5, <2>1 DEF CallbackCounter
    <2>2. CASE callback' = [callback EXCEPT !.busy = FALSE, !.at = "local_return"]
      BY <1>5, <2>2 DEF CallbackCounter
    <2> QED  BY <1>5, <2>1, <2>2 DEF CallbackCounter
  <1>6. CASE BusyFlag  BY <1>6 DEF BusyFlag
  <1>7. CASE RegisterSaves  BY <1>7 DEF RegisterSaves
  <1>8. CASE ZeroPointer  BY <1>8 DEF ZeroPointer
  <1>9. CASE CountRead  BY <1>9 DEF CountRead
  <1>10. CASE PointerRead
    <2>1. PICK n \in 0..(Wanted2 + 1) :
            /\ callback' = [callback EXCEPT !.reads = n, !.at = "descriptor"]
            /\ callback.reads >= Wanted2 => n = Wanted2 + 1
      BY <1>10, CountedPointer DEF PointerRead
    <2>2. callback'.at = "descriptor" /\ callback'.reads = n /\ callback'.outer = callback.outer
      BY <2>1
    <2> QED  BY <1>10, <2>1, <2>2 DEF PointerRead
  <1>11. CASE TimerRead  BY <1>11 DEF TimerRead
  <1>12. CASE VideoPointer
    <2>1. PICK n \in 0..(Wanted2 + 1) :
            /\ callback' = [callback EXCEPT !.reads = n, !.at = "selector"]
            /\ callback.reads >= Wanted2 => n = Wanted2 + 1
      BY <1>12, CountedPointer DEF VideoPointer
    <2>2. callback'.at = "selector" /\ callback'.reads = n /\ callback'.outer = callback.outer
      BY <2>1
    <2> QED  BY <1>12, <2>1, <2>2 DEF VideoPointer
  <1>13. CASE DescriptorSelector  BY <1>13 DEF DescriptorSelector
  <1>14. CASE LoopIteration  BY <1>14 DEF LoopIteration
  <1>15. CASE PaletteDescriptorLoop  BY <1>15 DEF PaletteDescriptorLoop
  <1>16. CASE ReturnPop  BY <1>16 DEF ReturnPop
  <1>17. CASE FlagClear  BY <1>17 DEF FlagClear
  <1>18. CASE CallbackReturn  BY <1>18 DEF CallbackReturn
  <1>19. CASE Iret  BY <1>19 DEF Iret
  <1>20. CASE CopyRoute  BY <1>20 DEF CopyRoute
  <1>21. CASE CopyHeight  BY <1>21 DEF CopyHeight
  <1>22. CASE CopyWidth  BY <1>22 DEF CopyWidth
  <1>23. CASE CopyLimit  BY <1>23 DEF CopyLimit
  <1>24. CASE CopySource  BY <1>24 DEF CopySource
  <1>25. CASE CopyDestination  BY <1>25 DEF CopyDestination
  <1>26. CASE CopyDensity  BY <1>26 DEF CopyDensity
  <1>27. CASE CopyCurrent  BY <1>27 DEF CopyCurrent
  <1>28. CASE CopyStore  BY <1>28 DEF CopyStore
  <1>29. CASE Epilogue  BY <1>29 DEF Epilogue
  <1>30. CASE PaletteCount  BY <1>30 DEF PaletteCount
  <1>31. CASE PaletteIndex  BY <1>31 DEF PaletteIndex
  <1>32. CASE PalettePrefix  BY <1>32 DEF PalettePrefix
  <1>33. CASE PaletteRetrace  BY <1>33 DEF PaletteRetrace
  <1>34. CASE PalettePointer
    <2>1. PICK n \in 0..(Wanted2 + 1) :
            /\ callback' = [callback EXCEPT !.reads = n, !.at = "component"]
            /\ callback.reads >= Wanted2 => n = Wanted2 + 1
      BY <1>34, CountedPointer DEF PalettePointer
    <2>2. callback'.at = "component" /\ callback'.reads = n /\ callback'.outer = callback.outer
      BY <2>1
    <2> QED  BY <1>34, <2>1, <2>2 DEF PalettePointer
  <1>35. CASE Component  BY <1>35 DEF Component
  <1>36. CASE ComponentOut  BY <1>36 DEF ComponentOut
  <1>37. CASE PaletteLoop  BY <1>37 DEF PaletteLoop
  <1>38. CASE PaletteRestore  BY <1>38 DEF PaletteRestore
  <1> QED
    BY <1>1, <1>2, <1>3, <1>4, <1>5, <1>6, <1>7, <1>8, <1>9, <1>10, <1>11, <1>12, <1>13,
       <1>14, <1>15, <1>16, <1>17, <1>18, <1>19, <1>20, <1>21, <1>22, <1>23, <1>24, <1>25,
       <1>26, <1>27, <1>28, <1>29, <1>30, <1>31, <1>32, <1>33, <1>34, <1>35, <1>36, <1>37,
       <1>38 DEF CallbackStep, InterruptStep, DescriptorStep, CopyStep, PaletteStep

LEMMA ReadsStep == CallbackShape /\ ReadsAreCounted /\ CallbackStep => ReadsAreCounted'
  <1> SUFFICES ASSUME CallbackShape, ReadsAreCounted, CallbackStep PROVE ReadsAreCounted'
    OBVIOUS
  <1> USE DEF CallbackShape, ReadsAreCounted, CallbackAt, Onward, Wanted2, NoCount,
              RowPlaces, EpiloguePlaces, PalettePlaces, ColourPlaces, CopyingPlaces,
              AfterPointer
  <1>1. CASE InterruptRequest  BY <1>1 DEF InterruptRequest
  <1>2. CASE InterruptRetrace  BY <1>2 DEF InterruptRetrace
  <1>3. CASE Postlude  BY <1>3 DEF Postlude
  <1>4. CASE CallbackRead  BY <1>4 DEF CallbackRead
  <1>5. CASE CallbackCounter
    <2>1. CASE callback' = [callback EXCEPT !.busy = TRUE, !.at = "saves_zero"]
      BY <1>5, <2>1 DEF CallbackCounter
    <2>2. CASE callback' = [callback EXCEPT !.busy = FALSE, !.at = "local_return"]
      BY <1>5, <2>2 DEF CallbackCounter
    <2> QED  BY <1>5, <2>1, <2>2 DEF CallbackCounter
  <1>6. CASE BusyFlag  BY <1>6 DEF BusyFlag
  <1>7. CASE RegisterSaves  BY <1>7 DEF RegisterSaves
  <1>8. CASE ZeroPointer  BY <1>8 DEF ZeroPointer
  <1>9. CASE CountRead  BY <1>9 DEF CountRead
  <1>10. CASE PointerRead
    <2>1. PICK n \in 0..(Wanted2 + 1) :
            /\ callback' = [callback EXCEPT !.reads = n, !.at = "descriptor"]
            /\ callback.reads >= Wanted2 => n = Wanted2 + 1
      BY <1>10, CountedPointer DEF PointerRead
    <2>2. callback'.at = "descriptor" /\ callback'.reads = n /\ callback'.outer = callback.outer
      BY <2>1
    <2> QED  BY <1>10, <2>1, <2>2 DEF PointerRead
  <1>11. CASE TimerRead  BY <1>11 DEF TimerRead
  <1>12. CASE VideoPointer
    <2>1. PICK n \in 0..(Wanted2 + 1) :
            /\ callback' = [callback EXCEPT !.reads = n, !.at = "selector"]
            /\ callback.reads >= Wanted2 => n = Wanted2 + 1
      BY <1>12, CountedPointer DEF VideoPointer
    <2>2. callback'.at = "selector" /\ callback'.reads = n /\ callback'.outer = callback.outer
      BY <2>1
    <2> QED  BY <1>12, <2>1, <2>2 DEF VideoPointer
  <1>13. CASE DescriptorSelector  BY <1>13 DEF DescriptorSelector
  <1>14. CASE LoopIteration  BY <1>14 DEF LoopIteration
  <1>15. CASE PaletteDescriptorLoop  BY <1>15 DEF PaletteDescriptorLoop
  <1>16. CASE ReturnPop  BY <1>16 DEF ReturnPop
  <1>17. CASE FlagClear  BY <1>17 DEF FlagClear
  <1>18. CASE CallbackReturn  BY <1>18 DEF CallbackReturn
  <1>19. CASE Iret  BY <1>19 DEF Iret
  <1>20. CASE CopyRoute  BY <1>20 DEF CopyRoute
  <1>21. CASE CopyHeight  BY <1>21 DEF CopyHeight
  <1>22. CASE CopyWidth  BY <1>22 DEF CopyWidth
  <1>23. CASE CopyLimit  BY <1>23 DEF CopyLimit
  <1>24. CASE CopySource  BY <1>24 DEF CopySource
  <1>25. CASE CopyDestination  BY <1>25 DEF CopyDestination
  <1>26. CASE CopyDensity  BY <1>26 DEF CopyDensity
  <1>27. CASE CopyCurrent  BY <1>27 DEF CopyCurrent
  <1>28. CASE CopyStore  BY <1>28 DEF CopyStore
  <1>29. CASE Epilogue  BY <1>29 DEF Epilogue
  <1>30. CASE PaletteCount  BY <1>30 DEF PaletteCount
  <1>31. CASE PaletteIndex  BY <1>31 DEF PaletteIndex
  <1>32. CASE PalettePrefix  BY <1>32 DEF PalettePrefix
  <1>33. CASE PaletteRetrace  BY <1>33 DEF PaletteRetrace
  <1>34. CASE PalettePointer
    <2>1. PICK n \in 0..(Wanted2 + 1) :
            /\ callback' = [callback EXCEPT !.reads = n, !.at = "component"]
            /\ callback.reads >= Wanted2 => n = Wanted2 + 1
      BY <1>34, CountedPointer DEF PalettePointer
    <2>2. callback'.at = "component" /\ callback'.reads = n /\ callback'.outer = callback.outer
      BY <2>1
    <2> QED  BY <1>34, <2>1, <2>2 DEF PalettePointer
  <1>35. CASE Component  BY <1>35 DEF Component
  <1>36. CASE ComponentOut  BY <1>36 DEF ComponentOut
  <1>37. CASE PaletteLoop  BY <1>37 DEF PaletteLoop
  <1>38. CASE PaletteRestore  BY <1>38 DEF PaletteRestore
  <1> QED
    BY <1>1, <1>2, <1>3, <1>4, <1>5, <1>6, <1>7, <1>8, <1>9, <1>10, <1>11, <1>12, <1>13,
       <1>14, <1>15, <1>16, <1>17, <1>18, <1>19, <1>20, <1>21, <1>22, <1>23, <1>24, <1>25,
       <1>26, <1>27, <1>28, <1>29, <1>30, <1>31, <1>32, <1>33, <1>34, <1>35, <1>36, <1>37,
       <1>38 DEF CallbackStep, InterruptStep, DescriptorStep, CopyStep, PaletteStep

LEMMA CountsStep == CallbackShape /\ CountsAreInRange /\ CallbackStep => CountsAreInRange'
  <1> SUFFICES ASSUME CallbackShape, CountsAreInRange, CallbackStep PROVE CountsAreInRange'
    OBVIOUS
  <1> USE DEF CallbackShape, CountsAreInRange, CallbackAt, Onward, RowPlaces,
              ColourPlaces
  <1>1. CASE InterruptRequest  BY <1>1 DEF InterruptRequest
  <1>2. CASE InterruptRetrace  BY <1>2 DEF InterruptRetrace
  <1>3. CASE Postlude  BY <1>3 DEF Postlude
  <1>4. CASE CallbackRead  BY <1>4 DEF CallbackRead
  <1>5. CASE CallbackCounter
    <2>1. CASE callback' = [callback EXCEPT !.busy = TRUE, !.at = "saves_zero"]
      BY <1>5, <2>1 DEF CallbackCounter
    <2>2. CASE callback' = [callback EXCEPT !.busy = FALSE, !.at = "local_return"]
      BY <1>5, <2>2 DEF CallbackCounter
    <2> QED  BY <1>5, <2>1, <2>2 DEF CallbackCounter
  <1>6. CASE BusyFlag  BY <1>6 DEF BusyFlag
  <1>7. CASE RegisterSaves  BY <1>7 DEF RegisterSaves
  <1>8. CASE ZeroPointer  BY <1>8 DEF ZeroPointer
  <1>9. CASE CountRead  BY <1>9 DEF CountRead
  <1>10. CASE PointerRead
    <2>1. PICK n \in 0..(Wanted2 + 1) :
            /\ callback' = [callback EXCEPT !.reads = n, !.at = "descriptor"]
            /\ callback.reads >= Wanted2 => n = Wanted2 + 1
      BY <1>10, CountedPointer DEF PointerRead
    <2>2. callback'.at = "descriptor" /\ callback'.reads = n /\ callback'.outer = callback.outer
      BY <2>1
    <2> QED  BY <1>10, <2>1, <2>2 DEF PointerRead
  <1>11. CASE TimerRead  BY <1>11 DEF TimerRead
  <1>12. CASE VideoPointer
    <2>1. PICK n \in 0..(Wanted2 + 1) :
            /\ callback' = [callback EXCEPT !.reads = n, !.at = "selector"]
            /\ callback.reads >= Wanted2 => n = Wanted2 + 1
      BY <1>12, CountedPointer DEF VideoPointer
    <2>2. callback'.at = "selector" /\ callback'.reads = n /\ callback'.outer = callback.outer
      BY <2>1
    <2> QED  BY <1>12, <2>1, <2>2 DEF VideoPointer
  <1>13. CASE DescriptorSelector  BY <1>13 DEF DescriptorSelector
  <1>14. CASE LoopIteration  BY <1>14 DEF LoopIteration
  <1>15. CASE PaletteDescriptorLoop  BY <1>15 DEF PaletteDescriptorLoop
  <1>16. CASE ReturnPop  BY <1>16 DEF ReturnPop
  <1>17. CASE FlagClear  BY <1>17 DEF FlagClear
  <1>18. CASE CallbackReturn  BY <1>18 DEF CallbackReturn
  <1>19. CASE Iret  BY <1>19 DEF Iret
  <1>20. CASE CopyRoute  BY <1>20 DEF CopyRoute
  <1>21. CASE CopyHeight
    <2>1. PICK n \in 1..(3 * (ByteTop + 1)) :
            n \in DriverWord /\ callback' = [callback EXCEPT !.rows = n, !.at = "width"]
      BY <1>21, HeightEffect
    <2> QED  BY <1>21, <2>1 DEF CopyHeight
  <1>22. CASE CopyWidth  BY <1>22 DEF CopyWidth
  <1>23. CASE CopyLimit  BY <1>23 DEF CopyLimit
  <1>24. CASE CopySource  BY <1>24 DEF CopySource
  <1>25. CASE CopyDestination
    <2>1. PICK ax \in DriverWord :
            \/ callback' = [callback EXCEPT !.ax = ax, !.at = "density"]
            \/ callback' = [callback EXCEPT !.ax = ax, !.at = "store"] /\ ax < callback.dx
      BY <1>25, DestinationEffect
    <2>2. CASE callback' = [callback EXCEPT !.ax = ax, !.at = "density"]
      BY <1>25, <2>2 DEF CopyDestination
    <2>3. CASE callback' = [callback EXCEPT !.ax = ax, !.at = "store"] /\ ax < callback.dx
      BY <1>25, <2>3 DEF CopyDestination
    <2> QED  BY <2>1, <2>2, <2>3
  <1>26. CASE CopyDensity  BY <1>26 DEF CopyDensity
  <1>27. CASE CopyCurrent
    <2>1. PICK ax \in DriverWord :
            \/ callback' = [callback EXCEPT !.ax = ax, !.at = "current"]
            \/ callback' = [callback EXCEPT !.ax = ax, !.at = "store"] /\ ax < callback.dx
      BY <1>27, CurrentEffect
    <2>2. CASE callback' = [callback EXCEPT !.ax = ax, !.at = "current"]
      BY <1>27, <2>2 DEF CopyCurrent
    <2>3. CASE callback' = [callback EXCEPT !.ax = ax, !.at = "store"] /\ ax < callback.dx
      BY <1>27, <2>3 DEF CopyCurrent
    <2> QED  BY <2>1, <2>2, <2>3
  <1>28. CASE CopyStore
    <2>1. callback.rows - 1 # 0 => callback.rows - 1 \in 1..(3 * (ByteTop + 1))
      BY <1>28, BytesAreWords DEF CopyStore
    <2> QED  BY <1>28, <2>1 DEF CopyStore
  <1>29. CASE Epilogue  BY <1>29 DEF Epilogue
  <1>30. CASE PaletteCount  BY <1>30 DEF PaletteCount
  <1>31. CASE PaletteIndex  BY <1>31 DEF PaletteIndex
  <1>32. CASE PalettePrefix
    <2>1. callback.rows \in DriverByte => callback.rows + 1 \in 1..(ByteTop + 1)
      BY BytesAreWords DEF DriverByte
    <2> QED  BY <1>32, <2>1 DEF PalettePrefix
  <1>33. CASE PaletteRetrace  BY <1>33 DEF PaletteRetrace
  <1>34. CASE PalettePointer
    <2>1. PICK n \in 0..(Wanted2 + 1) :
            /\ callback' = [callback EXCEPT !.reads = n, !.at = "component"]
            /\ callback.reads >= Wanted2 => n = Wanted2 + 1
      BY <1>34, CountedPointer DEF PalettePointer
    <2>2. callback'.at = "component" /\ callback'.reads = n /\ callback'.outer = callback.outer
      BY <2>1
    <2> QED  BY <1>34, <2>1, <2>2 DEF PalettePointer
  <1>35. CASE Component  BY <1>35 DEF Component
  <1>36. CASE ComponentOut  BY <1>36 DEF ComponentOut
  <1>37. CASE PaletteLoop
    <2>1. callback.colours - 1 # 0 => callback.colours - 1 \in 1..(ByteTop + 1)
      BY <1>37, BytesAreWords DEF PaletteLoop, ColourPlaces
    <2> QED  BY <1>37, <2>1 DEF PaletteLoop
  <1>38. CASE PaletteRestore  BY <1>38 DEF PaletteRestore
  <1> QED
    BY <1>1, <1>2, <1>3, <1>4, <1>5, <1>6, <1>7, <1>8, <1>9, <1>10, <1>11, <1>12, <1>13,
       <1>14, <1>15, <1>16, <1>17, <1>18, <1>19, <1>20, <1>21, <1>22, <1>23, <1>24, <1>25,
       <1>26, <1>27, <1>28, <1>29, <1>30, <1>31, <1>32, <1>33, <1>34, <1>35, <1>36, <1>37,
       <1>38 DEF CallbackStep, InterruptStep, DescriptorStep, CopyStep, PaletteStep

LEMMA CallbackInvNext == CallbackInv /\ CallbackStep => CallbackInv'
  BY ShapeStep, StackStep, ReadsStep, CountsStep DEF CallbackInv

(* What the invariant says of the interrupt's returns and of its copy.     *)
LEMMA CallbackIsSound == CallbackInv => CallbackTypeOK /\ InterruptIsBalanced /\ CopyIsBounded
  <1> SUFFICES ASSUME CallbackInv PROVE CallbackTypeOK /\ InterruptIsBalanced /\ CopyIsBounded
    OBVIOUS
  <1>1. CallbackTypeOK  BY DEF CallbackInv, CallbackShape, CallbackTypeOK
  <1>2. InterruptIsBalanced
    BY DEF CallbackInv, CallbackShape, StackIsKept, InterruptIsBalanced, UnsavedPlaces
  <1>3. callback.at \in RowPlaces => callback.outer = NoCount /\ callback.popped = 0
    BY DEF CallbackInv, StackIsKept, ReadsAreCounted, SavedPlaces, CopyingPlaces, Wanted2
  <1>4. CopyIsBounded
    BY <1>3 DEF CallbackInv, CountsAreInRange, CopyIsBounded
  <1> QED  BY <1>1, <1>2, <1>4

-----------------------------------------------------------------------------
(* The functions.  The call by the parts an inductive step can disturb.    *)
CallShape ==
  /\ screen \in {"untouched", "copied"}
  /\ call \in [fn : DOMAIN FunctionEntry \union {"none"}, at : CallPlaces, depth : Int,
               carry : BOOLEAN, count : DriverWord, ax : DriverWord, popped : 0..Saved,
               done : Nat, left : Nat, seen : Nat]

(* A place belongs to one function.                                        *)
BeforeDrawing ==
  ClipPlaces \union TablePlaces \union PointerPlaces \union SetupPlaces \union HelperPlaces
    \union {"caller_return", "restore", "mode_byte", "overlay_branch", "copy_return"}
SixPlaces == BeforeDrawing \union {"copied"} \union OverlayPlaces

FunctionOwnsPlace ==
  /\ call.at = "none" => call.fn = "none"
  /\ call.at \in ZeroPlaces => call.fn = "zero"
  /\ call.at \in SixPlaces => call.fn = "six"
  /\ call.at \in RetracePlaces => call.fn = "thirteen"
  /\ call.at = "local_state" => call.fn = "thirty_one"

(* The words a place leaves on the stack, over every way to it.            *)
DepthIsOfPlace ==
  /\ call.at \in BeforeDrawing \ {"restore", "mode_byte", "overlay_branch", "copy_return"} =>
       call.popped = 0
  /\ call.at \in ZeroPlaces \ {"planes", "count_pop"} => call.depth = 0
  /\ call.at \in {"planes", "count_pop"} => call.depth = 1
  /\ call.at \in ClipPlaces \union TablePlaces => call.depth = 0
  /\ call.at \in PointerPlaces \union (SetupPlaces \ {"height_word", "final_byte"}) =>
       call.depth = 1
  /\ call.at = "height_word" => call.depth = 2
  /\ call.at = "final_byte" => call.depth = Saved
  /\ call.at \in {"threshold", "helper_return"} => call.depth = Saved + 1
  /\ call.at \in {"table_word", "table_word_two", "bx_pop"} => call.depth = Saved + 2
  /\ call.at = "caller_return" => call.depth = Saved
  /\ call.at = "restore" => call.popped < Saved /\ call.depth = Saved - call.popped
  /\ call.at \in {"mode_byte", "overlay_branch", "copy_return", "overlay_return"} => call.depth = 0
  /\ call.at \in BytePlaces \union {"row_pop"} => call.depth = 1
  /\ call.at = "copied" => call.depth = -1
  /\ call.at = "returned" => call.depth = IF call.fn \in {"zero", "six"} THEN -1 ELSE 0
  /\ call.at \in {"none", "local_state"} \union RetracePlaces => call.depth = 0

(* The planes counted, and the rows and bytes drawn.                       *)
WithinRows == Times(call.count) <= MaxRows
PlanesAreCounted ==
  /\ call.at \in ZeroPlaces \ {"count_pop", "count_store", "near_return"} => call.done = 0
  /\ call.at \in {"stack_prefix", "planes"} => call.count \in 0..EgaPlanes
  /\ (call.at \in {"count_pop", "count_store", "near_return"}
        \/ (call.at = "returned" /\ call.fn = "zero")) =>
       call.count \in 1..EgaPlanes /\ call.done = call.count - 1

DrawingIsCounted ==
  /\ call.at \in BeforeDrawing => call.done = 0 /\ call.seen = 0
  /\ call.at = "caller_return" => call.carry
  /\ call.at = "copy_return" => WithinRows
  /\ call.at = "copied" => WithinRows /\ call.done = Times(call.count)
  /\ call.at \in BytePlaces =>
       /\ WithinRows /\ call.done < Times(call.count)
       /\ call.left >= 1 /\ call.seen + call.left <= MaxBytes
  /\ call.at = "row_pop" =>
       WithinRows /\ call.done < Times(call.count) /\ call.seen \in 1..MaxBytes
  /\ call.at = "overlay_return" =>
       WithinRows /\ call.done = Times(call.count) /\ call.seen \in 1..MaxBytes
  /\ call.at = "returned" /\ call.fn = "six" =>
       \/ (call.carry /\ call.done = 0)
       \/ WithinRows /\ call.done = Times(call.count) /\ call.seen \in 1..MaxBytes

CallInv ==
  CallShape /\ FunctionOwnsPlace /\ DepthIsOfPlace /\ PlanesAreCounted /\ DrawingIsCounted

VideoInv == CallbackInv /\ CallInv

(* What the counting steps do to the call, case by case.                   *)
LEMMA CountsGoRound ==
  /\ \A n \in DriverWord : Times(n) \in Nat \ {0}
  /\ \A n \in 0..EgaPlanes : n \in DriverWord /\ (InWord(n - 1) = 0 <=> n = 1)
  /\ \A n \in 0..EgaPlanes : InWord(n - 1) \in 1..(EgaPlanes - 1) => n \in 2..EgaPlanes
  /\ MaxRows \in Nat /\ MaxBytes \in Nat
  BY BytesAreWords, DrawingAssumption, SMT DEF Times, InWord, EgaPlanes, DriverWord

LEMMA SuccessEffect ==
  SuccessPostlude =>
    /\ call.at = "mode_match" /\ screen' = screen
    /\ \E n \in 0..EgaPlanes :
         /\ n \in DriverWord
         /\ \/ call' = [call EXCEPT !.at = "stack_prefix", !.count = n]
            \/ call' = [call EXCEPT !.at = "single_count"]
            \/ call' = [call EXCEPT !.at = "int92"]
  <1>1. \A n \in DriverWord : AtMost(n, EgaPlanes) \in 0..EgaPlanes
    BY BytesAreWords DEF AtMost, EgaPlanes
  <1>2. ASSUME SuccessPostlude, NEW cx \in DriverWord,
               CallMoves([call EXCEPT !.at = "stack_prefix", !.count = AtMost(cx, EgaPlanes)])
        PROVE  /\ screen' = screen
               /\ \E n \in 0..EgaPlanes :
                    n \in DriverWord /\ call' = [call EXCEPT !.at = "stack_prefix", !.count = n]
    BY <1>1, <1>2, CountsGoRound DEF CallMoves
  <1>3. 0 \in 0..EgaPlanes /\ 0 \in DriverWord  BY CountsGoRound DEF EgaPlanes
  <1> QED
    BY <1>2, <1>3 DEF SuccessPostlude, CallAt, CallOnward, CallMoves

LEMMA StackPrefixEffect ==
  CallShape /\ PlanesAreCounted /\ StackPrefix =>
    /\ call.at = "stack_prefix" /\ screen' = screen
    /\ \/ call.count = 1 /\ call' = [call EXCEPT !.at = "count_pop", !.depth = call.depth + 1]
       \/ call' = [call EXCEPT !.at = "planes", !.depth = call.depth + 1]
  BY CountsGoRound
  DEF PlanesAreCounted, StackPrefix, CallAt, Above, CallMoves

LEMMA PlaneLoopEffect ==
  PlanesAreCounted /\ PlaneLoop =>
    /\ call.at = "planes" /\ screen' = screen
    /\ call.count \in 2..EgaPlanes
    /\ call' = [call EXCEPT !.at = "count_pop", !.done = call.count - 1]
  BY CountsGoRound DEF PlanesAreCounted, PlaneLoop, CallAt, CallMoves

LEMMA RestoreEffect ==
  CallShape /\ DepthIsOfPlace /\ Restore =>
    /\ call.at = "restore" /\ screen' = screen
    /\ \/ /\ call.popped + 1 < Saved
          /\ call' = [call EXCEPT !.popped = call.popped + 1, !.depth = call.depth - 1]
       \/ /\ call.popped + 1 = Saved
          /\ \E bp, ax \in DriverWord :
               call' = [call EXCEPT !.popped = Saved, !.depth = call.depth - 1,
                                    !.at = "mode_byte", !.count = bp, !.ax = ax]
  <1> SUFFICES ASSUME CallShape, DepthIsOfPlace, Restore PROVE RestoreEffect!2
    OBVIOUS
  <1> DEFINE popped == [call EXCEPT !.popped = call.popped + 1, !.depth = call.depth - 1]
  <1>0. call.at = "restore" /\ call.popped < Saved  BY DEF Restore, CallAt, DepthIsOfPlace
  <1>1. call.at = "restore" /\ call.popped \in 0..(Saved - 1)
    BY <1>0, SMT DEF CallShape, Saved
  <1>2. popped.popped = call.popped + 1
    BY DEF CallShape
  <1>3. CASE call.popped + 1 < Saved
    BY <1>1, <1>2, <1>3 DEF Restore, CallMoves
  <1>4. CASE ~(call.popped + 1 < Saved)
    <2>1. call.popped + 1 = Saved  BY <1>1, <1>4 DEF Saved
    <2>2. PICK bp \in DriverWord, ax \in DriverWord :
            CallMoves([popped EXCEPT !.at = "mode_byte", !.count = bp, !.ax = ax])
      BY <1>2, <1>4 DEF Restore
    <2>3. [popped EXCEPT !.at = "mode_byte", !.count = bp, !.ax = ax]
            = [call EXCEPT !.popped = Saved, !.depth = call.depth - 1,
                           !.at = "mode_byte", !.count = bp, !.ax = ax]
      BY <2>1 DEF CallShape
    <2> QED  BY <1>1, <2>1, <2>2, <2>3 DEF CallMoves
  <1> QED  BY <1>3, <1>4

LEMMA BeginEffect ==
  CallShape /\ BeginOverlay =>
    /\ call.at = "overlay_branch" /\ WithinRows /\ screen' = screen
    /\ \E n \in Nat \ {0} :
         /\ n <= MaxBytes - call.seen
         /\ call' = [call EXCEPT !.at = "row_push", !.depth = call.depth + 1, !.ax = call.ax,
                                 !.left = n]
  BY CountsGoRound
  DEF CallShape, BeginOverlay, PrepareRow, Fits, WithinRows, CallAt, CallMoves

LEMMA ByteEffect ==
  OverlayByte =>
    /\ call.at \in BytePlaces /\ screen' = screen
    /\ \/ call.at # "destination_write" /\ \E p \in BytePlaces : call' = [call EXCEPT !.at = p]
       \/ /\ call.left - 1 = 0
          /\ call' = [call EXCEPT !.left = 0, !.seen = call.seen + 1, !.at = "row_pop"]
       \/ /\ call.left - 1 # 0
          /\ call' = [call EXCEPT !.left = call.left - 1, !.seen = call.seen + 1,
                                  !.at = "source_read"]
  BY DEF OverlayByte, BytePlaces, CallAt, CallOnward, CallMoves

LEMMA RowPopEffect ==
  CallShape /\ RowPop =>
    /\ call.at = "row_pop" /\ screen' = screen
    /\ \/ /\ call.done + 1 = Times(call.count)
          /\ call' = [call EXCEPT !.done = call.done + 1, !.depth = call.depth - 1,
                                  !.at = "overlay_return", !.ax = 0]
       \/ /\ call.done + 1 # Times(call.count)
          /\ \E width \in DriverWord, n \in Nat \ {0} :
               /\ n <= MaxBytes - call.seen
               /\ call' = [call EXCEPT !.done = call.done + 1, !.depth = call.depth,
                                       !.at = "row_push", !.ax = width, !.left = n]
       \/ /\ call.done + 1 # Times(call.count)
          /\ \E width \in DriverWord :
               call' = [call EXCEPT !.done = call.done + 1, !.depth = call.depth, !.ax = width]
  <1> SUFFICES ASSUME CallShape, RowPop PROVE RowPopEffect!2
    OBVIOUS
  <1> DEFINE counted == [call EXCEPT !.done = call.done + 1, !.depth = call.depth - 1]
  <1>1. /\ counted.done = call.done + 1 /\ counted.count = call.count /\ counted.seen = call.seen
        /\ counted.depth = call.depth - 1 /\ counted.depth + 1 = call.depth
    BY DEF CallShape
  <1>2. PICK width \in DriverWord :
          /\ call.at = "row_pop"
          /\ IF counted.done = Times(call.count)
             THEN CallMoves([counted EXCEPT !.at = "overlay_return", !.ax = 0])
             ELSE IF Fits(width) THEN CallMoves(PrepareRow(counted, width))
             ELSE CallMoves([counted EXCEPT !.depth = counted.depth + 1, !.ax = width])
    BY DEF RowPop, CallAt
  <1>3. CASE counted.done = Times(call.count)
    BY <1>1, <1>2, <1>3 DEF CallMoves
  <1>4. CASE counted.done # Times(call.count) /\ Fits(width)
    <2>1. CallMoves(PrepareRow(counted, width))  BY <1>2, <1>4
    <2>2. PrepareRow(counted, width)
            = [call EXCEPT !.done = call.done + 1, !.depth = call.depth,
                           !.at = "row_push", !.ax = width, !.left = Times(width)]
      BY <1>1 DEF PrepareRow, CallShape
    <2>3. Times(width) \in Nat \ {0} /\ Times(width) <= MaxBytes - call.seen
      BY <1>4, CountsGoRound DEF Fits
    <2> QED  BY <1>1, <1>2, <1>4, <2>1, <2>2, <2>3 DEF CallMoves
  <1>5. CASE counted.done # Times(call.count) /\ ~Fits(width)
    <2>1. CallMoves([counted EXCEPT !.depth = counted.depth + 1, !.ax = width])  BY <1>2, <1>5
    <2>2. [counted EXCEPT !.depth = counted.depth + 1, !.ax = width]
            = [call EXCEPT !.done = call.done + 1, !.depth = call.depth, !.ax = width]
      BY <1>1 DEF CallShape
    <2> QED  BY <1>1, <1>2, <1>5, <2>1, <2>2 DEF CallMoves
  <1> QED  BY <1>3, <1>4, <1>5

(* The sums a step makes of the stack, of the rows and of the bytes.       *)
LEMMA DepthSums ==
  CallShape /\ DepthIsOfPlace =>
    /\ call.at \in {"table_byte", "stack_prefix", "overlay_branch"} => call.depth + 1 = 1
    /\ call.at = "width_word" => call.depth + 1 = 2
    /\ call.at = "height_word" => call.depth + 3 = Saved
    /\ call.at = "final_byte" => call.depth + 1 = Saved + 1
    /\ call.at = "threshold" => call.depth + 1 = Saved + 2
    /\ call.at = "bx_pop" => call.depth + (-1) = Saved + 1
    /\ call.at = "helper_return" => call.depth + (-1) = Saved /\ Saved - 0 = Saved /\ 0 < Saved
    /\ call.at = "caller_return" => call.depth + (-(Saved + 1)) = -1
    /\ call.at = "restore" => call.depth - 1 = Saved - (call.popped + 1)
    /\ call.at = "count_pop" => call.depth + (-1) = 0
    /\ call.at \in {"near_return", "overlay_return"} => call.depth + (-1) = -1
    /\ call.at = "copy_return" => call.depth - 1 = -1
    /\ call.at = "row_pop" => call.depth = 1 /\ call.depth - 1 = 0
  BY SMTT(60)
  DEF CallShape, DepthIsOfPlace, Saved, ClipPlaces, TablePlaces, PointerPlaces, SetupPlaces,
      ZeroPlaces, BytePlaces

LEMMA CallSums ==
  CallShape =>
    /\ {call.depth + 1, call.depth + 3, call.depth + (-1), call.depth - 1,
        call.depth + (-(Saved + 1))} \subseteq Int
    /\ {call.done + 1, call.seen + 1, 0} \subseteq Nat
    /\ call.count \in 2..EgaPlanes => call.count - 1 \in Nat
    /\ call.left - 1 # 0 /\ call.left >= 1 => call.left - 1 \in Nat
    /\ call.popped + 1 < Saved => call.popped + 1 \in 0..Saved
    /\ Saved \in 0..Saved
    /\ \A n \in DriverWord, ax \in DriverWord : Times(n) \in Nat /\ Times(n) * RowBytes(ax) \in Nat
  <1>1. \A n \in DriverWord : Times(n) \in Nat
    BY CountsGoRound
  <1>2. \A ax \in DriverWord : RowBytes(ax) \in Nat
    BY BytesAreWords, WordsGoRound, SMTT(60) DEF RowBytes, DriverWord
  <1>3. \A a, b \in Nat : a * b \in Nat
    OBVIOUS
  <1> QED  BY <1>1, <1>2, <1>3, SMT DEF CallShape, Saved, EgaPlanes

LEMMA RowSums ==
  CallShape =>
    /\ call.done < Times(call.count) /\ call.done + 1 # Times(call.count) =>
         call.done + 1 < Times(call.count)
    /\ \A n \in Nat \ {0} : n <= MaxBytes - call.seen => n >= 1 /\ call.seen + n <= MaxBytes
    /\ call.seen + call.left <= MaxBytes /\ call.left >= 1 =>
         /\ call.left - 1 = 0 => call.seen + 1 \in 1..MaxBytes
         /\ call.left - 1 # 0 =>
              call.left - 1 >= 1 /\ (call.seen + 1) + (call.left - 1) <= MaxBytes
    /\ \A n \in DriverWord : 0 < Times(n)
  BY CountsGoRound, SMT DEF CallShape

(* Every part of the call's invariant is kept by every step.               *)
LEMMA OwnerStep == CallInv /\ FunctionStep => FunctionOwnsPlace'
  <1> SUFFICES ASSUME CallShape, FunctionOwnsPlace, DepthIsOfPlace, PlanesAreCounted,
                      DrawingIsCounted, FunctionStep
               PROVE  FunctionOwnsPlace'
    BY DEF CallInv
  <1> USE DEF CallShape, FunctionOwnsPlace, PrepareRow, CallAt, CallMoves, CallOnward,
              Above, BeforeDrawing, SixPlaces, RetracePlaces, ZeroPlaces, ClipPlaces,
              TablePlaces, PointerPlaces, SetupPlaces, HelperPlaces, CallerPlaces,
              BytePlaces, OverlayPlaces
  <1>1. CASE RetracePoll
    <2>1. CASE CallAt("poll_clear")  BY <1>1, <2>1 DEF RetracePoll
    <2>2. CASE CallAt("poll_set")  BY <1>1, <2>2 DEF RetracePoll
    <2> QED
      BY <1>1, <2>1, <2>2 DEF RetracePoll
  <1>2. CASE LocalState  BY <1>2 DEF LocalState
  <1>3. CASE ModeAnswer
    <2>1. CASE CallAt("mode_query")  BY <1>3, <2>1 DEF ModeAnswer
    <2>2. CASE CallAt("set_mode")  BY <1>3, <2>2 DEF ModeAnswer
    <2>3. CASE CallAt("verify_mode")  BY <1>3, <2>3 DEF ModeAnswer
    <2> QED
      BY <1>3, <2>1, <2>2, <2>3 DEF ModeAnswer
  <1>4. CASE SuccessPostlude
    <2>1. call.at = "mode_match" /\ screen' = screen  BY <1>4, SuccessEffect
    <2>2. ASSUME NEW n \in 0..EgaPlanes, n \in DriverWord,
                 call' = [call EXCEPT !.at = "stack_prefix", !.count = n]
          PROVE  FunctionOwnsPlace'
      BY <2>1, <2>2
    <2>3. CASE call' = [call EXCEPT !.at = "single_count"]
      BY <2>1, <2>3
    <2>4. CASE call' = [call EXCEPT !.at = "int92"]
      BY <2>1, <2>4
    <2> QED  BY <1>4, SuccessEffect, <2>1, <2>2, <2>3, <2>4
  <1>5. CASE StackPrefix  BY <1>5 DEF StackPrefix
  <1>6. CASE PlaneLoop  BY <1>6 DEF PlaneLoop
  <1>7. CASE CountPop  BY <1>7 DEF CountPop
  <1>8. CASE CountStore  BY <1>8 DEF CountStore
  <1>9. CASE NearReturn  BY <1>9 DEF NearReturn
  <1>10. CASE Clip
    <2>1. CASE CallAt("width")  BY <1>10, <2>1 DEF Clip
    <2>2. CASE CallAt("limit")  BY <1>10, <2>2 DEF Clip
    <2>3. CASE CallAt("unsigned_width")  BY <1>10, <2>3 DEF Clip
    <2>4. CASE CallAt("signed_width")  BY <1>10, <2>4 DEF Clip
    <2> QED
      BY <1>10, <2>1, <2>2, <2>3, <2>4 DEF Clip
  <1>11. CASE Table
    <2>1. CASE CallAt("descriptor_byte")  BY <1>11, <2>1 DEF Table
    <2>2. CASE CallAt("table_byte")  BY <1>11, <2>2 DEF Table
    <2> QED
      BY <1>11, <2>1, <2>2 DEF Table
  <1>12. CASE PointerSetup
    <2>1. CASE CallAt("descriptor_offset")  BY <1>12, <2>1 DEF PointerSetup
    <2>2. CASE CallAt("descriptor_segment")  BY <1>12, <2>2 DEF PointerSetup
    <2>3. CASE CallAt("header")  BY <1>12, <2>3 DEF PointerSetup
    <2>4. CASE CallAt("nested_offset")  BY <1>12, <2>4 DEF PointerSetup
    <2>5. CASE CallAt("nested_segment")  BY <1>12, <2>5 DEF PointerSetup
    <2>6. CASE CallAt("segment_pop")  BY <1>12, <2>6 DEF PointerSetup
    <2> QED
      BY <1>12, <2>1, <2>2, <2>3, <2>4, <2>5, <2>6 DEF PointerSetup
  <1>13. CASE RegisterSetup
    <2>1. CASE CallAt("multiply")  BY <1>13, <2>1 DEF RegisterSetup
    <2>2. CASE CallAt("addend")  BY <1>13, <2>2 DEF RegisterSetup
    <2>3. CASE CallAt("ah_byte")  BY <1>13, <2>3 DEF RegisterSetup
    <2>4. CASE CallAt("position")  BY <1>13, <2>4 DEF RegisterSetup
    <2>5. CASE CallAt("width_word")  BY <1>13, <2>5 DEF RegisterSetup
    <2>6. CASE CallAt("height_word")  BY <1>13, <2>6 DEF RegisterSetup
    <2>7. CASE CallAt("final_byte")  BY <1>13, <2>7 DEF RegisterSetup
    <2> QED
      BY <1>13, <2>1, <2>2, <2>3, <2>4, <2>5, <2>6, <2>7 DEF RegisterSetup
  <1>14. CASE Helper
    <2>1. CASE CallAt("threshold")  BY <1>14, <2>1 DEF Helper
    <2>2. CASE CallAt("table_word")  BY <1>14, <2>2 DEF Helper
    <2>3. CASE CallAt("table_word_two")  BY <1>14, <2>3 DEF Helper
    <2>4. CASE CallAt("bx_pop")  BY <1>14, <2>4 DEF Helper
    <2>5. CASE CallAt("helper_return")  BY <1>14, <2>5 DEF Helper
    <2> QED
      BY <1>14, <2>1, <2>2, <2>3, <2>4, <2>5 DEF Helper
  <1>15. CASE CallerReturn  BY <1>15 DEF CallerReturn
  <1>16. CASE Restore  BY <1>16 DEF Restore
  <1>17. CASE ModeByte  BY <1>17 DEF ModeByte
  <1>18. CASE CopyReturn  BY <1>18 DEF CopyReturn
  <1>19. CASE CopyMemory  BY <1>19 DEF CopyMemory
  <1>20. CASE BeginOverlay  BY <1>20 DEF BeginOverlay
  <1>21. CASE OverlayByte  BY <1>21 DEF OverlayByte
  <1>22. CASE RowPop  BY <1>22 DEF RowPop
  <1>23. CASE OverlayReturn  BY <1>23 DEF OverlayReturn
  <1> QED
    BY <1>1, <1>2, <1>3, <1>4, <1>5, <1>6, <1>7, <1>8, <1>9, <1>10, <1>11, <1>12, <1>13,
       <1>14, <1>15, <1>16, <1>17, <1>18, <1>19, <1>20, <1>21, <1>22, <1>23 DEF
       FunctionStep, ZeroStep, SixStep, OverlayStep

LEMMA DepthStep == CallInv /\ FunctionStep => DepthIsOfPlace'
  <1> SUFFICES ASSUME CallShape, FunctionOwnsPlace, DepthIsOfPlace, PlanesAreCounted,
                      DrawingIsCounted, FunctionStep
               PROVE  DepthIsOfPlace'
    BY DEF CallInv
  <1>0. DepthSums!2
    BY DepthSums
  <1> USE DEF CallShape, FunctionOwnsPlace, DepthIsOfPlace, CallAt, CallMoves,
              CallOnward, Above, BeforeDrawing, SixPlaces, RetracePlaces, ZeroPlaces,
              ClipPlaces, TablePlaces, PointerPlaces, SetupPlaces, HelperPlaces,
              CallerPlaces, BytePlaces, OverlayPlaces
  <1>1. CASE RetracePoll
    <2>1. CASE CallAt("poll_clear")  BY <1>1, <1>0, <2>1 DEF RetracePoll
    <2>2. CASE CallAt("poll_set")  BY <1>1, <1>0, <2>2 DEF RetracePoll
    <2> QED
      BY <1>1, <1>0, <2>1, <2>2 DEF RetracePoll
  <1>2. CASE LocalState  BY <1>2, <1>0 DEF LocalState
  <1>3. CASE ModeAnswer
    <2>1. CASE CallAt("mode_query")  BY <1>3, <1>0, <2>1 DEF ModeAnswer
    <2>2. CASE CallAt("set_mode")  BY <1>3, <1>0, <2>2 DEF ModeAnswer
    <2>3. CASE CallAt("verify_mode")  BY <1>3, <1>0, <2>3 DEF ModeAnswer
    <2> QED
      BY <1>3, <1>0, <2>1, <2>2, <2>3 DEF ModeAnswer
  <1>4. CASE SuccessPostlude
    <2>1. call.at = "mode_match" /\ screen' = screen  BY <1>4, <1>0, SuccessEffect
    <2>2. ASSUME NEW n \in 0..EgaPlanes, n \in DriverWord,
                 call' = [call EXCEPT !.at = "stack_prefix", !.count = n]
          PROVE  DepthIsOfPlace'
      BY <1>0, <2>1, <2>2
    <2>3. CASE call' = [call EXCEPT !.at = "single_count"]
      BY <1>0, <2>1, <2>3
    <2>4. CASE call' = [call EXCEPT !.at = "int92"]
      BY <1>0, <2>1, <2>4
    <2> QED  BY <1>4, <1>0, SuccessEffect, <2>1, <2>2, <2>3, <2>4
  <1>5. CASE StackPrefix
    <2>1. call.at = "stack_prefix" /\ screen' = screen  BY <1>5, <1>0, StackPrefixEffect
    <2>2. CASE call.count = 1 /\ call' = [call EXCEPT !.at = "count_pop", !.depth = call.depth + 1]
      BY <1>0, <2>1, <2>2
    <2>3. CASE call' = [call EXCEPT !.at = "planes", !.depth = call.depth + 1]
      BY <1>0, <2>1, <2>3
    <2> QED  BY <1>5, <1>0, StackPrefixEffect, <2>1, <2>2, <2>3
  <1>6. CASE PlaneLoop
    <2>1. call.at = "planes" /\ screen' = screen  BY <1>6, <1>0, PlaneLoopEffect
    <2>2. CASE call.count \in 2..EgaPlanes
            /\ call' = [call EXCEPT !.at = "count_pop", !.done = call.count - 1]
      BY <1>0, <2>1, <2>2
    <2> QED  BY <1>6, <1>0, PlaneLoopEffect, <2>1, <2>2
  <1>7. CASE CountPop  BY <1>7, <1>0 DEF CountPop
  <1>8. CASE CountStore  BY <1>8, <1>0 DEF CountStore
  <1>9. CASE NearReturn  BY <1>9, <1>0 DEF NearReturn
  <1>10. CASE Clip
    <2>1. CASE CallAt("width")  BY <1>10, <1>0, <2>1 DEF Clip
    <2>2. CASE CallAt("limit")  BY <1>10, <1>0, <2>2 DEF Clip
    <2>3. CASE CallAt("unsigned_width")  BY <1>10, <1>0, <2>3 DEF Clip
    <2>4. CASE CallAt("signed_width")  BY <1>10, <1>0, <2>4 DEF Clip
    <2> QED
      BY <1>10, <1>0, <2>1, <2>2, <2>3, <2>4 DEF Clip
  <1>11. CASE Table
    <2>1. CASE CallAt("descriptor_byte")  BY <1>11, <1>0, <2>1 DEF Table
    <2>2. CASE CallAt("table_byte")  BY <1>11, <1>0, <2>2 DEF Table
    <2> QED
      BY <1>11, <1>0, <2>1, <2>2 DEF Table
  <1>12. CASE PointerSetup
    <2>1. CASE CallAt("descriptor_offset")  BY <1>12, <1>0, <2>1 DEF PointerSetup
    <2>2. CASE CallAt("descriptor_segment")  BY <1>12, <1>0, <2>2 DEF PointerSetup
    <2>3. CASE CallAt("header")  BY <1>12, <1>0, <2>3 DEF PointerSetup
    <2>4. CASE CallAt("nested_offset")  BY <1>12, <1>0, <2>4 DEF PointerSetup
    <2>5. CASE CallAt("nested_segment")  BY <1>12, <1>0, <2>5 DEF PointerSetup
    <2>6. CASE CallAt("segment_pop")  BY <1>12, <1>0, <2>6 DEF PointerSetup
    <2> QED
      BY <1>12, <1>0, <2>1, <2>2, <2>3, <2>4, <2>5, <2>6 DEF PointerSetup
  <1>13. CASE RegisterSetup
    <2>1. CASE CallAt("multiply")  BY <1>13, <1>0, <2>1 DEF RegisterSetup
    <2>2. CASE CallAt("addend")  BY <1>13, <1>0, <2>2 DEF RegisterSetup
    <2>3. CASE CallAt("ah_byte")  BY <1>13, <1>0, <2>3 DEF RegisterSetup
    <2>4. CASE CallAt("position")  BY <1>13, <1>0, <2>4 DEF RegisterSetup
    <2>5. CASE CallAt("width_word")  BY <1>13, <1>0, <2>5 DEF RegisterSetup
    <2>6. CASE CallAt("height_word")  BY <1>13, <1>0, <2>6 DEF RegisterSetup
    <2>7. CASE CallAt("final_byte")  BY <1>13, <1>0, <2>7 DEF RegisterSetup
    <2> QED
      BY <1>13, <1>0, <2>1, <2>2, <2>3, <2>4, <2>5, <2>6, <2>7 DEF RegisterSetup
  <1>14. CASE Helper
    <2>1. CASE CallAt("threshold")  BY <1>14, <1>0, <2>1 DEF Helper
    <2>2. CASE CallAt("table_word")  BY <1>14, <1>0, <2>2 DEF Helper
    <2>3. CASE CallAt("table_word_two")  BY <1>14, <1>0, <2>3 DEF Helper
    <2>4. CASE CallAt("bx_pop")  BY <1>14, <1>0, <2>4 DEF Helper
    <2>5. CASE CallAt("helper_return")
      <3>1. CASE call' = [call EXCEPT !.at = "caller_return", !.depth = call.depth + (-1)]
        BY <1>0, <2>5, <3>1
      <3>2. CASE call' = [call EXCEPT !.at = "restore", !.depth = call.depth + (-1)]
        BY <1>0, <2>5, <3>2
      <3> QED  BY <1>14, <2>5, <3>1, <3>2 DEF Helper
    <2> QED
      BY <1>14, <1>0, <2>1, <2>2, <2>3, <2>4, <2>5 DEF Helper
  <1>15. CASE CallerReturn  BY <1>15, <1>0 DEF CallerReturn
  <1>16. CASE Restore
    <2>1. call.at = "restore" /\ screen' = screen  BY <1>16, <1>0, RestoreEffect
    <2>2. CASE call.popped + 1 < Saved
            /\ call' = [call EXCEPT !.popped = call.popped + 1, !.depth = call.depth - 1]
      BY <1>0, <2>1, <2>2
    <2>3. ASSUME NEW bp \in DriverWord, NEW ax \in DriverWord, call.popped + 1 = Saved,
                 call' = [call EXCEPT !.popped = Saved, !.depth = call.depth - 1,
                                      !.at = "mode_byte", !.count = bp, !.ax = ax]
          PROVE  DepthIsOfPlace'
      BY <1>0, <2>1, <2>3
    <2> QED  BY <1>16, <1>0, RestoreEffect, <2>1, <2>2, <2>3
  <1>17. CASE ModeByte  BY <1>17, <1>0 DEF ModeByte
  <1>18. CASE CopyReturn  BY <1>18, <1>0 DEF CopyReturn
  <1>19. CASE CopyMemory  BY <1>19, <1>0 DEF CopyMemory
  <1>20. CASE BeginOverlay
    <2>1. call.at = "overlay_branch" /\ screen' = screen  BY <1>20, <1>0, BeginEffect
    <2>2. ASSUME WithinRows, NEW n \in Nat \ {0}, n <= MaxBytes - call.seen,
                 call' = [call EXCEPT !.at = "row_push", !.depth = call.depth + 1,
                                      !.ax = call.ax, !.left = n]
          PROVE  DepthIsOfPlace'
      BY <1>0, <2>1, <2>2
    <2> QED  BY <1>20, <1>0, BeginEffect, <2>1, <2>2
  <1>21. CASE OverlayByte
    <2>1. call.at \in BytePlaces /\ screen' = screen  BY <1>21, <1>0, ByteEffect
    <2>2. ASSUME NEW p \in BytePlaces,
                 call' = [call EXCEPT !.at = p]
          PROVE  DepthIsOfPlace'
      BY <1>0, <2>1, <2>2
    <2>3. CASE call.left - 1 = 0
            /\ call' = [call EXCEPT !.left = 0, !.seen = call.seen + 1, !.at = "row_pop"]
      BY <1>0, <2>1, <2>3
    <2>4. CASE call.left - 1 # 0
            /\ call' = [call EXCEPT !.left = call.left - 1, !.seen = call.seen + 1,
                                    !.at = "source_read"]
      BY <1>0, <2>1, <2>4
    <2> QED  BY <1>21, <1>0, ByteEffect, <2>1, <2>2, <2>3, <2>4
  <1>22. CASE RowPop
    <2>1. call.at = "row_pop" /\ screen' = screen  BY <1>22, <1>0, RowPopEffect
    <2>2. CASE call.done + 1 = Times(call.count)
            /\ call' = [call EXCEPT !.done = call.done + 1, !.depth = call.depth - 1,
                                    !.at = "overlay_return", !.ax = 0]
      BY <1>0, <2>1, <2>2
    <2>3. ASSUME NEW w \in DriverWord, NEW n \in Nat \ {0}, n <= MaxBytes - call.seen,
                 call.done + 1 # Times(call.count),
                 call' = [call EXCEPT !.done = call.done + 1, !.depth = call.depth,
                                      !.at = "row_push", !.ax = w, !.left = n]
          PROVE  DepthIsOfPlace'
      BY <1>0, <2>1, <2>3
    <2>4. ASSUME NEW w \in DriverWord, call.done + 1 # Times(call.count),
                 call' = [call EXCEPT !.done = call.done + 1, !.depth = call.depth, !.ax = w]
          PROVE  DepthIsOfPlace'
      BY <1>0, <2>1, <2>4
    <2> QED  BY <1>22, <1>0, RowPopEffect, <2>1, <2>2, <2>3, <2>4
  <1>23. CASE OverlayReturn  BY <1>23, <1>0 DEF OverlayReturn
  <1> QED
    BY <1>1, <1>0, <1>2, <1>3, <1>4, <1>5, <1>6, <1>7, <1>8, <1>9, <1>10, <1>11, <1>12, <1>13,
       <1>14, <1>15, <1>16, <1>17, <1>18, <1>19, <1>20, <1>21, <1>22, <1>23 DEF
       FunctionStep, ZeroStep, SixStep, OverlayStep

LEMMA PlanesStep == CallInv /\ FunctionStep => PlanesAreCounted'
  <1> SUFFICES ASSUME CallShape, FunctionOwnsPlace, DepthIsOfPlace, PlanesAreCounted,
                      DrawingIsCounted, FunctionStep
               PROVE  PlanesAreCounted'
    BY DEF CallInv
  <1> USE DEF CallShape, FunctionOwnsPlace, PlanesAreCounted, EgaPlanes, PrepareRow,
              CallAt, CallMoves, CallOnward, Above, BeforeDrawing, SixPlaces,
              RetracePlaces, ZeroPlaces, ClipPlaces, TablePlaces, PointerPlaces,
              SetupPlaces, HelperPlaces, CallerPlaces, BytePlaces, OverlayPlaces
  <1>1. CASE RetracePoll
    <2>1. CASE CallAt("poll_clear")  BY <1>1, <2>1 DEF RetracePoll
    <2>2. CASE CallAt("poll_set")  BY <1>1, <2>2 DEF RetracePoll
    <2> QED
      BY <1>1, <2>1, <2>2 DEF RetracePoll
  <1>2. CASE LocalState  BY <1>2 DEF LocalState
  <1>3. CASE ModeAnswer
    <2>1. CASE CallAt("mode_query")  BY <1>3, <2>1 DEF ModeAnswer
    <2>2. CASE CallAt("set_mode")  BY <1>3, <2>2 DEF ModeAnswer
    <2>3. CASE CallAt("verify_mode")  BY <1>3, <2>3 DEF ModeAnswer
    <2> QED
      BY <1>3, <2>1, <2>2, <2>3 DEF ModeAnswer
  <1>4. CASE SuccessPostlude
    <2>1. call.at = "mode_match" /\ screen' = screen  BY <1>4, SuccessEffect
    <2>2. ASSUME NEW n \in 0..EgaPlanes, n \in DriverWord,
                 call' = [call EXCEPT !.at = "stack_prefix", !.count = n]
          PROVE  PlanesAreCounted'
      BY <2>1, <2>2
    <2>3. CASE call' = [call EXCEPT !.at = "single_count"]
      BY <2>1, <2>3
    <2>4. CASE call' = [call EXCEPT !.at = "int92"]
      BY <2>1, <2>4
    <2> QED  BY <1>4, SuccessEffect, <2>1, <2>2, <2>3, <2>4
  <1>5. CASE StackPrefix
    <2>1. call.at = "stack_prefix" /\ screen' = screen  BY <1>5, StackPrefixEffect
    <2>2. CASE call.count = 1 /\ call' = [call EXCEPT !.at = "count_pop", !.depth = call.depth + 1]
      BY <2>1, <2>2
    <2>3. CASE call' = [call EXCEPT !.at = "planes", !.depth = call.depth + 1]
      BY <2>1, <2>3
    <2> QED  BY <1>5, StackPrefixEffect, <2>1, <2>2, <2>3
  <1>6. CASE PlaneLoop
    <2>1. call.at = "planes" /\ screen' = screen  BY <1>6, PlaneLoopEffect
    <2>2. CASE call.count \in 2..EgaPlanes
            /\ call' = [call EXCEPT !.at = "count_pop", !.done = call.count - 1]
      BY <2>1, <2>2
    <2> QED  BY <1>6, PlaneLoopEffect, <2>1, <2>2
  <1>7. CASE CountPop  BY <1>7 DEF CountPop
  <1>8. CASE CountStore  BY <1>8 DEF CountStore
  <1>9. CASE NearReturn  BY <1>9 DEF NearReturn
  <1>10. CASE Clip
    <2>1. CASE CallAt("width")  BY <1>10, <2>1 DEF Clip
    <2>2. CASE CallAt("limit")  BY <1>10, <2>2 DEF Clip
    <2>3. CASE CallAt("unsigned_width")  BY <1>10, <2>3 DEF Clip
    <2>4. CASE CallAt("signed_width")  BY <1>10, <2>4 DEF Clip
    <2> QED
      BY <1>10, <2>1, <2>2, <2>3, <2>4 DEF Clip
  <1>11. CASE Table
    <2>1. CASE CallAt("descriptor_byte")  BY <1>11, <2>1 DEF Table
    <2>2. CASE CallAt("table_byte")  BY <1>11, <2>2 DEF Table
    <2> QED
      BY <1>11, <2>1, <2>2 DEF Table
  <1>12. CASE PointerSetup
    <2>1. CASE CallAt("descriptor_offset")  BY <1>12, <2>1 DEF PointerSetup
    <2>2. CASE CallAt("descriptor_segment")  BY <1>12, <2>2 DEF PointerSetup
    <2>3. CASE CallAt("header")  BY <1>12, <2>3 DEF PointerSetup
    <2>4. CASE CallAt("nested_offset")  BY <1>12, <2>4 DEF PointerSetup
    <2>5. CASE CallAt("nested_segment")  BY <1>12, <2>5 DEF PointerSetup
    <2>6. CASE CallAt("segment_pop")  BY <1>12, <2>6 DEF PointerSetup
    <2> QED
      BY <1>12, <2>1, <2>2, <2>3, <2>4, <2>5, <2>6 DEF PointerSetup
  <1>13. CASE RegisterSetup
    <2>1. CASE CallAt("multiply")  BY <1>13, <2>1 DEF RegisterSetup
    <2>2. CASE CallAt("addend")  BY <1>13, <2>2 DEF RegisterSetup
    <2>3. CASE CallAt("ah_byte")  BY <1>13, <2>3 DEF RegisterSetup
    <2>4. CASE CallAt("position")  BY <1>13, <2>4 DEF RegisterSetup
    <2>5. CASE CallAt("width_word")  BY <1>13, <2>5 DEF RegisterSetup
    <2>6. CASE CallAt("height_word")  BY <1>13, <2>6 DEF RegisterSetup
    <2>7. CASE CallAt("final_byte")  BY <1>13, <2>7 DEF RegisterSetup
    <2> QED
      BY <1>13, <2>1, <2>2, <2>3, <2>4, <2>5, <2>6, <2>7 DEF RegisterSetup
  <1>14. CASE Helper
    <2>1. CASE CallAt("threshold")  BY <1>14, <2>1 DEF Helper
    <2>2. CASE CallAt("table_word")  BY <1>14, <2>2 DEF Helper
    <2>3. CASE CallAt("table_word_two")  BY <1>14, <2>3 DEF Helper
    <2>4. CASE CallAt("bx_pop")  BY <1>14, <2>4 DEF Helper
    <2>5. CASE CallAt("helper_return")  BY <1>14, <2>5 DEF Helper
    <2> QED
      BY <1>14, <2>1, <2>2, <2>3, <2>4, <2>5 DEF Helper
  <1>15. CASE CallerReturn  BY <1>15 DEF CallerReturn
  <1>16. CASE Restore  BY <1>16 DEF Restore
  <1>17. CASE ModeByte  BY <1>17 DEF ModeByte
  <1>18. CASE CopyReturn  BY <1>18 DEF CopyReturn
  <1>19. CASE CopyMemory  BY <1>19 DEF CopyMemory
  <1>20. CASE BeginOverlay  BY <1>20 DEF BeginOverlay
  <1>21. CASE OverlayByte  BY <1>21 DEF OverlayByte
  <1>22. CASE RowPop  BY <1>22 DEF RowPop
  <1>23. CASE OverlayReturn  BY <1>23 DEF OverlayReturn
  <1> QED
    BY <1>1, <1>2, <1>3, <1>4, <1>5, <1>6, <1>7, <1>8, <1>9, <1>10, <1>11, <1>12, <1>13,
       <1>14, <1>15, <1>16, <1>17, <1>18, <1>19, <1>20, <1>21, <1>22, <1>23 DEF
       FunctionStep, ZeroStep, SixStep, OverlayStep

LEMMA DrawingStep == CallInv /\ FunctionStep => DrawingIsCounted'
  <1> SUFFICES ASSUME CallShape, FunctionOwnsPlace, DepthIsOfPlace, PlanesAreCounted,
                      DrawingIsCounted, FunctionStep
               PROVE  DrawingIsCounted'
    BY DEF CallInv
  <1>0. RowSums!2 /\ call.count \in DriverWord
    BY RowSums DEF CallShape
  <1> USE DEF CallShape, FunctionOwnsPlace, DrawingIsCounted, WithinRows, CallAt,
              CallMoves, CallOnward, Above, BeforeDrawing, SixPlaces, RetracePlaces,
              ZeroPlaces, ClipPlaces, TablePlaces, PointerPlaces, SetupPlaces,
              HelperPlaces, CallerPlaces, BytePlaces, OverlayPlaces
  <1>1. CASE RetracePoll
    <2>1. CASE CallAt("poll_clear")  BY <1>1, <1>0, <2>1 DEF RetracePoll
    <2>2. CASE CallAt("poll_set")  BY <1>1, <1>0, <2>2 DEF RetracePoll
    <2> QED
      BY <1>1, <1>0, <2>1, <2>2 DEF RetracePoll
  <1>2. CASE LocalState  BY <1>2, <1>0 DEF LocalState
  <1>3. CASE ModeAnswer
    <2>1. CASE CallAt("mode_query")  BY <1>3, <1>0, <2>1 DEF ModeAnswer
    <2>2. CASE CallAt("set_mode")  BY <1>3, <1>0, <2>2 DEF ModeAnswer
    <2>3. CASE CallAt("verify_mode")  BY <1>3, <1>0, <2>3 DEF ModeAnswer
    <2> QED
      BY <1>3, <1>0, <2>1, <2>2, <2>3 DEF ModeAnswer
  <1>4. CASE SuccessPostlude
    <2>1. call.at = "mode_match" /\ screen' = screen  BY <1>4, <1>0, SuccessEffect
    <2>2. ASSUME NEW n \in 0..EgaPlanes, n \in DriverWord,
                 call' = [call EXCEPT !.at = "stack_prefix", !.count = n]
          PROVE  DrawingIsCounted'
      BY <1>0, <2>1, <2>2
    <2>3. CASE call' = [call EXCEPT !.at = "single_count"]
      BY <1>0, <2>1, <2>3
    <2>4. CASE call' = [call EXCEPT !.at = "int92"]
      BY <1>0, <2>1, <2>4
    <2> QED  BY <1>4, <1>0, SuccessEffect, <2>1, <2>2, <2>3, <2>4
  <1>5. CASE StackPrefix
    <2>1. call.at = "stack_prefix" /\ screen' = screen  BY <1>5, <1>0, StackPrefixEffect
    <2>2. CASE call.count = 1 /\ call' = [call EXCEPT !.at = "count_pop", !.depth = call.depth + 1]
      BY <1>0, <2>1, <2>2
    <2>3. CASE call' = [call EXCEPT !.at = "planes", !.depth = call.depth + 1]
      BY <1>0, <2>1, <2>3
    <2> QED  BY <1>5, <1>0, StackPrefixEffect, <2>1, <2>2, <2>3
  <1>6. CASE PlaneLoop
    <2>1. call.at = "planes" /\ screen' = screen  BY <1>6, <1>0, PlaneLoopEffect
    <2>2. CASE call.count \in 2..EgaPlanes
            /\ call' = [call EXCEPT !.at = "count_pop", !.done = call.count - 1]
      BY <1>0, <2>1, <2>2
    <2> QED  BY <1>6, <1>0, PlaneLoopEffect, <2>1, <2>2
  <1>7. CASE CountPop  BY <1>7, <1>0 DEF CountPop
  <1>8. CASE CountStore  BY <1>8, <1>0 DEF CountStore
  <1>9. CASE NearReturn  BY <1>9, <1>0 DEF NearReturn
  <1>10. CASE Clip
    <2>1. CASE CallAt("width")  BY <1>10, <1>0, <2>1 DEF Clip
    <2>2. CASE CallAt("limit")  BY <1>10, <1>0, <2>2 DEF Clip
    <2>3. CASE CallAt("unsigned_width")  BY <1>10, <1>0, <2>3 DEF Clip
    <2>4. CASE CallAt("signed_width")  BY <1>10, <1>0, <2>4 DEF Clip
    <2> QED
      BY <1>10, <1>0, <2>1, <2>2, <2>3, <2>4 DEF Clip
  <1>11. CASE Table
    <2>1. CASE CallAt("descriptor_byte")  BY <1>11, <1>0, <2>1 DEF Table
    <2>2. CASE CallAt("table_byte")  BY <1>11, <1>0, <2>2 DEF Table
    <2> QED
      BY <1>11, <1>0, <2>1, <2>2 DEF Table
  <1>12. CASE PointerSetup
    <2>1. CASE CallAt("descriptor_offset")  BY <1>12, <1>0, <2>1 DEF PointerSetup
    <2>2. CASE CallAt("descriptor_segment")  BY <1>12, <1>0, <2>2 DEF PointerSetup
    <2>3. CASE CallAt("header")  BY <1>12, <1>0, <2>3 DEF PointerSetup
    <2>4. CASE CallAt("nested_offset")  BY <1>12, <1>0, <2>4 DEF PointerSetup
    <2>5. CASE CallAt("nested_segment")  BY <1>12, <1>0, <2>5 DEF PointerSetup
    <2>6. CASE CallAt("segment_pop")  BY <1>12, <1>0, <2>6 DEF PointerSetup
    <2> QED
      BY <1>12, <1>0, <2>1, <2>2, <2>3, <2>4, <2>5, <2>6 DEF PointerSetup
  <1>13. CASE RegisterSetup
    <2>1. CASE CallAt("multiply")  BY <1>13, <1>0, <2>1 DEF RegisterSetup
    <2>2. CASE CallAt("addend")  BY <1>13, <1>0, <2>2 DEF RegisterSetup
    <2>3. CASE CallAt("ah_byte")  BY <1>13, <1>0, <2>3 DEF RegisterSetup
    <2>4. CASE CallAt("position")  BY <1>13, <1>0, <2>4 DEF RegisterSetup
    <2>5. CASE CallAt("width_word")  BY <1>13, <1>0, <2>5 DEF RegisterSetup
    <2>6. CASE CallAt("height_word")  BY <1>13, <1>0, <2>6 DEF RegisterSetup
    <2>7. CASE CallAt("final_byte")  BY <1>13, <1>0, <2>7 DEF RegisterSetup
    <2> QED
      BY <1>13, <1>0, <2>1, <2>2, <2>3, <2>4, <2>5, <2>6, <2>7 DEF RegisterSetup
  <1>14. CASE Helper
    <2>1. CASE CallAt("threshold")  BY <1>14, <1>0, <2>1 DEF Helper
    <2>2. CASE CallAt("table_word")  BY <1>14, <1>0, <2>2 DEF Helper
    <2>3. CASE CallAt("table_word_two")  BY <1>14, <1>0, <2>3 DEF Helper
    <2>4. CASE CallAt("bx_pop")  BY <1>14, <1>0, <2>4 DEF Helper
    <2>5. CASE CallAt("helper_return")  BY <1>14, <1>0, <2>5 DEF Helper
    <2> QED
      BY <1>14, <1>0, <2>1, <2>2, <2>3, <2>4, <2>5 DEF Helper
  <1>15. CASE CallerReturn  BY <1>15, <1>0 DEF CallerReturn
  <1>16. CASE Restore
    <2>1. call.at = "restore" /\ screen' = screen  BY <1>16, <1>0, RestoreEffect
    <2>2. CASE call.popped + 1 < Saved
            /\ call' = [call EXCEPT !.popped = call.popped + 1, !.depth = call.depth - 1]
      BY <1>0, <2>1, <2>2
    <2>3. ASSUME NEW bp \in DriverWord, NEW ax \in DriverWord, call.popped + 1 = Saved,
                 call' = [call EXCEPT !.popped = Saved, !.depth = call.depth - 1,
                                      !.at = "mode_byte", !.count = bp, !.ax = ax]
          PROVE  DrawingIsCounted'
      BY <1>0, <2>1, <2>3
    <2> QED  BY <1>16, <1>0, RestoreEffect, <2>1, <2>2, <2>3
  <1>17. CASE ModeByte  BY <1>17, <1>0 DEF ModeByte
  <1>18. CASE CopyReturn  BY <1>18, <1>0 DEF CopyReturn
  <1>19. CASE CopyMemory  BY <1>19, <1>0 DEF CopyMemory
  <1>20. CASE BeginOverlay
    <2>1. call.at = "overlay_branch" /\ screen' = screen  BY <1>20, <1>0, BeginEffect
    <2>2. ASSUME WithinRows, NEW n \in Nat \ {0}, n <= MaxBytes - call.seen,
                 call' = [call EXCEPT !.at = "row_push", !.depth = call.depth + 1,
                                      !.ax = call.ax, !.left = n]
          PROVE  DrawingIsCounted'
      BY <1>0, <2>1, <2>2
    <2> QED  BY <1>20, <1>0, BeginEffect, <2>1, <2>2
  <1>21. CASE OverlayByte
    <2>1. call.at \in BytePlaces /\ screen' = screen  BY <1>21, <1>0, ByteEffect
    <2>2. ASSUME NEW p \in BytePlaces,
                 call' = [call EXCEPT !.at = p]
          PROVE  DrawingIsCounted'
      BY <1>0, <2>1, <2>2
    <2>3. CASE call.left - 1 = 0
            /\ call' = [call EXCEPT !.left = 0, !.seen = call.seen + 1, !.at = "row_pop"]
      BY <1>0, <2>1, <2>3
    <2>4. CASE call.left - 1 # 0
            /\ call' = [call EXCEPT !.left = call.left - 1, !.seen = call.seen + 1,
                                    !.at = "source_read"]
      BY <1>0, <2>1, <2>4
    <2> QED  BY <1>21, <1>0, ByteEffect, <2>1, <2>2, <2>3, <2>4
  <1>22. CASE RowPop
    <2>1. call.at = "row_pop" /\ screen' = screen  BY <1>22, <1>0, RowPopEffect
    <2>2. CASE call.done + 1 = Times(call.count)
            /\ call' = [call EXCEPT !.done = call.done + 1, !.depth = call.depth - 1,
                                    !.at = "overlay_return", !.ax = 0]
      BY <1>0, <2>1, <2>2
    <2>3. ASSUME NEW w \in DriverWord, NEW n \in Nat \ {0}, n <= MaxBytes - call.seen,
                 call.done + 1 # Times(call.count),
                 call' = [call EXCEPT !.done = call.done + 1, !.depth = call.depth,
                                      !.at = "row_push", !.ax = w, !.left = n]
          PROVE  DrawingIsCounted'
      BY <1>0, <2>1, <2>3
    <2>4. ASSUME NEW w \in DriverWord, call.done + 1 # Times(call.count),
                 call' = [call EXCEPT !.done = call.done + 1, !.depth = call.depth, !.ax = w]
          PROVE  DrawingIsCounted'
      BY <1>0, <2>1, <2>4
    <2> QED  BY <1>22, <1>0, RowPopEffect, <2>1, <2>2, <2>3, <2>4
  <1>23. CASE OverlayReturn  BY <1>23, <1>0 DEF OverlayReturn
  <1> QED
    BY <1>1, <1>0, <1>2, <1>3, <1>4, <1>5, <1>6, <1>7, <1>8, <1>9, <1>10, <1>11, <1>12, <1>13,
       <1>14, <1>15, <1>16, <1>17, <1>18, <1>19, <1>20, <1>21, <1>22, <1>23 DEF
       FunctionStep, ZeroStep, SixStep, OverlayStep

LEMMA CallShapeStep == CallInv /\ FunctionStep => CallShape'
  <1> SUFFICES ASSUME CallShape, FunctionOwnsPlace, DepthIsOfPlace, PlanesAreCounted,
                      DrawingIsCounted, FunctionStep
               PROVE  CallShape'
    BY DEF CallInv
  <1>0. CallSums!2 /\ DriverWord \subseteq Nat /\ 0 \in DriverWord
    BY CallSums, BytesAreWords DEF DriverWord
  <1>90. call.at \in BytePlaces => call.left >= 1
    BY DEF DrawingIsCounted
  <1> USE DEF CallShape, CallPlaces, CallAt, CallMoves, CallOnward, Above,
              RetracePlaces, ZeroPlaces, ClipPlaces, TablePlaces, PointerPlaces,
              SetupPlaces, HelperPlaces, CallerPlaces, BytePlaces, OverlayPlaces
  <1>1. CASE RetracePoll
    <2>1. CASE CallAt("poll_clear")  BY <1>1, <1>0, <2>1 DEF RetracePoll
    <2>2. CASE CallAt("poll_set")  BY <1>1, <1>0, <2>2 DEF RetracePoll
    <2> QED
      BY <1>1, <1>0, <2>1, <2>2 DEF RetracePoll
  <1>2. CASE LocalState  BY <1>2, <1>0 DEF LocalState
  <1>3. CASE ModeAnswer
    <2>1. CASE CallAt("mode_query")  BY <1>3, <1>0, <2>1 DEF ModeAnswer
    <2>2. CASE CallAt("set_mode")  BY <1>3, <1>0, <2>2 DEF ModeAnswer
    <2>3. CASE CallAt("verify_mode")  BY <1>3, <1>0, <2>3 DEF ModeAnswer
    <2> QED
      BY <1>3, <1>0, <2>1, <2>2, <2>3 DEF ModeAnswer
  <1>4. CASE SuccessPostlude
    <2>1. call.at = "mode_match" /\ screen' = screen  BY <1>4, <1>0, SuccessEffect
    <2>2. ASSUME NEW n \in 0..EgaPlanes, n \in DriverWord,
                 call' = [call EXCEPT !.at = "stack_prefix", !.count = n]
          PROVE  CallShape'
      BY <1>0, <2>1, <2>2
    <2>3. CASE call' = [call EXCEPT !.at = "single_count"]
      BY <1>0, <2>1, <2>3
    <2>4. CASE call' = [call EXCEPT !.at = "int92"]
      BY <1>0, <1>90, <2>1, <2>4
    <2> QED  BY <1>4, <1>0, SuccessEffect, <2>1, <2>2, <2>3, <2>4
  <1>5. CASE StackPrefix
    <2>1. call.at = "stack_prefix" /\ screen' = screen  BY <1>5, <1>0, StackPrefixEffect
    <2>2. CASE call.count = 1 /\ call' = [call EXCEPT !.at = "count_pop", !.depth = call.depth + 1]
      BY <1>0, <2>1, <2>2
    <2>3. CASE call' = [call EXCEPT !.at = "planes", !.depth = call.depth + 1]
      BY <1>0, <2>1, <2>3
    <2> QED  BY <1>5, <1>0, StackPrefixEffect, <2>1, <2>2, <2>3
  <1>6. CASE PlaneLoop
    <2>1. call.at = "planes" /\ screen' = screen  BY <1>6, <1>0, PlaneLoopEffect
    <2>2. CASE call.count \in 2..EgaPlanes
            /\ call' = [call EXCEPT !.at = "count_pop", !.done = call.count - 1]
      BY <1>0, <2>1, <2>2
    <2> QED  BY <1>6, <1>0, PlaneLoopEffect, <2>1, <2>2
  <1>7. CASE CountPop  BY <1>7, <1>0 DEF CountPop
  <1>8. CASE CountStore  BY <1>8, <1>0 DEF CountStore
  <1>9. CASE NearReturn  BY <1>9, <1>0 DEF NearReturn
  <1>10. CASE Clip
    <2>1. CASE CallAt("width")  BY <1>10, <1>0, <2>1 DEF Clip
    <2>2. CASE CallAt("limit")  BY <1>10, <1>0, <2>2 DEF Clip
    <2>3. CASE CallAt("unsigned_width")  BY <1>10, <1>0, <2>3 DEF Clip
    <2>4. CASE CallAt("signed_width")  BY <1>10, <1>0, <2>4 DEF Clip
    <2> QED
      BY <1>10, <1>0, <2>1, <2>2, <2>3, <2>4 DEF Clip
  <1>11. CASE Table
    <2>1. CASE CallAt("descriptor_byte")  BY <1>11, <1>0, <2>1 DEF Table
    <2>2. CASE CallAt("table_byte")  BY <1>11, <1>0, <2>2 DEF Table
    <2> QED
      BY <1>11, <1>0, <2>1, <2>2 DEF Table
  <1>12. CASE PointerSetup
    <2>1. CASE CallAt("descriptor_offset")  BY <1>12, <1>0, <2>1 DEF PointerSetup
    <2>2. CASE CallAt("descriptor_segment")  BY <1>12, <1>0, <2>2 DEF PointerSetup
    <2>3. CASE CallAt("header")  BY <1>12, <1>0, <2>3 DEF PointerSetup
    <2>4. CASE CallAt("nested_offset")  BY <1>12, <1>0, <2>4 DEF PointerSetup
    <2>5. CASE CallAt("nested_segment")  BY <1>12, <1>0, <2>5 DEF PointerSetup
    <2>6. CASE CallAt("segment_pop")  BY <1>12, <1>0, <2>6 DEF PointerSetup
    <2> QED
      BY <1>12, <1>0, <2>1, <2>2, <2>3, <2>4, <2>5, <2>6 DEF PointerSetup
  <1>13. CASE RegisterSetup
    <2>1. CASE CallAt("multiply")  BY <1>13, <1>0, <2>1 DEF RegisterSetup
    <2>2. CASE CallAt("addend")  BY <1>13, <1>0, <2>2 DEF RegisterSetup
    <2>3. CASE CallAt("ah_byte")  BY <1>13, <1>0, <2>3 DEF RegisterSetup
    <2>4. CASE CallAt("position")  BY <1>13, <1>0, <2>4 DEF RegisterSetup
    <2>5. CASE CallAt("width_word")  BY <1>13, <1>0, <2>5 DEF RegisterSetup
    <2>6. CASE CallAt("height_word")  BY <1>13, <1>0, <2>6 DEF RegisterSetup
    <2>7. CASE CallAt("final_byte")  BY <1>13, <1>0, <2>7 DEF RegisterSetup
    <2> QED
      BY <1>13, <1>0, <2>1, <2>2, <2>3, <2>4, <2>5, <2>6, <2>7 DEF RegisterSetup
  <1>14. CASE Helper
    <2>1. CASE CallAt("threshold")  BY <1>14, <1>0, <2>1 DEF Helper
    <2>2. CASE CallAt("table_word")  BY <1>14, <1>0, <2>2 DEF Helper
    <2>3. CASE CallAt("table_word_two")  BY <1>14, <1>0, <2>3 DEF Helper
    <2>4. CASE CallAt("bx_pop")  BY <1>14, <1>0, <2>4 DEF Helper
    <2>5. CASE CallAt("helper_return")  BY <1>14, <1>0, <2>5 DEF Helper
    <2> QED
      BY <1>14, <1>0, <2>1, <2>2, <2>3, <2>4, <2>5 DEF Helper
  <1>15. CASE CallerReturn  BY <1>15, <1>0 DEF CallerReturn
  <1>16. CASE Restore
    <2>1. call.at = "restore" /\ screen' = screen  BY <1>16, <1>0, RestoreEffect
    <2>2. CASE call.popped + 1 < Saved
            /\ call' = [call EXCEPT !.popped = call.popped + 1, !.depth = call.depth - 1]
      BY <1>0, <2>1, <2>2
    <2>3. ASSUME NEW bp \in DriverWord, NEW ax \in DriverWord, call.popped + 1 = Saved,
                 call' = [call EXCEPT !.popped = Saved, !.depth = call.depth - 1,
                                      !.at = "mode_byte", !.count = bp, !.ax = ax]
          PROVE  CallShape'
      BY <1>0, <2>1, <2>3
    <2> QED  BY <1>16, <1>0, RestoreEffect, <2>1, <2>2, <2>3
  <1>17. CASE ModeByte  BY <1>17, <1>0 DEF ModeByte
  <1>18. CASE CopyReturn  BY <1>18, <1>0 DEF CopyReturn
  <1>19. CASE CopyMemory  BY <1>19, <1>0 DEF CopyMemory
  <1>20. CASE BeginOverlay
    <2>1. call.at = "overlay_branch" /\ screen' = screen  BY <1>20, <1>0, BeginEffect
    <2>2. ASSUME WithinRows, NEW n \in Nat \ {0}, n <= MaxBytes - call.seen,
                 call' = [call EXCEPT !.at = "row_push", !.depth = call.depth + 1,
                                      !.ax = call.ax, !.left = n]
          PROVE  CallShape'
      BY <1>0, <2>1, <2>2
    <2> QED  BY <1>20, <1>0, BeginEffect, <2>1, <2>2
  <1>21. CASE OverlayByte
    <2>1. call.at \in BytePlaces /\ screen' = screen  BY <1>21, <1>0, ByteEffect
    <2>2. ASSUME NEW p \in BytePlaces,
                 call' = [call EXCEPT !.at = p]
          PROVE  CallShape'
      BY <1>0, <2>1, <2>2
    <2>3. CASE call.left - 1 = 0
            /\ call' = [call EXCEPT !.left = 0, !.seen = call.seen + 1, !.at = "row_pop"]
      BY <1>0, <2>1, <2>3
    <2>4. CASE call.left - 1 # 0
            /\ call' = [call EXCEPT !.left = call.left - 1, !.seen = call.seen + 1,
                                    !.at = "source_read"]
      BY <1>0, <1>90, <2>1, <2>4
    <2> QED  BY <1>21, <1>0, ByteEffect, <2>1, <2>2, <2>3, <2>4
  <1>22. CASE RowPop
    <2>1. call.at = "row_pop" /\ screen' = screen  BY <1>22, <1>0, RowPopEffect
    <2>2. CASE call.done + 1 = Times(call.count)
            /\ call' = [call EXCEPT !.done = call.done + 1, !.depth = call.depth - 1,
                                    !.at = "overlay_return", !.ax = 0]
      BY <1>0, <2>1, <2>2
    <2>3. ASSUME NEW w \in DriverWord, NEW n \in Nat \ {0}, n <= MaxBytes - call.seen,
                 call.done + 1 # Times(call.count),
                 call' = [call EXCEPT !.done = call.done + 1, !.depth = call.depth,
                                      !.at = "row_push", !.ax = w, !.left = n]
          PROVE  CallShape'
      BY <1>0, <2>1, <2>3
    <2>4. ASSUME NEW w \in DriverWord, call.done + 1 # Times(call.count),
                 call' = [call EXCEPT !.done = call.done + 1, !.depth = call.depth, !.ax = w]
          PROVE  CallShape'
      BY <1>0, <1>90, <2>1, <2>4
    <2> QED  BY <1>22, <1>0, RowPopEffect, <2>1, <2>2, <2>3, <2>4
  <1>23. CASE OverlayReturn  BY <1>23, <1>0 DEF OverlayReturn
  <1> QED
    BY <1>1, <1>0, <1>2, <1>3, <1>4, <1>5, <1>6, <1>7, <1>8, <1>9, <1>10, <1>11, <1>12, <1>13,
       <1>14, <1>15, <1>16, <1>17, <1>18, <1>19, <1>20, <1>21, <1>22, <1>23 DEF
       FunctionStep, ZeroStep, SixStep, OverlayStep

LEMMA CallInvNext == CallInv /\ FunctionStep => CallInv'
  BY OwnerStep, DepthStep, PlanesStep, DrawingStep, CallShapeStep DEF CallInv

LEMMA FunctionsLeaveInterrupt == FunctionStep => UNCHANGED callbackVars
  BY DEF FunctionStep, RetracePoll, LocalState, ZeroStep, ModeAnswer, SuccessPostlude, StackPrefix,
         PlaneLoop, CountPop, CountStore, NearReturn, SixStep, Clip, Table, PointerSetup,
         RegisterSetup, Helper, CallerReturn, Restore, ModeByte, CopyReturn, CopyMemory,
         OverlayStep, BeginOverlay, OverlayByte, RowPop, OverlayReturn, CallMoves, CallOnward,
         Above, callbackVars

LEMMA CallInvInit == VideoInit => CallInv
  <1> SUFFICES ASSUME VideoInit PROVE CallInv
    OBVIOUS
  <1>0. 0 \in DriverWord /\ screen \in {"untouched", "copied"}
    <2>1. 0 \in DriverWord  BY BytesAreWords DEF DriverWord
    <2> QED  BY <2>1 DEF VideoInit
  <1> DEFINE FreshCall(fn, at) ==
        [fn |-> fn, at |-> at, depth |-> 0, carry |-> FALSE, count |-> 0, ax |-> 0, popped |-> 0,
         done |-> 0, left |-> 0, seen |-> 0]
  <1>1. \/ call = FreshCall("none", "none")
        \/ call = FreshCall("zero", "mode_query") \/ call = FreshCall("zero", "set_mode")
        \/ call = FreshCall("six", "width") \/ call = FreshCall("six", "limit")
        \/ call = FreshCall("thirteen", "poll_clear") \/ call = FreshCall("thirty_one", "local_state")
    <2>1. CASE call = NoCall  BY <2>1 DEF NoCall
    <2>2. ASSUME NEW fn \in DOMAIN FunctionEntry, NEW at \in FunctionEntry[fn],
                 call = [NoCall EXCEPT !.fn = fn, !.at = at]
          PROVE  <1>1
      <3>1. call = FreshCall(fn, at)  BY <2>2 DEF NoCall
      <3>2. fn \in {"zero", "six", "thirteen", "thirty_one"}  BY DEF FunctionEntry
      <3>3. /\ FunctionEntry["zero"] = {"mode_query", "set_mode"}
            /\ FunctionEntry["six"] = {"width", "limit"}
            /\ FunctionEntry["thirteen"] = {"poll_clear"}
            /\ FunctionEntry["thirty_one"] = {"local_state"}
        BY DEF FunctionEntry
      <3> HIDE DEF FreshCall
      <3> QED  BY <3>1, <3>2, <3>3
    <2> QED  BY <2>1, <2>2 DEF VideoInit
  <1> USE DEF CallInv, CallShape, FunctionOwnsPlace, DepthIsOfPlace, PlanesAreCounted,
              DrawingIsCounted, BeforeDrawing, SixPlaces, RetracePlaces, ZeroPlaces, ClipPlaces,
              TablePlaces, PointerPlaces, SetupPlaces, HelperPlaces, CallerPlaces, BytePlaces,
              OverlayPlaces, CallPlaces, FunctionEntry, Saved
  <1>2. CASE call = FreshCall("none", "none")                  BY <1>0, <1>2
  <1>3. CASE call = FreshCall("zero", "mode_query")            BY <1>0, <1>3
  <1>4. CASE call = FreshCall("zero", "set_mode")              BY <1>0, <1>4
  <1>5. CASE call = FreshCall("six", "width")                  BY <1>0, <1>5
  <1>6. CASE call = FreshCall("six", "limit")                  BY <1>0, <1>6
  <1>7. CASE call = FreshCall("thirteen", "poll_clear")        BY <1>0, <1>7
  <1>8. CASE call = FreshCall("thirty_one", "local_state")     BY <1>0, <1>8
  <1> QED  BY <1>1, <1>2, <1>3, <1>4, <1>5, <1>6, <1>7, <1>8

LEMMA VideoInvInit == VideoInit => VideoInv
  BY CallbackInvInit, CallInvInit DEF VideoInit, VideoInv

LEMMA VideoInvNext == VideoInv /\ [VideoStep]_videoVars => VideoInv'
  <1> SUFFICES ASSUME VideoInv, [VideoStep]_videoVars PROVE VideoInv'
    OBVIOUS
  <1>1. ASSUME UNCHANGED callbackVars PROVE CallbackInv'
    BY <1>1 DEF VideoInv, callbackVars, CallbackInv, CallbackShape, StackIsKept, ReadsAreCounted,
                CountsAreInRange
  <1>2. ASSUME UNCHANGED <<call, screen>> PROVE CallInv'
    BY <1>2 DEF VideoInv, CallInv, CallShape, FunctionOwnsPlace, DepthIsOfPlace,
                PlanesAreCounted, DrawingIsCounted, WithinRows
  <1>3. CASE FunctionStep
    BY <1>1, <1>3, CallInvNext, FunctionsLeaveInterrupt DEF VideoInv
  <1>4. CASE CallbackStep /\ UNCHANGED <<call, screen>>
    BY <1>2, <1>4, CallbackInvNext DEF VideoInv
  <1>5. CASE UNCHANGED videoVars
    BY <1>1, <1>2, <1>5 DEF VideoInv, videoVars, callbackVars
  <1> QED  BY <1>3, <1>4, <1>5 DEF VideoStep

(* What the invariant says of a function's return and of what it drew.     *)
LEMMA CallIsSound == CallInv => ReturnsAreBalanced /\ DrawingIsBounded
  <1> SUFFICES ASSUME CallInv PROVE ReturnsAreBalanced /\ DrawingIsBounded
    OBVIOUS
  <1>1. ReturnsAreBalanced
    BY DEF CallInv, DepthIsOfPlace, PlanesAreCounted, ReturnsAreBalanced
  <1>2. call.fn = "six" => call.at \in SixPlaces \union {"returned"}
    BY DEF CallInv, CallShape, FunctionOwnsPlace, CallPlaces, SixPlaces, BeforeDrawing, ClipPlaces,
           TablePlaces, PointerPlaces, SetupPlaces, HelperPlaces, CallerPlaces, OverlayPlaces,
           RetracePlaces, ZeroPlaces
  <1>3. call.at \in SixPlaces \union {"returned"} /\ call.fn = "six" => call.done <= MaxRows
    <2>1. call.count \in DriverWord /\ call.done \in Nat  BY DEF CallInv, CallShape
    <2>2. Times(call.count) \in Nat /\ MaxRows \in Nat  BY <2>1, CountsGoRound
    <2>3. call.done = 0 => call.done <= MaxRows  BY <2>2
    <2>4. WithinRows /\ (call.done = Times(call.count) \/ call.done < Times(call.count)) =>
            call.done <= MaxRows
      BY <2>1, <2>2 DEF WithinRows
    <2> QED
      BY <2>3, <2>4 DEF CallInv, DrawingIsCounted, SixPlaces, OverlayPlaces
  <1>4. call.at \in BytePlaces => call.depth = 1  BY DEF CallInv, DepthIsOfPlace
  <1>5. call.at \in BytePlaces => call.seen + call.left <= MaxBytes
    BY DEF CallInv, DrawingIsCounted
  <1>6. call.at = "returned" /\ call.fn = "six" /\ ~call.carry =>
          call.done = Times(call.count) /\ call.seen \in 1..MaxBytes
    BY DEF CallInv, DrawingIsCounted
  <1> QED
    BY <1>1, <1>2, <1>3, <1>4, <1>5, <1>6 DEF DrawingIsBounded

LEMMA CallIsTyped == CallInv => call.depth \in -1..(Saved + 2) /\ call.at \in CallPlaces
  <1> SUFFICES ASSUME CallInv PROVE call.depth \in -1..(Saved + 2) /\ call.at \in CallPlaces
    OBVIOUS
  <1>1. call.at \in CallPlaces  BY DEF CallInv, CallShape
  <1>2. call.at = "restore" => call.depth \in 1..Saved
    BY SMT DEF CallInv, CallShape, DepthIsOfPlace, Saved
  <1>3. call.at # "restore" => call.depth \in {-1, 0, 1, 2, Saved, Saved + 1, Saved + 2}
    BY <1>1
    DEF CallInv, DepthIsOfPlace, CallPlaces, ClipPlaces, TablePlaces, PointerPlaces, SetupPlaces,
        HelperPlaces, CallerPlaces, OverlayPlaces, BytePlaces, RetracePlaces, ZeroPlaces
  <1> QED  BY <1>1, <1>2, <1>3, SMT DEF Saved

LEMMA VideoIsSound == VideoInv => DriverIsSound /\ VideoTypeOK
  <1> SUFFICES ASSUME VideoInv PROVE DriverIsSound /\ VideoTypeOK
    OBVIOUS
  <1>1. InterruptIsBalanced /\ CopyIsBounded /\ CallbackTypeOK
    BY CallbackIsSound DEF VideoInv
  <1>2. ReturnsAreBalanced /\ DrawingIsBounded  BY CallIsSound DEF VideoInv
  <1>3. VideoTypeOK
    BY <1>1, CallIsTyped DEF VideoInv, CallInv, CallShape, VideoTypeOK
  <1> QED  BY <1>1, <1>2, <1>3 DEF DriverIsSound

(* Among the coordinator's sessions the driver's alone moves the driver.   *)
LEMMA SessionsKeepDriver == VideoInv /\ [SessionsNext]_sessionVars => VideoInv'
  <1>1. [SessionsNext]_sessionVars => [VideoStep]_videoVars
    BY DEF SessionsNext, sessionVars, DosTitleStep, TitleStageStep, MainStageStep,
           AtariSessionStep, GameSessionStep, DriverStep, BootstrapStep, LoaderStep
  <1> QED  BY <1>1, VideoInvNext

(* The driver's interrupt returns with its busy byte clear and its saves   *)
(* restored, its copy and its colours stay within their counts, and its    *)
(* functions return balanced, with no more drawn than they may             *)
(* (MillenniumDosVideoFunction13InterruptSession and the sessions of       *)
(* functions zero and six): for words, bytes and limits of any size.       *)
THEOREM DriverIsSoundHolds == SessionsSpec => []DriverIsSound
  <1>1. SessionsInit => VideoInv  BY VideoInvInit DEF SessionsInit
  <1> QED  BY <1>1, SessionsKeepDriver, VideoIsSound, PTL DEF SessionsSpec

(* The driver's sessions stay at the places src/ names, with their stack   *)
(* words, counts and registers in range.                                   *)
THEOREM DriverIsTyped == SessionsSpec => []VideoTypeOK
  <1>1. SessionsInit => VideoInv  BY VideoInvInit DEF SessionsInit
  <1> QED  BY <1>1, SessionsKeepDriver, VideoIsSound, PTL DEF SessionsSpec

-----------------------------------------------------------------------------
(* The loads by the parts a step can disturb.                              *)
VideoStates ==
  {"none", "open", "seek_end", "allocation", "seek_start", "read", "close", "vector_request",
   "vector_result", "vector_seen", "ivt_seen"}

LoadShape ==
  /\ dos \in [kind : {"sound_boundary", "title"}, at : SoundPlaces, size : DriverSizes,
              seq : Nat, last : Nat, next : Nat, sound : Nat, child : Nat, vector : Nat,
              entry : EntryPlaces, code : Nat, started : BOOLEAN]
  /\ video \in [at : VideoStates, card : {"none", "ega", "mcga"},
                segment : Observed \union {0}, carry : BOOLEAN, vector : Nat]
  /\ image \in [LoadSegments -> {"none", "sound", "child", "video"}]
  /\ met \in [front : {"host", "launcher"}, shown : {"sound_boundary", "title"}]

LoadOrder ==
  /\ dos.at = "open" <=> dos.sound = 0
  /\ dos.at # "requested" <=> dos.entry = "none"
  /\ dos.kind = "title" <=> dos.entry = "title_entry"

VideoUnplaced == video.at \in {"none", "open", "seek_end", "allocation"} => video.segment = 0

IsPublished == met.front = "host" => met.shown = dos.kind

LoadInv ==
  /\ LoadShape /\ LoadOrder /\ VideoUnplaced
  /\ NumbersAgree /\ ArenaIsWhole /\ ImagesAreKept /\ TitleHasItsChild /\ IsPublished

LEMMA LoadInvInit == LoadInit => LoadInv
  <1> SUFFICES ASSUME LoadInit PROVE LoadInv
    OBVIOUS
  <1>1. PICK size \in DriverSizes : dos = NewLoad(size)
    BY DEF LoadInit
  <1>2. PICK way \in {"host", "launcher"} : met = [front |-> way, shown |-> "sound_boundary"]
    BY DEF LoadInit
  <1>3. /\ video = [at |-> "none", card |-> "none", segment |-> 0, carry |-> FALSE, vector |-> 0]
        /\ image = [s \in LoadSegments |-> "none"]
    BY DEF LoadInit
  <1>4. LoadShape
    BY <1>1, <1>2, <1>3, ArenaAssumption
    DEF LoadShape, VideoStates, NewLoad, SoundPlaces, EntryPlaces, ArenaAssumption
  <1>5. LoadOrder /\ VideoUnplaced /\ IsPublished /\ NumbersAgree /\ ImagesAreKept
          /\ TitleHasItsChild
    BY <1>1, <1>2, <1>3
    DEF NewLoad, LoadOrder, VideoUnplaced, IsPublished, NumbersAgree, ImagesAreKept,
        TitleHasItsChild
  <1>6. ArenaIsWhole
    BY <1>1, ArenaAssumption, SMT DEF NewLoad, ArenaIsWhole, ArenaAssumption
  <1> QED  BY <1>4, <1>5, <1>6 DEF LoadInv

(* One pass loads the driver.                                              *)
LEMMA LoadPassKeeps ==
  ASSUME LoadInv, LoadPass, dos.kind = "sound_boundary", UNCHANGED video,
         met' = [met EXCEPT !.shown = dos'.kind]
  PROVE  LoadInv'
  <1>1. /\ dos.at = "open" /\ dos.size <= ArenaEnd - dos.next
        /\ dos' = [dos EXCEPT !.next = dos.next + dos.size, !.last = dos.last + 7,
                     !.at = "parent_stack", !.sound = dos.next, !.vector = dos.next,
                     !.seq = dos.last + 7]
        /\ image' = [image EXCEPT ![dos.next] = "sound"]
    BY DEF LoadPass, LoadSound, SoundImage, Counted, Allocated, HasRoom, LoadInv, LoadShape
  <1>2. /\ dos.next \in Nat /\ dos.size \in Nat \ {0} /\ dos.last \in Nat
        /\ ArenaBegin \in Nat \ {0} /\ ArenaEnd \in Nat
        /\ ArenaBegin <= dos.next /\ dos.next <= ArenaEnd
    BY ArenaAssumption DEF LoadInv, LoadShape, ArenaIsWhole, ArenaAssumption
  <1>3. dos.next \in LoadSegments
    BY <1>1, <1>2, SMT DEF LoadSegments
  <1>4. dos.entry = "none" /\ dos.sound = 0 /\ dos.child = 0 /\ ~dos.started
    BY <1>1 DEF LoadInv, LoadOrder, TitleHasItsChild, LoadShape
  <1>5. LoadShape'
    <2>1. dos.next + dos.size \in Nat /\ dos.last + 7 \in Nat  BY <1>2, SMT
    <2>2. dos' \in [kind : {"sound_boundary", "title"}, at : SoundPlaces, size : DriverSizes,
              seq : Nat, last : Nat, next : Nat, sound : Nat, child : Nat, vector : Nat,
              entry : EntryPlaces, code : Nat, started : BOOLEAN]
      BY <1>1, <1>2, <2>1 DEF LoadInv, LoadShape, SoundPlaces
    <2>3. image' \in [LoadSegments -> {"none", "sound", "child", "video"}]
      BY <1>1 DEF LoadInv, LoadShape
    <2>4. met' \in [front : {"host", "launcher"}, shown : {"sound_boundary", "title"}]
      BY <2>2 DEF LoadInv, LoadShape
    <2> QED  BY <2>2, <2>3, <2>4 DEF LoadInv, LoadShape
  <1>6. /\ dos'.at = "parent_stack" /\ dos'.sound = dos.next /\ dos'.vector = dos.next
        /\ dos'.next = dos.next + dos.size /\ dos'.seq = dos.last + 7
        /\ dos'.last = dos.last + 7 /\ dos'.child = 0 /\ dos'.entry = "none"
        /\ dos'.kind = "sound_boundary" /\ ~dos'.started /\ dos'.size = dos.size
    BY <1>1, <1>4 DEF LoadInv, LoadShape
  <1>7. image'[dos.next] = "sound"  BY <1>1, <1>3 DEF LoadInv, LoadShape
  <1>8. LoadOrder'
    BY <1>2, <1>6, SMT DEF LoadOrder
  <1>9. ArenaIsWhole'
    BY <1>1, <1>2, <1>6, SMT DEF ArenaIsWhole
  <1>10. ImagesAreKept'  BY <1>6, <1>7 DEF ImagesAreKept
  <1>11. NumbersAgree' /\ TitleHasItsChild'  BY <1>6 DEF NumbersAgree, TitleHasItsChild
  <1>12. VideoUnplaced' /\ IsPublished'
    BY <1>6 DEF LoadInv, LoadShape, VideoUnplaced, IsPublished
  <1> QED  BY <1>5, <1>8, <1>9, <1>10, <1>11, <1>12 DEF LoadInv

(* One pass requests EXEC where it has not been, and enters the child.     *)
LEMMA ExecPassKeeps ==
  ASSUME LoadInv, ExecPass, dos.kind = "sound_boundary", UNCHANGED video,
         met' = [met EXCEPT !.shown = dos'.kind]
  PROVE  LoadInv'
  <1> DEFINE d == IF dos.at = "exec" THEN Requested(dos) ELSE dos
             DosType == [kind : {"sound_boundary", "title"}, at : SoundPlaces,
                size : DriverSizes, seq : Nat, last : Nat, next : Nat, sound : Nat, child : Nat,
                vector : Nat, entry : EntryPlaces, code : Nat, started : BOOLEAN]
  <1>1. /\ dos.next \in Nat /\ dos.size \in Nat \ {0} /\ dos.last \in Nat
        /\ ArenaBegin \in Nat \ {0} /\ ArenaEnd \in Nat /\ ChildSize \in Nat \ {0}
        /\ ArenaBegin <= dos.next /\ dos.next <= ArenaEnd
    BY ArenaAssumption DEF LoadInv, LoadShape, ArenaIsWhole, ArenaAssumption
  <1>2. dos \in DosType  BY DEF LoadInv, LoadShape
  <1>3. /\ d \in DosType /\ d.at = "requested" /\ d.entry = "awaiting"
        /\ d.next = dos.next /\ d.size = dos.size /\ d.sound = dos.sound
        /\ d.vector = dos.vector
        /\ dos.at # "open"
    <2>1. CASE dos.at = "exec"
      <3>1. d = [dos EXCEPT !.last = dos.last + 1, !.at = "requested", !.entry = "awaiting"]
        BY <2>1, <1>2 DEF Requested, Counted
      <3>2. dos.last + 1 \in Nat  BY <1>1, SMT
      <3> QED  BY <3>1, <3>2, <2>1, <1>2 DEF SoundPlaces, EntryPlaces
    <2>2. CASE dos.at # "exec"
      BY <2>2, <1>2 DEF ExecPass
    <2> QED  BY <2>1, <2>2
  <1>4. /\ HasRoom(d, ChildSize) /\ dos' = EnterChild(d) /\ image' = ChildImage(d)
    BY DEF ExecPass
  <1> HIDE DEF d
  <1>5. dos' = [d EXCEPT !.entry = "title_entry", !.code = d.next, !.next = d.next + ChildSize,
                  !.last = d.last + 4, !.child = d.next, !.started = TRUE, !.kind = "title",
                  !.seq = d.last + 4]
    BY <1>3, <1>4 DEF EnterChild, Entered, Prefixed, Allocated, Counted
  <1>6. d.next + ChildSize \in Nat /\ d.last + 4 \in Nat
    BY <1>1, <1>3, SMT
  <1>7. /\ dos' \in DosType
        /\ dos'.at = "requested" /\ dos'.sound = dos.sound /\ dos'.vector = dos.vector
        /\ dos'.size = dos.size
        /\ dos'.next = dos.next + ChildSize /\ dos'.child = dos.next /\ dos'.code = dos.next
        /\ dos'.entry = "title_entry" /\ dos'.kind = "title" /\ dos'.started
    BY <1>3, <1>5, <1>6 DEF EntryPlaces
  <1>8. dos.next \in LoadSegments
    BY <1>1, <1>3, <1>4, SMT DEF LoadSegments, HasRoom
  <1>9. image' = [image EXCEPT ![dos.next] = "child"]
    BY <1>3, <1>4 DEF ChildImage
  <1>10. LoadShape'
    <2>1. image' \in [LoadSegments -> {"none", "sound", "child", "video"}]
      BY <1>9 DEF LoadInv, LoadShape
    <2>2. met' \in [front : {"host", "launcher"}, shown : {"sound_boundary", "title"}]
      BY <1>7 DEF LoadInv, LoadShape
    <2> QED  BY <1>7, <2>1, <2>2 DEF LoadInv, LoadShape
  <1>11. /\ dos.sound # 0 /\ dos.sound \in Nat /\ dos.sound + dos.size <= dos.next
         /\ ArenaBegin <= dos.sound
    BY <1>3, <1>2 DEF LoadInv, LoadOrder, ArenaIsWhole
  <1>12. LoadOrder'  BY <1>7, <1>11 DEF LoadOrder
  <1>13. ArenaIsWhole'
    <2>1. dos.next + ChildSize <= ArenaEnd  BY <1>1, <1>3, <1>4, SMT DEF HasRoom
    <2> QED  BY <1>1, <1>7, <1>11, <2>1, SMT DEF ArenaIsWhole
  <1>14. ImagesAreKept'
    <2>1. dos.sound # dos.next  BY <1>1, <1>11, SMT
    <2>2. dos.sound \in LoadSegments
      BY <1>1, <1>11, SMT DEF LoadSegments
    <2>3. image'[dos.next] = "child" /\ image'[dos.sound] = image[dos.sound]
      BY <1>8, <1>9, <2>1, <2>2 DEF LoadInv, LoadShape
    <2> QED  BY <1>7, <1>11, <2>3 DEF LoadInv, ImagesAreKept, Overlaid
  <1>15. NumbersAgree'  BY <1>7 DEF NumbersAgree
  <1>16. TitleHasItsChild'
    BY <1>1, <1>7, <1>11, SMT DEF TitleHasItsChild
  <1>17. VideoUnplaced' /\ IsPublished'
    BY <1>7 DEF LoadInv, LoadShape, VideoUnplaced, IsPublished
  <1> QED  BY <1>10, <1>12, <1>13, <1>14, <1>15, <1>16, <1>17 DEF LoadInv

(* An observation from outside moves the load's place and number, and the  *)
(* runner's with it.                                                       *)
LEMMA SoundObservationsKeep ==
  ASSUME LoadInv, ObserveParentStack \/ ObserveTitleExec, UNCHANGED <<video, met>>
  PROVE  LoadInv'
  <1>1. /\ dos.kind = "sound_boundary" /\ dos.at \in {"parent_stack", "exec"}
        /\ \E at \in {"exec", "requested"}, place \in {"none", "awaiting"} :
             /\ at = "requested" <=> place = "awaiting"
             /\ dos' = [dos EXCEPT !.seq = dos.last + 1, !.last = dos.last + 1, !.at = at,
                          !.entry = place]
        /\ image' = image
    <2>1. dos.at # "requested" => dos.entry = "none"
      BY DEF LoadInv, LoadOrder
    <2>2. CASE ObserveParentStack
      <3>1. dos.entry = "none"  BY <2>1, <2>2 DEF ObserveParentStack
      <3>2. dos' = [dos EXCEPT !.seq = dos.last + 1, !.last = dos.last + 1, !.at = "exec",
                      !.entry = "none"]
        BY <2>2, <3>1 DEF ObserveParentStack, Numbered, LoadInv, LoadShape
      <3> QED  BY <2>2, <3>2 DEF ObserveParentStack
    <2>3. CASE ObserveTitleExec
      <3>1. dos' = [dos EXCEPT !.seq = dos.last + 1, !.last = dos.last + 1, !.at = "requested",
                      !.entry = "awaiting"]
        BY <2>3 DEF ObserveTitleExec, Numbered, LoadInv, LoadShape
      <3> QED  BY <2>3, <3>1 DEF ObserveTitleExec
    <2> QED  BY <2>2, <2>3
  <1>2. PICK at \in {"exec", "requested"}, place \in {"none", "awaiting"} :
             /\ at = "requested" <=> place = "awaiting"
             /\ dos' = [dos EXCEPT !.seq = dos.last + 1, !.last = dos.last + 1, !.at = at,
                          !.entry = place]
    BY <1>1
  <1>3. dos.last + 1 \in Nat  BY SMT DEF LoadInv, LoadShape
  <1>4. LoadShape'
    BY <1>1, <1>2, <1>3 DEF LoadInv, LoadShape, SoundPlaces, EntryPlaces
  <1>5. /\ dos'.at = at /\ dos'.entry = place /\ dos'.seq = dos'.last
        /\ dos'.kind = "sound_boundary" /\ dos'.sound = dos.sound /\ dos'.next = dos.next
        /\ dos'.size = dos.size /\ dos'.child = dos.child /\ dos'.vector = dos.vector
        /\ dos'.code = dos.code /\ dos'.started = dos.started
    BY <1>1, <1>2 DEF LoadInv, LoadShape
  <1>6. LoadOrder'  BY <1>1, <1>2, <1>5 DEF LoadInv, LoadOrder
  <1>7. ArenaIsWhole'  BY <1>5 DEF LoadInv, ArenaIsWhole
  <1>8. ImagesAreKept'  BY <1>1, <1>5 DEF LoadInv, ImagesAreKept, Overlaid
  <1>9. NumbersAgree'  BY <1>5 DEF NumbersAgree
  <1>10. TitleHasItsChild'  BY <1>1, <1>5 DEF LoadInv, TitleHasItsChild
  <1>11. VideoUnplaced' /\ IsPublished'  BY <1>1, <1>5 DEF LoadInv, VideoUnplaced, IsPublished
  <1> QED  BY <1>4, <1>6, <1>7, <1>8, <1>9, <1>10, <1>11 DEF LoadInv

(* The child entered by hand changes the entry, its code segment and, at   *)
(* the end of its prefix, what is published; no image.                     *)
LEMMA EntryCallsKeep ==
  ASSUME LoadInv, EntryCalls
  PROVE  LoadInv'
  <1>1. /\ dos.kind = "sound_boundary" /\ dos.at = "requested" /\ dos.entry # "none"
        /\ \E now \in {"sound_boundary", "title"}, place \in {"prefix", "title_entry"},
             code \in Nat :
             /\ now = "title" <=> place = "title_entry"
             /\ dos' = [dos EXCEPT !.kind = now, !.entry = place, !.code = code]
        /\ image' = image /\ video' = video
        /\ \/ met' = met /\ dos'.kind = dos.kind
           \/ met' = [met EXCEPT !.shown = dos'.kind]
    <2>1. CASE Passes({"sound_boundary"}, ObserveChildEntry) /\ UNCHANGED video
      <3>1. PICK code \in Observed : dos' = Entered(dos, code)
        BY <2>1 DEF Passes, ObserveChildEntry
      <3>2. code \in Nat  BY <3>1, ArenaAssumption DEF ArenaAssumption
      <3>3. /\ dos.kind = "sound_boundary" /\ dos.at = "requested" /\ dos.entry = "awaiting"
            /\ image' = image /\ video' = video /\ met' = met
        BY <2>1 DEF Passes, ObserveChildEntry
      <3>4. /\ dos' = [dos EXCEPT !.kind = "sound_boundary", !.entry = "prefix", !.code = code]
            /\ dos'.kind = dos.kind
        BY <3>1, <3>3 DEF Entered, LoadInv, LoadShape
      <3> QED  BY <3>2, <3>3, <3>4
    <2>2. CASE PassesAnew({"sound_boundary"}, AdvanceEntryPrefix) /\ UNCHANGED video
      <3>1. /\ dos.kind = "sound_boundary" /\ dos.entry = "prefix"
            /\ dos' = [Prefixed(dos) EXCEPT !.kind = "title"]
            /\ image' = image /\ video' = video /\ met' = [met EXCEPT !.shown = dos'.kind]
        BY <2>2 DEF PassesAnew, AdvanceEntryPrefix
      <3>2. dos.at = "requested" /\ dos.code \in Nat
        BY <3>1 DEF LoadInv, LoadOrder, LoadShape
      <3>3. dos' = [dos EXCEPT !.kind = "title", !.entry = "title_entry", !.code = dos.code]
        BY <3>1 DEF Prefixed, LoadInv, LoadShape
      <3> QED  BY <3>1, <3>2, <3>3
    <2> QED  BY <2>1, <2>2 DEF EntryCalls
  <1>2. PICK now \in {"sound_boundary", "title"}, place \in {"prefix", "title_entry"},
             code \in Nat :
             /\ now = "title" <=> place = "title_entry"
             /\ dos' = [dos EXCEPT !.kind = now, !.entry = place, !.code = code]
    BY <1>1
  <1>3. /\ dos'.at = dos.at /\ dos'.entry = place /\ dos'.seq = dos.seq /\ dos'.last = dos.last
        /\ dos'.kind = now /\ dos'.sound = dos.sound /\ dos'.next = dos.next
        /\ dos'.size = dos.size /\ dos'.child = dos.child /\ dos'.vector = dos.vector
        /\ dos'.started = dos.started
    BY <1>2 DEF LoadInv, LoadShape
  <1>4. LoadShape'
    <2>1. now \in {"sound_boundary", "title"} /\ place \in EntryPlaces /\ code \in Nat
      BY <1>2 DEF EntryPlaces
    <2>2. dos' \in [kind : {"sound_boundary", "title"}, at : SoundPlaces, size : DriverSizes,
              seq : Nat, last : Nat, next : Nat, sound : Nat, child : Nat, vector : Nat,
              entry : EntryPlaces, code : Nat, started : BOOLEAN]
      BY <1>2, <2>1 DEF LoadInv, LoadShape
    <2>3. met' \in [front : {"host", "launcher"}, shown : {"sound_boundary", "title"}]
      BY <1>1, <1>3, <2>1 DEF LoadInv, LoadShape
    <2> QED  BY <1>1, <2>2, <2>3 DEF LoadInv, LoadShape
  <1>5. LoadOrder'  BY <1>1, <1>2, <1>3 DEF LoadInv, LoadOrder
  <1>6. ArenaIsWhole'  BY <1>3 DEF LoadInv, ArenaIsWhole
  <1>7. ImagesAreKept'  BY <1>1, <1>3 DEF LoadInv, ImagesAreKept, Overlaid
  <1>8. NumbersAgree'  BY <1>1, <1>3 DEF LoadInv, NumbersAgree
  <1>9. TitleHasItsChild'
    <2>1. ~dos.started /\ dos.child = 0 /\ dos.sound # 0
      BY <1>1 DEF LoadInv, TitleHasItsChild, LoadOrder, LoadShape
    <2> QED  BY <1>2, <1>3, <2>1 DEF TitleHasItsChild
  <1>10. VideoUnplaced' /\ IsPublished'
    BY <1>1, <1>3 DEF LoadInv, LoadShape, VideoUnplaced, IsPublished
  <1> QED  BY <1>4, <1>5, <1>6, <1>7, <1>8, <1>9, <1>10 DEF LoadInv

(* The video driver's load writes one image, where it was observed to be.  *)
LEMMA VideoObservationsKeep ==
  ASSUME LoadInv, ObserveVideo, UNCHANGED met
  PROVE  LoadInv'
  <1>1. dos' = dos /\ met' = met  BY DEF ObserveVideo
  <1> DEFINE VideoType == [at : VideoStates, card : {"none", "ega", "mcga"},
                           segment : Observed \union {0}, carry : BOOLEAN, vector : Nat]
             ImageType == [LoadSegments -> {"none", "sound", "child", "video"}]
             Unplaced(v) == v.at \in {"none", "open", "seek_end", "allocation"} => v.segment = 0
             KeepsSegment ==
               /\ video'.segment = video.segment \/ video.segment = 0
               /\ image' = image \/ image' = [image EXCEPT ![video.segment] = "video"]
               /\ video'.segment # video.segment => image' = image
  <1>2. video \in VideoType /\ image \in ImageType /\ Unplaced(video)
    BY DEF LoadInv, LoadShape, VideoUnplaced
  <1> HIDE DEF VideoType, ImageType
  <1>3. video' \in VideoType /\ image' \in ImageType /\ Unplaced(video') /\ KeepsSegment
    <2>1. CASE SelectVideo
      <3>1. PICK s \in Selectors : video' = [video EXCEPT !.at = "open", !.card = CardFor(s)]
        BY <2>1 DEF SelectVideo
      <3>2. video.segment = 0 /\ image' = image
        BY <1>2, <2>1 DEF SelectVideo, VideoAt
      <3>3. CardFor(s) \in {"ega", "mcga"}  BY DEF CardFor
      <3>4. /\ video' \in VideoType /\ video'.segment = video.segment
        BY <1>2, <3>1, <3>2, <3>3 DEF VideoType, VideoStates
      <3> QED  BY <1>2, <3>2, <3>4
    <2>2. CASE VideoExpected
      <3>1. /\ video.at \in DOMAIN VideoEdges /\ image' = image
            /\ video' = [video EXCEPT !.at = VideoEdges[video.at]]
        BY <2>2 DEF VideoExpected
      <3>2. VideoEdges[video.at] \in
              {"seek_end", "allocation", "read", "vector_request", "vector_result"}
        BY <3>1 DEF VideoEdges
      <3>3. VideoEdges[video.at] \in {"seek_end", "allocation"} =>
              video.at \in {"open", "seek_end"}
        BY <3>1 DEF VideoEdges
      <3>4. /\ video' \in VideoType /\ video'.segment = video.segment
            /\ video'.at = VideoEdges[video.at]
        BY <1>2, <3>1, <3>2 DEF VideoType, VideoStates
      <3>5. Unplaced(video')  BY <1>2, <3>2, <3>3, <3>4
      <3>6. image' \in ImageType  BY <1>2, <3>1 DEF ImageType
      <3> QED  BY <3>1, <3>4, <3>5, <3>6
    <2>3. CASE VideoAllocation
      <3>1. PICK s \in Observed : video' = [video EXCEPT !.at = "seek_start", !.segment = s]
        BY <2>3 DEF VideoAllocation
      <3>2. s \in Nat  BY <3>1, ArenaAssumption DEF ArenaAssumption
      <3>3. video.segment = 0 /\ image' = image
        BY <1>2, <2>3 DEF VideoAllocation, VideoAt
      <3>4. video' \in VideoType /\ video'.segment = s /\ video'.at = "seek_start"
        BY <1>2, <3>1 DEF VideoType, VideoStates
      <3>5. image' \in ImageType  BY <1>2, <3>3
      <3> QED  BY <3>2, <3>3, <3>4, <3>5
    <2>4. CASE VideoRead
      <3>1. /\ video' = [video EXCEPT !.at = "close"]
            /\ image' = [image EXCEPT ![video.segment] = "video"]
        BY <2>4 DEF VideoRead
      <3>2. video' \in VideoType /\ video'.segment = video.segment /\ video'.at = "close"
        BY <1>2, <3>1 DEF VideoType, VideoStates
      <3>3. image' \in ImageType  BY <1>2, <3>1 DEF ImageType
      <3> QED  BY <3>1, <3>2, <3>3
    <2>5. CASE VideoVector
      <3>1. image' = image /\ image' \in ImageType  BY <1>2, <2>5 DEF VideoVector
      <3>2. CASE \E c \in BOOLEAN : video' = [video EXCEPT !.at = "vector_seen", !.carry = c]
        <4>1. PICK c \in BOOLEAN : video' = [video EXCEPT !.at = "vector_seen", !.carry = c]
          BY <3>2
        <4>2. /\ video' \in VideoType /\ video'.segment = video.segment
              /\ video'.at = "vector_seen"
          BY <1>2, <4>1 DEF VideoType, VideoStates
        <4> QED  BY <3>1, <4>2
      <3>3. CASE \E s \in Observed : video' = [video EXCEPT !.at = "ivt_seen", !.vector = s]
        <4>1. PICK s \in Observed : video' = [video EXCEPT !.at = "ivt_seen", !.vector = s]
          BY <3>3
        <4>2. s \in Nat  BY <4>1, ArenaAssumption DEF ArenaAssumption
        <4>3. video' \in VideoType /\ video'.segment = video.segment /\ video'.at = "ivt_seen"
          BY <1>2, <4>1, <4>2 DEF VideoType, VideoStates
        <4> QED  BY <3>1, <4>3
      <3> QED  BY <2>5, <3>2, <3>3 DEF VideoVector
    <2> QED  BY <2>1, <2>2, <2>3, <2>4, <2>5 DEF ObserveVideo
  <1> USE DEF VideoType, ImageType
  <1>4. ImagesAreKept'
    <2> DEFINE Lies(s, what, images, v) == images[s] = what \/ v.segment = s
    <2>1. ASSUME NEW s \in LoadSegments, s # 0, NEW what, Lies(s, what, image, video)
          PROVE  Lies(s, what, image', video')
      <3>1. CASE video'.segment # video.segment
        BY <1>3, <2>1, <3>1
      <3>2. CASE video'.segment = video.segment
        BY <1>2, <1>3, <2>1, <3>2
      <3> QED  BY <3>1, <3>2
    <2>2. /\ dos.sound # 0 => dos.sound \in LoadSegments
          /\ dos.child # 0 => dos.child \in LoadSegments
      <3>1. /\ dos.next \in Nat /\ dos.size \in Nat \ {0} /\ dos.sound \in Nat /\ dos.child \in Nat
            /\ ArenaBegin \in Nat \ {0} /\ ArenaEnd \in Nat /\ ChildSize \in Nat \ {0}
        BY ArenaAssumption DEF LoadInv, LoadShape, ArenaAssumption
      <3>2. ArenaIsWhole  BY DEF LoadInv
      <3> QED  BY <3>1, <3>2, SMT DEF ArenaIsWhole, LoadSegments
    <2> QED  BY <1>1, <2>1, <2>2 DEF LoadInv, ImagesAreKept, Overlaid
  <1>5. LoadShape'  BY <1>1, <1>3 DEF LoadInv, LoadShape
  <1>6. LoadOrder' /\ NumbersAgree' /\ TitleHasItsChild'
    BY <1>1 DEF LoadInv, LoadOrder, NumbersAgree, TitleHasItsChild
  <1>7. ArenaIsWhole' /\ IsPublished'
    BY <1>1 DEF LoadInv, ArenaIsWhole, IsPublished
  <1> QED  BY <1>3, <1>4, <1>5, <1>6, <1>7 DEF LoadInv, VideoUnplaced

LEMMA LoadInvNext == LoadInv /\ [LoadStep]_loadVars => LoadInv'
  <1> SUFFICES ASSUME LoadInv, [LoadStep]_loadVars PROVE LoadInv'
    OBVIOUS
  <1>1. CASE SoundCalls
    BY <1>1, SoundObservationsKeep DEF SoundCalls, Passes
  <1>2. CASE TickCalls
    BY <1>2, LoadPassKeeps, ExecPassKeeps DEF TickCalls, PassesAnew, TickRunner
  <1>3. CASE VideoLoadCalls
    BY <1>3, VideoObservationsKeep DEF VideoLoadCalls, Passes
  <1>4. CASE EntryCalls
    BY <1>4, EntryCallsKeep
  <1>5. CASE UNCHANGED loadVars
    BY <1>5 DEF loadVars, LoadInv, LoadShape, LoadOrder, VideoUnplaced, NumbersAgree,
                ArenaIsWhole, ImagesAreKept, Overlaid, TitleHasItsChild, IsPublished
  <1> QED  BY <1>1, <1>2, <1>3, <1>4, <1>5 DEF LoadStep

LEMMA SessionsKeepLoads == LoadInv /\ [SessionsNext]_sessionVars => LoadInv'
  <1>1. [SessionsNext]_sessionVars => [LoadStep]_loadVars
    BY DEF SessionsNext, sessionVars, DosTitleStep, TitleStageStep, MainStageStep,
           AtariSessionStep, GameSessionStep, DriverStep, BootstrapStep, LoaderStep
  <1> QED  BY <1>1, LoadInvNext

(* The load's number is the runner's, what the arena gave out lies apart,  *)
(* the driver and the child stay in the memory but under an observed video *)
(* driver, and a title runs in the child that was loaded                   *)
(* (tick_millennium_dos_compatibility_runner and the observations beside   *)
(* it): for an arena, drivers and a child of any size.                     *)
THEOREM LoadsAreSoundHolds == SessionsSpec => []LoadsAreSound
  <1>1. SessionsInit => LoadInv  BY LoadInvInit DEF SessionsInit
  <1>2. LoadInv => LoadsAreSound  BY DEF LoadInv, IsPublished, LoadsAreSound
  <1> QED  BY <1>1, <1>2, SessionsKeepLoads, PTL DEF SessionsSpec

(* The main stage.  A turn of its loop has its graphics, then its request; *)
(* on the way out of it the resource word is low, and it is one when no    *)
(* caller waits for the resource.                                          *)
LeavingPlaces ==
  {"fade_wait", "first_fade_palette", "second_fade_palette", "fade_buffers", "counter",
   "counter_again", "counter_service", "request_service"}
FadingPlaces == {"fade_wait", "first_fade_palette", "second_fade_palette"}
PreparingPlaces == {"none", "restart", "second_palette", "request"}
ViewPlaces == {"view_selection", "view_call", "view_wait"}

StageGoes(s) ==
  /\ s.phase \notin LoopPhases => s.at = "none" /\ ~s.body
  /\ s.phase \in LoopPhases \union {"awaiting_initial_loop_service_return"} => s.word <= 1
  /\ s.phase = "awaiting_optional_resource_cia" => s.at = "optional_resource"
  /\ s.phase = "awaiting_record_loop" => s.at = "records"

TurnGoes(s) ==
  /\ s.at = "restart" => s.graphics = 0 /\ ~s.body
  /\ s.at = "second_palette" => s.graphics = 1
  /\ s.at \notin {"none", "restart", "second_palette"} => s.graphics = 2
  /\ s.at \notin PreparingPlaces => s.requested

LeavesLow(s) ==
  /\ s.at \in FadingPlaces => s.fade > 0
  /\ s.at \in LeavingPlaces => /\ s.exit # "none"
                               /\ s.exit = "request" /\ s.caller = "none" => s.word = 1
  /\ s.at = "request_service" => s.exit = "request"
  /\ s.at = "resource" => s.caller = "primary" /\ s.word = 0
  /\ s.at \notin {"disk", "resource_done"}

StageOK(s) == s \in Stages /\ StageGoes(s) /\ TurnGoes(s) /\ LeavesLow(s)

StageInv ==
  /\ StageOK(stage)
  /\ frame \in [palette : BOOLEAN, pending : BOOLEAN]
  /\ frame.pending <=> stage.at \in ViewPlaces

LEMMA StartupLeads ==
  ASSUME NEW p, NEW q \in EdgeEnds(StartupEdges, p)
  PROVE  /\ p \notin LoopPhases
         /\ q \in StagePhases
         /\ q \in LoopPhases => p = "awaiting_initial_loop_service_return"
         /\ q \notin {"awaiting_initial_loop_service_return", "awaiting_optional_resource_cia",
                      "awaiting_record_loop"}
<1>1. PICK e \in StartupEdges : e[1] = p /\ e[2] = q
  BY DEF EdgeEnds
<1>2. e[1] \notin LoopPhases /\ (e[2] \in LoopPhases => e[1] = "awaiting_initial_loop_service_return")
      /\ e[2] \notin {"awaiting_initial_loop_service_return", "awaiting_optional_resource_cia",
                      "awaiting_record_loop"}
  BY DEF StartupEdges, EntryEdges, DeviceEdges, LoopEdges, LoopPhases
<1>3. e[2] \in StagePhases
  <2>1. CASE e = <<"awaiting_audio_setup", "awaiting_20994_entry">>
    BY <2>1 DEF StagePhases
  <2>2. CASE e = <<"awaiting_209ca_exec_return", "awaiting_209f0_exec_return">>
    BY <2>2 DEF StagePhases
  <2>3. CASE e = <<"awaiting_cia_a_bit_set", "awaiting_initial_resource_load">>
    BY <2>3 DEF StagePhases
  <2>4. CASE e = <<"awaiting_initial_loop_service_return", "awaiting_loop_prepare_body">>
    BY <2>4 DEF StagePhases, LoopPhases
  <2>5. CASE e \in (EntryEdges \union DeviceEdges)
               \ {<<"awaiting_audio_setup", "awaiting_20994_entry">>,
                  <<"awaiting_209ca_exec_return", "awaiting_209f0_exec_return">>}
    <3>1. Sources(EntryEdges) \union Sources(DeviceEdges) \subseteq StagePhases
      BY DEF StagePhases, Sources, StartupEdges
    <3>2. e[2] \in Sources(EntryEdges) \union Sources(DeviceEdges)
      BY <2>5 DEF Sources, EntryEdges, DeviceEdges
    <3>3. QED
      BY <3>1, <3>2
  <2>6. QED
    BY <2>1, <2>2, <2>3, <2>4, <2>5 DEF StartupEdges, LoopEdges
<1>4. QED
  BY <1>1, <1>2, <1>3

LEMMA HandoffLeads ==
  ASSUME NEW p, NEW q \in EdgeEnds(HandoffEdges, p)
  PROVE  /\ p \notin ViewPlaces \union LeavingPlaces \union PreparingPlaces \union FadingPlaces
         /\ q \in StagePlaces
         /\ q \notin ViewPlaces \union LeavingPlaces \union PreparingPlaces \union FadingPlaces
                     \union {"resource", "disk", "resource_done"}
<1>1. PICK e \in HandoffEdges : e[1] = p /\ e[2] = q
  BY DEF EdgeEnds
<1> DEFINE Away == ViewPlaces \union LeavingPlaces \union PreparingPlaces \union FadingPlaces
                     \union {"resource", "disk", "resource_done"}
<1>2. e[1] \notin Away /\ e[2] \notin Away
  <2>1. CASE e \in Handoff
    BY <2>1 DEF Handoff, ViewPlaces, LeavingPlaces, PreparingPlaces, FadingPlaces
  <2>2. CASE e \in HandoffGraphics
    BY <2>2 DEF HandoffGraphics, ViewPlaces, LeavingPlaces, PreparingPlaces, FadingPlaces
  <2>3. CASE e \in HandoffAuxiliary
    BY <2>3 DEF HandoffAuxiliary, ViewPlaces, LeavingPlaces, PreparingPlaces, FadingPlaces
  <2>4. CASE e \in HandoffLoad
    BY <2>4 DEF HandoffLoad, ViewPlaces, LeavingPlaces, PreparingPlaces, FadingPlaces
  <2>5. QED
    BY <2>1, <2>2, <2>3, <2>4 DEF HandoffEdges
<1>3. e[2] \in StagePlaces
  <2>1. Sources(Handoff) \union Sources(HandoffGraphics) \union Sources(HandoffAuxiliary)
          \union Sources(HandoffLoad) \subseteq StagePlaces
    BY DEF StagePlaces, HandoffEdges, Sources
  <2>2. {"at_12910", "auxiliary", "title_entry"} \subseteq StagePlaces
    BY DEF StagePlaces
  <2>3. CASE e \in Handoff
    <3>1. e[2] \in Sources(Handoff) \union {"at_12910"}
      BY <2>3 DEF Handoff, Sources
    <3>2. QED
      BY <3>1, <2>1, <2>2
  <2>4. CASE e \in HandoffGraphics
    <3>1. e[2] \in Sources(HandoffGraphics) \union Sources(HandoffAuxiliary)
      BY <2>4 DEF HandoffGraphics, HandoffAuxiliary, Sources
    <3>2. QED
      BY <3>1, <2>1, <2>2
  <2>5. CASE e \in HandoffAuxiliary
    <3>1. e[2] \in Sources(HandoffAuxiliary) \union Sources(HandoffLoad) \union {"auxiliary"}
      BY <2>5 DEF HandoffLoad, HandoffAuxiliary, Sources
    <3>2. QED
      BY <3>1, <2>1, <2>2
  <2>6. CASE e \in HandoffLoad
    <3>1. e[2] \in Sources(HandoffLoad) \union {"title_entry"}
      BY <2>6 DEF HandoffLoad, Sources
    <3>2. QED
      BY <3>1, <2>1, <2>2
  <2>7. QED
    BY <2>3, <2>4, <2>5, <2>6 DEF HandoffEdges
<1>4. QED
  BY <1>1, <1>2, <1>3

(* The places and phases the program names by themselves.                  *)
LEMMA StageNames ==
  /\ LoopPhases \union {"awaiting_profile_two_bootstrap", "awaiting_reentry_d0",
        "awaiting_20994_entry", "awaiting_209f0_exec_return", "awaiting_initial_resource_load",
        "terminal_209fa_spin", "awaiting_initial_loop_service_return",
        "awaiting_first_exec_return", "awaiting_2099e_exec_return",
        "awaiting_cia_a_bit_set"} \subseteq StagePhases
  /\ {"none", "restart", "second_palette", "request", "optional_resource", "records",
      "frame_buffer", "first_command_palette", "second_command_palette", "first_fade_palette",
      "second_fade_palette", "view_call", "view_wait", "outer_input", "secondary_input",
      "fade_wait", "release", "counter", "counter_again", "counter_service", "request_service",
      "resource", "disk", "resource_done", "spin_1291a", "at_12a76", "at_13028", "auxiliary",
      "at_12910", "title_entry", "scheduler", "command_resume", "view_selection",
      "palette_command", "fade_buffers", "special", "at_133aa", "at_12a7e", "at_13034",
      "at_13058"} \subseteq StagePlaces
<1>1. {"awaiting_initial_loop_service_return", "awaiting_cia_a_bit_set"} \subseteq Sources(LoopEdges)
  BY DEF Sources, LoopEdges
<1>2. {"awaiting_first_exec_return"} \subseteq Sources(EntryEdges)
  BY DEF Sources, EntryEdges
<1>3. {"awaiting_2099e_exec_return"} \subseteq Sources(DeviceEdges)
  BY DEF Sources, DeviceEdges
<1>4. Sources(LoopEdges) \union Sources(EntryEdges) \union Sources(DeviceEdges) \subseteq StagePhases
  BY DEF StagePhases, StartupEdges, Sources
<1>5. {"special"} \subseteq Sources(Handoff)
  BY DEF Sources, Handoff
<1>6. {"at_133aa"} \subseteq Sources(HandoffAuxiliary)
  BY DEF Sources, HandoffAuxiliary
<1>7. {"at_12a7e"} \subseteq Sources(HandoffLoad)
  BY DEF Sources, HandoffLoad
<1>8. {"at_13034", "at_13058"} \subseteq Sources(HandoffGraphics)
  BY DEF Sources, HandoffGraphics
<1>9. Sources(Handoff) \union Sources(HandoffAuxiliary) \union Sources(HandoffLoad)
        \union Sources(HandoffGraphics) \subseteq StagePlaces
  BY DEF StagePlaces, HandoffEdges, Sources
<1>10. QED
  BY <1>1, <1>2, <1>3, <1>4, <1>5, <1>6, <1>7, <1>8, <1>9 DEF StagePhases, StagePlaces, PlanSteps

LEMMA StartupKeeps ==
  ASSUME NEW s, StageOK(s), NEW t \in Startup(s)
  PROVE  StageOK(t) /\ t.at = s.at
<1> USE StageNames
<1>1. ASSUME NEW p \in EdgeEnds(StartupEdges, s.phase), t = [s EXCEPT !.phase = p]
      PROVE  StageOK(t) /\ t.at = s.at
  <2>1. /\ s.phase \notin LoopPhases
        /\ p \in StagePhases
        /\ p \in LoopPhases => s.phase = "awaiting_initial_loop_service_return"
        /\ p \notin {"awaiting_initial_loop_service_return", "awaiting_optional_resource_cia",
                     "awaiting_record_loop"}
    BY <1>1, StartupLeads
  <2>2. t \in Stages /\ t.at = s.at
    BY <1>1, <2>1 DEF StageOK, Stages
  <2>3. StageGoes(t)
    BY <1>1, <2>1 DEF StageOK, Stages, StageGoes
  <2>4. TurnGoes(t) /\ LeavesLow(t)
    BY <1>1, <2>1 DEF StageOK, Stages, TurnGoes, LeavesLow
  <2>5. QED
    BY <2>2, <2>3, <2>4 DEF StageOK
<1>2. CASE /\ s.phase = "awaiting_reentry_d0"
           /\ \E w \in 0..(WordLimit - 1) :
                t = [s EXCEPT !.phase = "awaiting_first_exec_return", !.word = w]
  BY <1>2 DEF StageOK, Stages, StageGoes, TurnGoes, LeavesLow, LoopPhases, PreparingPlaces,
              FadingPlaces, LeavingPlaces
<1>3. CASE /\ s.phase = "awaiting_209f0_exec_return"
           /\ \E p \in {"terminal_209fa_spin", "awaiting_cia_a_bit_set"} : t = [s EXCEPT !.phase = p]
  BY <1>3 DEF StageOK, Stages, StageGoes, TurnGoes, LeavesLow, LoopPhases, PreparingPlaces,
              FadingPlaces, LeavingPlaces
<1>4. CASE /\ s.phase = "awaiting_initial_resource_load" /\ s.word <= 1
           /\ t = [s EXCEPT !.phase = "awaiting_initial_loop_service_return"]
  BY <1>4 DEF StageOK, Stages, StageGoes, TurnGoes, LeavesLow, LoopPhases, PreparingPlaces,
              FadingPlaces, LeavingPlaces
<1>5. \/ \E p \in EdgeEnds(StartupEdges, s.phase) : t = [s EXCEPT !.phase = p]
      \/ /\ s.phase = "awaiting_reentry_d0"
         /\ \E w \in 0..(WordLimit - 1) :
              t = [s EXCEPT !.phase = "awaiting_first_exec_return", !.word = w]
      \/ /\ s.phase = "awaiting_209f0_exec_return"
         /\ \E p \in {"terminal_209fa_spin", "awaiting_cia_a_bit_set"} : t = [s EXCEPT !.phase = p]
      \/ /\ s.phase = "awaiting_initial_resource_load" /\ s.word <= 1
         /\ t = [s EXCEPT !.phase = "awaiting_initial_loop_service_return"]
  BY DEF Startup
<1>6. QED
  BY <1>1, <1>2, <1>3, <1>4, <1>5

LEMMA EnterBootstrapKeeps ==
  ASSUME NEW s, StageOK(s), NEW t \in EnterBootstrap(s)
  PROVE  StageOK(t) /\ (t.at \in ViewPlaces <=> s.at \in ViewPlaces)
BY StageNames, StageAssumption DEF EnterBootstrap, StageOK, Stages, StageGoes, TurnGoes,
     LeavesLow, LoopPhases, PreparingPlaces,
              FadingPlaces, LeavingPlaces, ViewPlaces

LEMMA EnterAudioServiceKeeps ==
  ASSUME NEW s, StageOK(s), NEW t \in EnterAudioService(s)
  PROVE  StageOK(t) /\ (t.at \in ViewPlaces <=> s.at \in ViewPlaces)
BY StageNames, StageAssumption DEF EnterAudioService, StageOK, Stages, StageGoes, TurnGoes,
     LeavesLow, LoopPhases, PreparingPlaces,
              FadingPlaces, LeavingPlaces, ViewPlaces

LEMMA PrepareBodyKeeps ==
  ASSUME NEW s, StageOK(s), NEW t \in PrepareBody(s)
  PROVE  StageOK(t) /\ (t.at \in ViewPlaces <=> s.at \in ViewPlaces)
<1>1. /\ s.phase \in LoopPhases /\ ~s.body
      /\ \E p \in {s.phase, "awaiting_first_loop_graphics_return"}, a \in {s.at, "none"} :
            /\ t = [s EXCEPT !.body = TRUE, !.phase = p, !.at = a]
            /\ p = IF s.phase = "awaiting_loop_prepare_body"
                   THEN "awaiting_first_loop_graphics_return" ELSE s.phase
            /\ a = IF s.at = "restart" THEN "none" ELSE s.at
  BY DEF PrepareBody, StageOK, Stages
<1>2. t \in Stages
  <2>1. PICK p \in {s.phase, "awaiting_first_loop_graphics_return"}, a \in {s.at, "none"} :
          t = [s EXCEPT !.body = TRUE, !.phase = p, !.at = a]
    BY <1>1
  <2>2. s \in Stages /\ p \in StagePhases /\ a \in StagePlaces
    BY StageNames DEF StageOK, Stages, LoopPhases
  <2>3. QED
    BY <2>1, <2>2 DEF Stages
<1>3. StageGoes(t)
  BY <1>1, StageNames, StageAssumption DEF StageOK, Stages, StageGoes, TurnGoes, LeavesLow,
     LoopPhases, PreparingPlaces, FadingPlaces, LeavingPlaces, ViewPlaces
<1>4. TurnGoes(t)
  BY <1>1, StageNames, StageAssumption DEF StageOK, Stages, StageGoes, TurnGoes, LeavesLow,
     LoopPhases, PreparingPlaces, FadingPlaces, LeavingPlaces, ViewPlaces
<1>5. LeavesLow(t)
  BY <1>1, StageNames, StageAssumption DEF StageOK, Stages, StageGoes, TurnGoes, LeavesLow,
     LoopPhases, PreparingPlaces, FadingPlaces, LeavingPlaces, ViewPlaces
<1>6. t.at \in ViewPlaces <=> s.at \in ViewPlaces
  BY <1>1, StageNames, StageAssumption DEF StageOK, Stages, StageGoes, TurnGoes, LeavesLow,
     LoopPhases, PreparingPlaces, FadingPlaces, LeavingPlaces, ViewPlaces
<1>7. QED
  BY <1>2, <1>3, <1>4, <1>5, <1>6 DEF StageOK

LEMMA PrepareReturnKeeps ==
  ASSUME NEW s, StageOK(s), NEW t \in PrepareReturn(s)
  PROVE  StageOK(t) /\ (t.at \in ViewPlaces <=> s.at \in ViewPlaces)
BY StageNames, StageAssumption DEF PrepareReturn, StageOK, Stages, StageGoes, TurnGoes,
     LeavesLow, LoopPhases, PreparingPlaces,
              FadingPlaces, LeavingPlaces, ViewPlaces

LEMMA SchedulerReturnKeeps ==
  ASSUME NEW s, StageOK(s), NEW t \in SchedulerReturn(s)
  PROVE  StageOK(t) /\ (t.at \in ViewPlaces <=> s.at \in ViewPlaces)
BY StageNames, StageAssumption DEF SchedulerReturn, StageOK, Stages, StageGoes, TurnGoes,
     LeavesLow, LoopPhases, PreparingPlaces,
              FadingPlaces, LeavingPlaces, ViewPlaces

LEMMA RequestReturnKeeps ==
  ASSUME NEW s, StageOK(s), NEW t \in RequestReturn(s)
  PROVE  StageOK(t) /\ (t.at \in ViewPlaces <=> s.at \in ViewPlaces)
<1>1. /\ s.at # "none" /\ s.graphics = 2 /\ ~s.requested
      /\ s.phase \in {"awaiting_loop_request_service", "loop_runtime_active"}
      /\ \/ t = [s EXCEPT !.requested = TRUE, !.at = "optional_resource",
                         !.phase = "awaiting_optional_resource_cia"]
         \/ t = [s EXCEPT !.requested = TRUE, !.at = "records", !.phase = "awaiting_record_loop"]
  BY DEF RequestReturn
<1>2. t \in Stages
  BY <1>1, StageNames, StageAssumption DEF StageOK, Stages, StageGoes, TurnGoes, LeavesLow,
     LoopPhases, PreparingPlaces, FadingPlaces, LeavingPlaces, ViewPlaces
<1>3. StageGoes(t)
  BY <1>1, StageNames, StageAssumption DEF StageOK, Stages, StageGoes, TurnGoes, LeavesLow,
     LoopPhases, PreparingPlaces, FadingPlaces, LeavingPlaces, ViewPlaces
<1>4. TurnGoes(t)
  BY <1>1, StageNames, StageAssumption DEF StageOK, Stages, StageGoes, TurnGoes, LeavesLow,
     LoopPhases, PreparingPlaces, FadingPlaces, LeavingPlaces, ViewPlaces
<1>5. LeavesLow(t)
  BY <1>1, StageNames, StageAssumption DEF StageOK, Stages, StageGoes, TurnGoes, LeavesLow,
     LoopPhases, PreparingPlaces, FadingPlaces, LeavingPlaces, ViewPlaces
<1>6. t.at \in ViewPlaces <=> s.at \in ViewPlaces
  BY <1>1, StageNames, StageAssumption DEF StageOK, Stages, StageGoes, TurnGoes, LeavesLow,
     LoopPhases, PreparingPlaces, FadingPlaces, LeavingPlaces, ViewPlaces
<1>7. QED
  BY <1>2, <1>3, <1>4, <1>5, <1>6 DEF StageOK

LEMMA OptionalResourceKeeps ==
  ASSUME NEW s, StageOK(s), NEW t \in OptionalResource(s)
  PROVE  StageOK(t) /\ (t.at \in ViewPlaces <=> s.at \in ViewPlaces)
<1>1. /\ s.phase = "awaiting_optional_resource_cia"
      /\ t = [s EXCEPT !.at = "records", !.phase = "awaiting_record_loop"]
  BY DEF OptionalResource
<1>2. t \in Stages
  BY <1>1, StageNames, StageAssumption DEF StageOK, Stages, StageGoes, TurnGoes, LeavesLow,
     LoopPhases, PreparingPlaces, FadingPlaces, LeavingPlaces, ViewPlaces
<1>3. StageGoes(t)
  BY <1>1, StageNames, StageAssumption DEF StageOK, Stages, StageGoes, TurnGoes, LeavesLow,
     LoopPhases, PreparingPlaces, FadingPlaces, LeavingPlaces, ViewPlaces
<1>4. TurnGoes(t)
  BY <1>1, StageNames, StageAssumption DEF StageOK, Stages, StageGoes, TurnGoes, LeavesLow,
     LoopPhases, PreparingPlaces, FadingPlaces, LeavingPlaces, ViewPlaces
<1>5. LeavesLow(t)
  BY <1>1, StageNames, StageAssumption DEF StageOK, Stages, StageGoes, TurnGoes, LeavesLow,
     LoopPhases, PreparingPlaces, FadingPlaces, LeavingPlaces, ViewPlaces
<1>6. t.at \in ViewPlaces <=> s.at \in ViewPlaces
  BY <1>1, StageNames, StageAssumption DEF StageOK, Stages, StageGoes, TurnGoes, LeavesLow,
     LoopPhases, PreparingPlaces, FadingPlaces, LeavingPlaces, ViewPlaces
<1>7. QED
  BY <1>2, <1>3, <1>4, <1>5, <1>6 DEF StageOK

LEMMA RecordLoopKeeps ==
  ASSUME NEW s, StageOK(s), NEW t \in RecordLoop(s)
  PROVE  StageOK(t) /\ (t.at \in ViewPlaces <=> s.at \in ViewPlaces)
<1>1. /\ s.requested /\ s.at = "records" /\ s.phase = "awaiting_record_loop"
      /\ t = [s EXCEPT !.at = "scheduler", !.phase = "loop_runtime_active"]
  BY DEF RecordLoop
<1>2. t \in Stages
  BY <1>1, StageNames, StageAssumption DEF StageOK, Stages, StageGoes, TurnGoes, LeavesLow,
     LoopPhases, PreparingPlaces, FadingPlaces, LeavingPlaces, ViewPlaces
<1>3. StageGoes(t)
  BY <1>1, StageNames, StageAssumption DEF StageOK, Stages, StageGoes, TurnGoes, LeavesLow,
     LoopPhases, PreparingPlaces, FadingPlaces, LeavingPlaces, ViewPlaces
<1>4. TurnGoes(t)
  BY <1>1, StageNames, StageAssumption DEF StageOK, Stages, StageGoes, TurnGoes, LeavesLow,
     LoopPhases, PreparingPlaces, FadingPlaces, LeavingPlaces, ViewPlaces
<1>5. LeavesLow(t)
  BY <1>1, StageNames, StageAssumption DEF StageOK, Stages, StageGoes, TurnGoes, LeavesLow,
     LoopPhases, PreparingPlaces, FadingPlaces, LeavingPlaces, ViewPlaces
<1>6. t.at \in ViewPlaces <=> s.at \in ViewPlaces
  BY <1>1, StageNames, StageAssumption DEF StageOK, Stages, StageGoes, TurnGoes, LeavesLow,
     LoopPhases, PreparingPlaces, FadingPlaces, LeavingPlaces, ViewPlaces
<1>7. QED
  BY <1>2, <1>3, <1>4, <1>5, <1>6 DEF StageOK

LEMMA SchedulerPassKeeps ==
  ASSUME NEW s, StageOK(s), NEW t \in SchedulerPass(s)
  PROVE  StageOK(t) /\ (t.at \in ViewPlaces <=> s.at \in ViewPlaces)
<1>1. /\ s.at \in {"scheduler", "command_resume"}
      /\ \/ t = [s EXCEPT !.at = "frame_buffer", !.budget = 0]
         \/ \E b \in 0..(CommandBudget - 1) : t = [s EXCEPT !.at = "palette_command", !.budget = b]
  <2> DEFINE left == IF s.at = "scheduler" THEN CommandBudget ELSE s.budget
  <2>1. left \in 0..CommandBudget
    BY StageAssumption DEF StageOK, Stages
  <2>2. /\ s.at \in {"scheduler", "command_resume"}
        /\ \/ t = [s EXCEPT !.at = "frame_buffer", !.budget = 0]
           \/ \E b \in 0..(left - 1) : t = [s EXCEPT !.at = "palette_command", !.budget = b]
    BY DEF SchedulerPass
  <2> HIDE DEF left
  <2>3. 0..(left - 1) \subseteq 0..(CommandBudget - 1)
    BY <2>1, StageAssumption
  <2>4. QED
    BY <2>2, <2>3
<1>2. t \in Stages
  <2>1. s \in Stages /\ 0 \in 0..(CommandBudget - 1)
    BY StageAssumption DEF StageOK
  <2>2. CASE t = [s EXCEPT !.at = "frame_buffer", !.budget = 0]
    BY <2>1, <2>2, StageNames DEF Stages
  <2>3. ASSUME NEW b \in 0..(CommandBudget - 1), t = [s EXCEPT !.at = "palette_command", !.budget = b]
        PROVE  t \in Stages
    BY <2>1, <2>3, StageNames DEF Stages
  <2>4. QED
    BY <1>1, <2>2, <2>3
<1>3. StageGoes(t)
  BY <1>1, StageNames, StageAssumption DEF StageOK, Stages, StageGoes, TurnGoes, LeavesLow,
     LoopPhases, PreparingPlaces, FadingPlaces, LeavingPlaces, ViewPlaces
<1>4. TurnGoes(t)
  BY <1>1, StageNames, StageAssumption DEF StageOK, Stages, StageGoes, TurnGoes, LeavesLow,
     LoopPhases, PreparingPlaces, FadingPlaces, LeavingPlaces, ViewPlaces
<1>5. LeavesLow(t)
  BY <1>1, StageNames, StageAssumption DEF StageOK, Stages, StageGoes, TurnGoes, LeavesLow,
     LoopPhases, PreparingPlaces, FadingPlaces, LeavingPlaces, ViewPlaces
<1>6. t.at \in ViewPlaces <=> s.at \in ViewPlaces
  BY <1>1, StageNames, StageAssumption DEF StageOK, Stages, StageGoes, TurnGoes, LeavesLow,
     LoopPhases, PreparingPlaces, FadingPlaces, LeavingPlaces, ViewPlaces
<1>7. QED
  BY <1>2, <1>3, <1>4, <1>5, <1>6 DEF StageOK

LEMMA CommandPaletteKeeps ==
  ASSUME NEW s, StageOK(s), NEW t \in CommandPalette(s)
  PROVE  StageOK(t) /\ (t.at \in ViewPlaces <=> s.at \in ViewPlaces)
BY StageNames, StageAssumption DEF CommandPalette, StageOK, Stages, StageGoes, TurnGoes,
     LeavesLow, LoopPhases, PreparingPlaces,
              FadingPlaces, LeavingPlaces, ViewPlaces

LEMMA ViewSelectionKeeps ==
  ASSUME NEW s, StageOK(s), NEW t \in ViewSelection(s)
  PROVE  StageOK(t) /\ (t.at \in ViewPlaces <=> s.at \in ViewPlaces)
BY StageNames, StageAssumption DEF ViewSelection, StageOK, Stages, StageGoes, TurnGoes,
     LeavesLow, LoopPhases, PreparingPlaces,
              FadingPlaces, LeavingPlaces, ViewPlaces

LEMMA FadeBuffersKeeps ==
  ASSUME NEW s, StageOK(s), NEW t \in FadeBuffers(s)
  PROVE  StageOK(t) /\ (t.at \in ViewPlaces <=> s.at \in ViewPlaces)
BY StageNames, StageAssumption DEF FadeBuffers, StageOK, Stages, StageGoes, TurnGoes,
     LeavesLow, LoopPhases, PreparingPlaces,
              FadingPlaces, LeavingPlaces, ViewPlaces

LEMMA CounterKeeps ==
  ASSUME NEW s, StageOK(s), NEW t \in Counter(s)
  PROVE  StageOK(t) /\ (t.at \in ViewPlaces <=> s.at \in ViewPlaces)
BY StageNames, StageAssumption DEF Counter, StageOK, Stages, StageGoes, TurnGoes, LeavesLow,
     LoopPhases, PreparingPlaces,
              FadingPlaces, LeavingPlaces, ViewPlaces

LEMMA AuxiliaryLocalPathKeeps ==
  ASSUME NEW s, StageOK(s), NEW t \in AuxiliaryLocalPath(s)
  PROVE  StageOK(t) /\ (t.at \in ViewPlaces <=> s.at \in ViewPlaces)
BY StageNames, StageAssumption DEF AuxiliaryLocalPath, StageOK, Stages, StageGoes, TurnGoes,
     LeavesLow, LoopPhases, PreparingPlaces,
              FadingPlaces, LeavingPlaces, ViewPlaces

LEMMA FrameBufferKeeps ==
  ASSUME NEW s, StageOK(s), NEW t \in FrameBuffer(s)
  PROVE  StageOK(t) /\ t.at \in ViewPlaces /\ s.at \notin ViewPlaces
BY StageNames, StageAssumption DEF FrameBuffer, StageOK, Stages, StageGoes, TurnGoes,
     LeavesLow, LoopPhases, PreparingPlaces,
              FadingPlaces, LeavingPlaces, ViewPlaces

LEMMA ViewWaitKeeps ==
  ASSUME NEW s, StageOK(s), NEW t \in ViewWait(s)
  PROVE  StageOK(t) /\ s.at \in ViewPlaces /\ (t.at \in ViewPlaces <=> t.at = "view_wait")
<1>1. CASE s.at \in {"view_call", "view_wait"} /\ t = [s EXCEPT !.at = "view_wait"]
  BY <1>1, StageNames DEF StageOK, Stages, StageGoes, TurnGoes, LeavesLow, LoopPhases,
     PreparingPlaces, FadingPlaces, LeavingPlaces, ViewPlaces
<1>2. CASE /\ s.at \in {"view_call", "view_wait"}
           /\ \E a \in {"scheduler", "outer_input"} : t = [s EXCEPT !.at = a, !.first = FALSE]
  <2>1. PICK a \in {"scheduler", "outer_input"} : t = [s EXCEPT !.at = a, !.first = FALSE]
    BY <1>2
  <2>2. t \in Stages
    BY <2>1, StageNames DEF StageOK, Stages
  <2>3. StageGoes(t) /\ TurnGoes(t)
    BY <1>2, <2>1 DEF StageOK, Stages, StageGoes, TurnGoes, PreparingPlaces
  <2>4. LeavesLow(t)
    BY <1>2, <2>1 DEF StageOK, Stages, LeavesLow, FadingPlaces, LeavingPlaces
  <2>5. QED
    BY <1>2, <2>1, <2>2, <2>3, <2>4 DEF StageOK, Stages, ViewPlaces
<1>3. QED
  BY <1>1, <1>2 DEF ViewWait, ViewLoaded

LEMMA GraphicsReturnKeeps ==
  ASSUME NEW s, StageOK(s), NEW t \in GraphicsReturn(s)
  PROVE  StageOK(t) /\ (t.at \in ViewPlaces <=> s.at \in ViewPlaces)
<1> DEFINE next(p) == [s EXCEPT !.graphics = s.graphics + 1, !.phase = p,
                                !.at = IF s.graphics = 0 THEN "second_palette" ELSE "request"]
<1>1. PICK p : /\ s.body /\ ~(s.graphics >= 2)
               /\ p = s.phase \/ p \in EdgeEnds(GraphicsPhases, s.phase)
               /\ t = next(p)
  BY DEF GraphicsReturn
<1>2. p = s.phase \/ p \in {"awaiting_second_loop_graphics_return", "awaiting_loop_request_service"}
  BY <1>1 DEF EdgeEnds, GraphicsPhases
<1>3. s.at \in {"none", "second_palette"} /\ s.phase \in LoopPhases \ {"awaiting_optional_resource_cia", "awaiting_record_loop"}
  BY <1>1 DEF StageOK, Stages, StageGoes, TurnGoes
<1>4. PICK g \in 1..2, a \in {"second_palette", "request"} :
        /\ t = [s EXCEPT !.graphics = g, !.phase = p, !.at = a]
        /\ a = "second_palette" <=> g = 1
  <2>1. s.graphics \in 0..1
    BY <1>1 DEF StageOK, Stages
  <2>2. CASE s.graphics = 0
    <3>1. t = [s EXCEPT !.graphics = 1, !.phase = p, !.at = "second_palette"]
      BY <2>2, <1>1
    <3>2. QED
      BY <3>1
  <2>3. CASE s.graphics = 1
    <3>1. t = [s EXCEPT !.graphics = 2, !.phase = p, !.at = "request"]
      BY <2>3, <1>1
    <3>2. QED
      BY <3>1
  <2>4. QED
    BY <2>1, <2>2, <2>3
<1>5. s \in Stages /\ p \in LoopPhases /\ p \in StagePhases /\ a \in StagePlaces
  BY <1>2, <1>3, StageNames DEF StageOK, LoopPhases
<1>6. t \in Stages
  <2>1. [s EXCEPT !.graphics = g] \in Stages
    BY <1>5 DEF Stages
  <2> DEFINE u == [s EXCEPT !.graphics = g]
  <2>2. t = [u EXCEPT !.phase = p, !.at = a]
    BY <1>4, <1>5 DEF Stages
  <2> HIDE DEF u
  <2>3. QED
    BY <2>1, <2>2, <1>5 DEF u, Stages
<1>7. StageGoes(t)
  BY <1>2, <1>3, <1>4, <1>5 DEF StageOK, Stages, StageGoes
<1>8. TurnGoes(t) /\ LeavesLow(t)
  BY <1>4, <1>5 DEF StageOK, Stages, TurnGoes, LeavesLow, PreparingPlaces, FadingPlaces,
       LeavingPlaces
<1>9. QED
  BY <1>3, <1>4, <1>5, <1>6, <1>7, <1>8 DEF StageOK, Stages, ViewPlaces

LEMMA PaletteReturnKeeps ==
  ASSUME NEW s, StageOK(s), NEW t \in PaletteReturn(s)
  PROVE  StageOK(t) /\ (t.at \in ViewPlaces <=> s.at \in ViewPlaces)
<1>1. CASE \/ s.at = "first_command_palette" /\ t = [s EXCEPT !.at = "second_command_palette"]
           \/ s.at = "second_command_palette" /\ t = [s EXCEPT !.at = "command_resume"]
           \/ s.at = "first_fade_palette" /\ t = [s EXCEPT !.at = "second_fade_palette"]
  BY <1>1, StageNames DEF StageOK, Stages, StageGoes, TurnGoes, LeavesLow, LoopPhases,
     PreparingPlaces, FadingPlaces, LeavingPlaces, ViewPlaces
<1>2. CASE /\ s.at = "second_fade_palette"
           /\ t = [s EXCEPT !.fade = @ - 1,
                            !.at = IF s.fade = 1 THEN "fade_buffers" ELSE "fade_wait"]
  <2>1. s.fade \in 1..FadeSteps
    BY <1>2, StageAssumption DEF StageOK, Stages, LeavesLow, FadingPlaces
  <2>2. PICK f \in 0..FadeSteps, a \in {"fade_buffers", "fade_wait"} :
          /\ t = [s EXCEPT !.fade = f, !.at = a]
          /\ a = "fade_wait" => f > 0
    <3>1. CASE s.fade = 1
      <4>1. t = [s EXCEPT !.fade = 0, !.at = "fade_buffers"]
        BY <1>2, <3>1
      <4>2. 0 \in 0..FadeSteps
        BY StageAssumption
      <4>3. QED
        BY <4>1, <4>2
    <3>2. CASE s.fade # 1
      <4> DEFINE f == s.fade - 1
      <4>1. f \in 0..FadeSteps /\ f > 0
        BY <2>1, <3>2, StageAssumption
      <4>2. t = [s EXCEPT !.fade = f, !.at = "fade_wait"]
        BY <1>2, <3>2
      <4> HIDE DEF f
      <4>3. QED
        BY <4>1, <4>2
    <3>3. QED
      BY <3>1, <3>2
  <2>3. t \in Stages
    BY <2>2, StageNames DEF StageOK, Stages
  <2>4. StageGoes(t) /\ TurnGoes(t)
    BY <1>2, <2>2 DEF StageOK, Stages, StageGoes, TurnGoes, PreparingPlaces
  <2>5. LeavesLow(t)
    BY <1>2, <2>2 DEF StageOK, Stages, LeavesLow, FadingPlaces, LeavingPlaces
  <2>6. QED
    BY <1>2, <2>2, <2>3, <2>4, <2>5 DEF StageOK, Stages, ViewPlaces
<1>3. QED
  BY <1>1, <1>2 DEF PaletteReturn

(* The ends of a turn: whoever leaves it does so to the fade or to the     *)
(* counter, with the word low and a caller or one.                         *)
LEMMA TransitionKeeps ==
  ASSUME NEW s, StageOK(s), s.at \in {"outer_input", "secondary_input"},
         NEW exit \in {"request", "restart"}, NEW from \in {"none", "primary"},
         exit = "request" /\ from = "none" => s.word = 1,
         NEW t \in Transition(s, exit, from)
  PROVE  StageOK(t) /\ t.at \notin ViewPlaces
<1>1. PICK a \in {"fade_wait", "counter"}, f \in {s.fade, FadeSteps} :
        /\ t = [s EXCEPT !.exit = exit, !.caller = from, !.at = a, !.fade = f]
        /\ a = "fade_wait" => f > 0
  <2>1. CASE t = [s EXCEPT !.exit = exit, !.caller = from, !.at = "fade_wait", !.fade = FadeSteps]
    BY <2>1, StageAssumption
  <2>2. CASE t = [s EXCEPT !.exit = exit, !.caller = from, !.at = "counter"]
    <3>1. t = [s EXCEPT !.exit = exit, !.caller = from, !.at = "counter", !.fade = s.fade]
      BY <2>2 DEF StageOK, Stages
    <3>2. QED
      BY <3>1
  <2>3. QED
    BY <2>1, <2>2 DEF Transition
<1>2. t \in Stages
  <2> DEFINE u == [s EXCEPT !.exit = exit, !.caller = from]
  <2>1. u \in Stages
    BY DEF StageOK, Stages
  <2>2. t = [u EXCEPT !.at = a, !.fade = f]
    BY <1>1 DEF StageOK, Stages
  <2>3. a \in StagePlaces /\ f \in 0..FadeSteps
    BY StageNames, StageAssumption DEF StageOK, Stages
  <2> HIDE DEF u
  <2>4. QED
    BY <2>1, <2>2, <2>3 DEF Stages
<1>3. StageGoes(t) /\ TurnGoes(t)
  BY <1>1 DEF StageOK, Stages, StageGoes, TurnGoes, PreparingPlaces
<1>4. LeavesLow(t)
  BY <1>1 DEF StageOK, Stages, LeavesLow, FadingPlaces, LeavingPlaces
<1>5. QED
  BY <1>1, <1>2, <1>3, <1>4 DEF StageOK, Stages, ViewPlaces

(* The loop begins again from a turn that had no phase left to wait in.    *)
LEMMA StageOKRestarts ==
  ASSUME NEW s, StageOK(s), s.at \in {"release", "resource"}
  PROVE  /\ StageOK(Restarted(s)) /\ Restarted(s).at = "restart"
         /\ Restarted(s).phase = s.phase /\ Restarted(s).word = s.word
<1> DEFINE r == Restarted(s)
<1>1. /\ r.phase = s.phase /\ r.at = "restart" /\ r.body = FALSE /\ r.graphics = 0
      /\ r.word = s.word
  BY DEF Restarted, StageOK, Stages
<1>2. r \in Stages
  <2> DEFINE u == [s EXCEPT !.at = "restart", !.body = FALSE, !.graphics = 0]
  <2> DEFINE v == [u EXCEPT !.requested = FALSE, !.opaque = "none", !.first = TRUE]
  <2>1. u \in Stages
    <3>1. s \in Stages /\ "restart" \in StagePlaces
      BY StageNames DEF StageOK
    <3> DEFINE w == [s EXCEPT !.at = "restart"]
    <3>2. w \in Stages
      BY <3>1 DEF Stages
    <3>3. u = [w EXCEPT !.body = FALSE, !.graphics = 0]
      BY <3>1 DEF Stages
    <3> HIDE DEF u, w
    <3>4. 0 \in 0..2 /\ FALSE \in BOOLEAN
      OBVIOUS
    <3>5. QED
      BY <3>2, <3>3, <3>4 DEF Stages
  <2>2. r = [v EXCEPT !.caller = "none", !.exit = "none"]
    BY DEF Restarted, StageOK, Stages
  <2> HIDE DEF r, u
  <2>3. v \in Stages
    BY <2>1 DEF Stages
  <2> HIDE DEF v
  <2>4. QED
    BY <2>2, <2>3 DEF Stages
<1>3. s.phase \in LoopPhases
      /\ s.phase \notin {"awaiting_optional_resource_cia", "awaiting_record_loop"}
  BY DEF StageOK, StageGoes
<1> HIDE DEF r
<1>4. StageGoes(r) /\ TurnGoes(r) /\ LeavesLow(r)
  BY <1>1, <1>3 DEF StageOK, StageGoes, TurnGoes, LeavesLow, PreparingPlaces, FadingPlaces,
     LeavingPlaces
<1>5. QED
  BY <1>1, <1>2, <1>4 DEF r, StageOK

LEMMA OuterInputKeeps ==
  ASSUME NEW s, StageOK(s), NEW t \in OuterInput(s)
  PROVE  StageOK(t) /\ (t.at \in ViewPlaces <=> s.at \in ViewPlaces)
<1>1. CASE s.at = "outer_input" /\ t \in PrimaryInput(s)
  <2>1. CASE t \in Transition(s, "request", "primary") \union Transition(s, "restart", "none")
    BY <1>1, <2>1, TransitionKeeps DEF ViewPlaces
  <2>2. CASE t = [s EXCEPT !.at = "secondary_input", !.caller = "none"]
    BY <1>1, <2>2, StageNames DEF StageOK, Stages, StageGoes, TurnGoes, LeavesLow, LoopPhases,
       PreparingPlaces, FadingPlaces, LeavingPlaces, ViewPlaces
  <2>3. QED
    BY <1>1, <2>1, <2>2 DEF PrimaryInput
<1>2. CASE s.at = "secondary_input" /\ t \in SecondaryInput(s)
  <2> DEFINE u == [s EXCEPT !.word = IF @ % 256 < 2 THEN 1 ELSE @]
  <2>1. t.at # "idle_2181c"
    BY <1>2 DEF SecondaryInput
  <2>2. CASE s.word % 256 > 2 /\ t = [s EXCEPT !.at = "scheduler", !.caller = "none"]
    BY <1>2, <2>2, StageNames DEF StageOK, Stages, StageGoes, TurnGoes, LeavesLow, LoopPhases,
       PreparingPlaces, FadingPlaces, LeavingPlaces, ViewPlaces
  <2>3. CASE t \in Transition(u, "request", "none")
    <3>1. s \in Stages /\ s.word \in 0..1
      <4>1. s.phase \in LoopPhases
        BY <1>2 DEF StageOK, StageGoes
      <4>2. QED
        BY <4>1 DEF StageOK, StageGoes, Stages
    <3>2. s.word % 256 < 2
      BY <3>1
    <3>3. u = [s EXCEPT !.word = 1]
      BY <3>2
    <3>4. 1 \in 0..(WordLimit - 1)
      BY StageAssumption
    <3> HIDE DEF u
    <3>5. u \in Stages /\ u.word = 1 /\ u.at = s.at
      BY <3>1, <3>3, <3>4 DEF Stages
    <3>6. StageOK(u)
      BY <1>2, <3>1, <3>3, <3>5 DEF StageOK, Stages, StageGoes, TurnGoes, LeavesLow,
         PreparingPlaces, FadingPlaces, LeavingPlaces
    <3>7. QED
      BY <1>2, <2>3, <3>5, <3>6, TransitionKeeps DEF ViewPlaces
  <2>4. t \notin IdleRoute(s)
    BY <2>1 DEF IdleRoute, StageOK, Stages
  <2>5. QED
    BY <1>2, <2>2, <2>3, <2>4 DEF SecondaryInput, TransitionRoute
<1>3. CASE s.at = "fade_wait" /\ t \in {s, [s EXCEPT !.at = "first_fade_palette"]}
  BY <1>3, StageNames DEF StageOK, Stages, StageGoes, TurnGoes, LeavesLow, LoopPhases,
     PreparingPlaces, FadingPlaces, LeavingPlaces, ViewPlaces
<1>4. CASE s.at = "release" /\ t \in {s, Restarted(s)}
  <2>1. CASE t = s
    BY <2>1
  <2>2. CASE t = Restarted(s)
    BY <1>4, <2>2, StageOKRestarts DEF ViewPlaces
  <2>3. QED
    BY <1>4, <2>1, <2>2
<1>5. QED
  BY <1>1, <1>2, <1>3, <1>4 DEF OuterInput

(* The next resource word after one and after none, of a word this wide.   *)
LEMMA SelectorOf ==
  ASSUME NEW s, s \in Stages, s.word \in 0..1
  PROVE  Selector(s) = s.word + 1
<1>1. CASE s.word = 0
  <2>1. 1 % WordLimit = 1
    BY StageAssumption
  <2>2. QED
    BY <1>1, <2>1 DEF Selector
<1>2. CASE s.word = 1
  <2>1. 2 % WordLimit = 2
    BY StageAssumption
  <2>2. QED
    BY <1>2, <2>1 DEF Selector
<1>3. QED
  BY <1>1, <1>2

LEMMA OuterServiceKeeps ==
  ASSUME NEW s, StageOK(s), NEW t \in OuterService(s)
  PROVE  StageOK(t) /\ (t.at \in ViewPlaces <=> s.at \in ViewPlaces)
<1>1. ASSUME NEW a \in EdgeEnds(HandoffEdges, s.at), t = [s EXCEPT !.at = a]
      PROVE  StageOK(t) /\ (t.at \in ViewPlaces <=> s.at \in ViewPlaces)
  <2>1. /\ s.at \notin ViewPlaces \union LeavingPlaces \union PreparingPlaces \union FadingPlaces
        /\ a \in StagePlaces
        /\ a \notin ViewPlaces \union LeavingPlaces \union PreparingPlaces \union FadingPlaces
                    \union {"resource", "disk", "resource_done"}
    BY <1>1, HandoffLeads
  <2>2. s \in Stages /\ t \in Stages
    BY <1>1, <2>1 DEF StageOK, Stages
  <2>3. s.phase \notin {"awaiting_optional_resource_cia", "awaiting_record_loop"}
    <3>1. \A b \in {"optional_resource", "records"} : EdgeEnds(HandoffEdges, b) = {}
      BY DEF EdgeEnds, HandoffEdges, Handoff, HandoffGraphics, HandoffAuxiliary, HandoffLoad
    <3>2. QED
      BY <3>1, <1>1 DEF StageOK, StageGoes
  <2>4. StageGoes(t)
    BY <1>1, <2>1, <2>2, <2>3 DEF StageOK, Stages, StageGoes, PreparingPlaces
  <2>5. TurnGoes(t)
    BY <1>1, <2>1, <2>2 DEF StageOK, Stages, TurnGoes, PreparingPlaces
  <2>6. LeavesLow(t)
    BY <1>1, <2>1, <2>2 DEF StageOK, Stages, LeavesLow, FadingPlaces, LeavingPlaces
  <2>7. QED
    BY <1>1, <2>1, <2>2, <2>4, <2>5, <2>6 DEF StageOK, Stages
<1>2. CASE \/ s.at = "at_12910" /\ \E a \in {"spin_1291a", "at_12a7e", "at_12a76"} : t = [s EXCEPT !.at = a]
           \/ s.at = "at_12a76" /\ t = [s EXCEPT !.at = "at_13028"]
           \/ s.at = "at_13028" /\ \E a \in {"at_13034", "at_13058"} : t = [s EXCEPT !.at = a]
  BY <1>2, StageNames DEF StageOK, Stages, StageGoes, TurnGoes, LeavesLow, LoopPhases,
     PreparingPlaces, FadingPlaces, LeavingPlaces, ViewPlaces
<1>3. CASE /\ s.at = "counter_service"
           /\ t = [s EXCEPT !.at = IF s.exit = "restart" THEN "release" ELSE "request_service"]
  <2>1. s.exit \in {"restart", "request"}
    BY <1>3 DEF StageOK, Stages, LeavesLow, LeavingPlaces
  <2>2. CASE s.exit = "restart" /\ t = [s EXCEPT !.at = "release"]
    BY <1>3, <2>2, StageNames DEF StageOK, Stages, StageGoes, TurnGoes, LeavesLow, LoopPhases,
       PreparingPlaces, FadingPlaces, LeavingPlaces, ViewPlaces
  <2>3. CASE s.exit = "request" /\ t = [s EXCEPT !.at = "request_service"]
    BY <1>3, <2>3, StageNames DEF StageOK, Stages, StageGoes, TurnGoes, LeavesLow, LoopPhases,
       PreparingPlaces, FadingPlaces, LeavingPlaces, ViewPlaces
  <2>4. QED
    BY <1>3, <2>1, <2>2, <2>3
<1>4. CASE s.at = "request_service" /\ t = [s EXCEPT !.at = Selected(s)]
  <2>1. s \in Stages /\ s.phase \in LoopPhases
        /\ s.phase \notin {"awaiting_optional_resource_cia", "awaiting_record_loop"}
    BY <1>4 DEF StageOK, StageGoes
  <2>2. s.word \in 0..1 /\ (s.caller = "none" => s.word = 1)
    BY <1>4, <2>1 DEF StageOK, Stages, StageGoes, LeavesLow, LeavingPlaces
  <2>3. \/ s.word = 0 /\ s.caller = "primary" /\ Selected(s) = "resource"
        \/ s.word = 1 /\ Selected(s) = "special"
    BY <2>1, <2>2, SelectorOf DEF Selected, Stages
  <2>4. CASE s.word = 0 /\ s.caller = "primary" /\ t = [s EXCEPT !.at = "resource"]
    BY <1>4, <2>1, <2>4, StageNames DEF StageOK, Stages, StageGoes, TurnGoes, LeavesLow,
       PreparingPlaces, FadingPlaces, LeavingPlaces, ViewPlaces
  <2>5. CASE t = [s EXCEPT !.at = "special"]
    BY <1>4, <2>1, <2>5, StageNames DEF StageOK, Stages, StageGoes, TurnGoes, LeavesLow,
       PreparingPlaces, FadingPlaces, LeavingPlaces, ViewPlaces
  <2>6. QED
    BY <1>4, <2>3, <2>4, <2>5
<1>5. QED
  BY <1>1, <1>2, <1>3, <1>4 DEF OuterService

LEMMA RecurringResourceKeeps ==
  ASSUME NEW s, StageOK(s), NEW t \in RecurringResource(s)
  PROVE  StageOK(t) /\ (t.at \in ViewPlaces <=> s.at \in ViewPlaces)
<1> DEFINE r == Restarted(s)
<1>1. s.at = "resource" /\ s.caller = "primary" /\ s.word = 0 /\ s \in Stages
  BY DEF RecurringResource, StageOK, LeavesLow
<1>2. ResourceIndex(s) = 1
  <2>1. Selector(s) = 1
    BY <1>1, SelectorOf
  <2>2. QED
    BY <2>1 DEF ResourceIndex
<1>3. t = [r EXCEPT !.word = 1]
  BY <1>1, <1>2 DEF RecurringResource
<1>4. StageOK(r) /\ r.at = "restart" /\ r.phase = s.phase
  BY <1>1, StageOKRestarts
<1> HIDE DEF r
<1>5. t \in Stages
  BY <1>3, <1>4, StageAssumption DEF StageOK, Stages
<1>6. StageGoes(t) /\ TurnGoes(t) /\ LeavesLow(t)
  BY <1>3, <1>4 DEF StageOK, Stages, StageGoes, TurnGoes, LeavesLow, PreparingPlaces,
     FadingPlaces, LeavingPlaces
<1>7. QED
  BY <1>1, <1>3, <1>4, <1>5, <1>6 DEF StageOK, Stages, ViewPlaces

(* What the program does by itself, by the driver or without it.           *)
LEMMA OwnStepsKeep ==
  ASSUME NEW s, StageOK(s), NEW t \in OwnSteps(s)
  PROVE  StageOK(t) /\ (t.at \in ViewPlaces <=> s.at \in ViewPlaces)
BY EnterBootstrapKeeps, EnterAudioServiceKeeps, PrepareBodyKeeps, RecordLoopKeeps,
   SchedulerPassKeeps, CommandPaletteKeeps, ViewSelectionKeeps, FadeBuffersKeeps,
   AuxiliaryLocalPathKeeps DEF OwnSteps

LEMMA DriverStepsAreOwn ==
  ASSUME NEW s
  PROVE  DriverSteps(s) \subseteq OwnSteps(s)
BY Zenon DEF DriverSteps, OwnSteps

LEMMA AnswersKeep ==
  ASSUME NEW s, StageOK(s), NEW t \in Answers(s)
  PROVE  StageOK(t) /\ (t.at \in ViewPlaces <=> s.at \in ViewPlaces)
BY StartupKeeps, PrepareReturnKeeps, SchedulerReturnKeeps, RequestReturnKeeps,
   OptionalResourceKeeps, OuterInputKeeps, CounterKeeps, OuterServiceKeeps,
   RecurringResourceKeeps DEF Answers

(* The library's induction theorems take an operator, so the least         *)
(* counterexample of a set is taken instead.                               *)
LEMMA NatOrder ==
  \E R : IsWellFoundedOn(R, Nat) /\ \A x, y \in Nat : y < x => <<y, x>> \in R
<1>1. \A x, y \in Nat : y < x => <<y, x>> \in OpToRel(<, Nat)
  BY DEF OpToRel
<1>. QED
  BY <1>1, NatLessThanWellFounded

(* A set with zero that is closed under the successor has every number.    *)
LEMMA NatSetInduction ==
  ASSUME NEW S, 0 \in S, \A n \in Nat : n \in S => n + 1 \in S
  PROVE  Nat \subseteq S
<1>1. PICK R : IsWellFoundedOn(R, Nat) /\ \A x, y \in Nat : y < x => <<y, x>> \in R
  BY NatOrder
<1>2. SUFFICES ASSUME Nat \ S # {} PROVE FALSE
  OBVIOUS
<1>3. PICK x \in Nat \ S : \A y \in Nat \ S : ~(<<y, x>> \in R)
  BY <1>1, <1>2, WFMin
<1>4. x \in Nat /\ x # 0
  BY <1>3
<1>5. x - 1 \in Nat /\ x - 1 < x /\ (x - 1) + 1 = x
  BY <1>4
<1>6. x - 1 \in S
  BY <1>1, <1>3, <1>5, <1>4
<1>. QED
  BY <1>3, <1>5, <1>6

(* Every drive ends at a stage its steps lead to, whatever its limit.      *)
LEMMA StageDrivenKeeps ==
  ASSUME NEW s, StageOK(s), NEW t \in StageDriven(s)
  PROVE  StageOK(t) /\ (t.at \in ViewPlaces <=> s.at \in ViewPlaces)
<1> DEFINE Reached == {u \in Stages : StageOK(u) /\ (u.at \in ViewPlaces <=> s.at \in ViewPlaces)}
           Ends == SUBSET Reached
           Step(f, n) == IF n = 0 THEN {s} ELSE DriveStepped(f[n - 1])
           Drives(f, k) == f = [n \in 0..k |-> Step(f, n)]
           Limits == {k \in Nat : \E f \in [0..k -> Ends] : Drives(f, k)}
<1>1. {s} \in Ends
  BY DEF StageOK
<1>2. ASSUME NEW ends \in Ends PROVE DriveStepped(ends) \in Ends
  <2>1. ASSUME NEW u \in ends, NEW v \in DriverSteps(u) PROVE v \in Reached
    <3>1. StageOK(u) /\ (u.at \in ViewPlaces <=> s.at \in ViewPlaces)
      BY <2>1
    <3>2. v \in OwnSteps(u)
      BY DriverStepsAreOwn
    <3>3. StageOK(v) /\ (v.at \in ViewPlaces <=> u.at \in ViewPlaces)
      BY <3>1, <3>2, OwnStepsKeep
    <3>4. QED
      BY <3>1, <3>3 DEF StageOK
  <2>2. \A u \in ends : u \in Reached
    OBVIOUS
  <2> HIDE DEF Reached
  <2>3. QED
    BY <2>1, <2>2 DEF DriveStepped
<1> HIDE DEF Ends
<1>3. 0 \in Limits
  <2> DEFINE f == [n \in 0..0 |-> {s}]
  <2>1. f \in [0..0 -> Ends] /\ Drives(f, 0)
    BY <1>1
  <2>2. QED
    BY <2>1
<1>4. ASSUME NEW k \in Nat, k \in Limits PROVE k + 1 \in Limits
  <2>1. PICK f \in [0..k -> Ends] : Drives(f, k)
    BY <1>4
  <2>10. f[k] \in Ends /\ \A n \in 1..k : f[n] = DriveStepped(f[n - 1])
    <3>1. k \in 0..k
      BY <1>4
    <3>2. f[k] \in Ends
      <4> HIDE DEF Drives
      <4>1. QED
        BY <2>1, <3>1
    <3>3. ASSUME NEW n \in 1..k PROVE f[n] = DriveStepped(f[n - 1])
      <4>1. n \in 0..k /\ n # 0
        BY <1>4
      <4>2. f[n] = Step(f, n)
        <5> HIDE DEF Step
        <5>1. QED
          BY <2>1, <4>1
      <4>3. QED
        BY <4>1, <4>2
    <3>4. QED
      BY <3>2, <3>3
  <2> DEFINE g == [n \in 0..(k + 1) |-> IF n = k + 1 THEN DriveStepped(f[k]) ELSE f[n]]
  <2>2. g \in [0..(k + 1) -> Ends]
    <3>1. DriveStepped(f[k]) \in Ends
      <4> HIDE DEF Drives
      <4>1. QED
        BY <2>10, <1>2
    <3>2. \A n \in 0..(k + 1) : n # k + 1 => n \in 0..k
      BY <1>4
    <3> HIDE DEF Drives
    <3>3. QED
      BY <2>1, <3>1, <3>2
  <2>3. ASSUME NEW n \in 0..(k + 1) PROVE g[n] = Step(g, n)
    <3>1. CASE n = k + 1
      BY <3>1
    <3>2. CASE n \in 1..k
      <4>1. g[n] = f[n] /\ g[n - 1] = f[n - 1] /\ n # 0
        BY <3>2
      <4>2. f[n] = DriveStepped(f[n - 1])
        BY <2>10, <3>2
      <4>3. QED
        BY <4>1, <4>2
    <3>3. CASE n = 0
      BY <2>1, <3>3
    <3>4. QED
      BY <3>1, <3>2, <3>3
  <2>4. Drives(g, k + 1)
    <3>1. g = [n \in 0..(k + 1) |-> g[n]]
      OBVIOUS
    <3> HIDE DEF g, Step
    <3>2. QED
      BY <2>3, <3>1
  <2> HIDE DEF g, Drives
  <2>5. QED
    BY <2>2, <2>4
<1>5. StepLimit \in Limits
  <2>1. Nat \subseteq Limits
    <3> HIDE DEF Limits
    <3>1. QED
      BY <1>3, <1>4, NatSetInduction
  <2>2. QED
    BY <2>1, StageAssumption
<1> DEFINE after == CHOOSE h : h = [n \in 0..StepLimit |-> Step(h, n)]
<1>6. after \in [0..StepLimit -> Ends]
  <2>1. PICK f \in [0..StepLimit -> Ends] : Drives(f, StepLimit)
    BY <1>5
  <2>2. after = [n \in 0..StepLimit |-> Step(after, n)]
    BY <2>1
  <2> HIDE DEF after
  <2> DEFINE Same == {k \in Nat : k <= StepLimit => after[k] \in Ends}
  <2>3. 0 \in Same
    BY <2>2, <1>1, StageAssumption
  <2>4. ASSUME NEW k \in Nat, k \in Same PROVE k + 1 \in Same
    <3>1. SUFFICES ASSUME k + 1 <= StepLimit PROVE after[k + 1] \in Ends
      OBVIOUS
    <3>2. after[k] \in Ends
      BY <2>4, <3>1, StageAssumption
    <3>3. after[k + 1] = DriveStepped(after[k])
      <4>1. k + 1 \in 0..StepLimit /\ k + 1 # 0 /\ (k + 1) - 1 = k
        BY <3>1, StageAssumption
      <4>2. after[k + 1] = Step(after, k + 1)
        <5> HIDE DEF Step
        <5>1. QED
          BY <2>2, <4>1
      <4>3. QED
        BY <4>1, <4>2
    <3>4. QED
      BY <3>2, <3>3, <1>2
  <2>5. Nat \subseteq Same
    <3> HIDE DEF Same
    <3>1. QED
      BY <2>3, <2>4, NatSetInduction
  <2>6. \A k \in 0..StepLimit : after[k] \in Ends
    BY <2>5, StageAssumption
  <2> HIDE DEF after
  <2>7. QED
    BY <2>2, <2>6
<1>7. StageDriven(s) = after[StepLimit]
  BY DEF StageDriven
<1>8. t \in Reached
  <2>1. after[StepLimit] \in Ends
    <3> HIDE DEF after
    <3>1. QED
      BY <1>6, StageAssumption
  <2>2. QED
    BY <1>7, <2>1 DEF Ends
<1>9. QED
  BY <1>8

LEMMA StageInvInit == StageInit => StageInv
<1> SUFFICES ASSUME StageInit PROVE StageInv
  OBVIOUS
<1>1. NewStage \in Stages
  <2>1. 0 \in 0..(WordLimit - 1) /\ 0 \in 0..FadeSteps /\ 0 \in 0..(CommandBudget - 1)
    BY StageAssumption
  <2>2. QED
    BY <2>1, StageNames DEF NewStage, Stages
<1>2. StageGoes(NewStage) /\ TurnGoes(NewStage) /\ LeavesLow(NewStage)
  BY DEF NewStage, StageGoes, TurnGoes, LeavesLow, LoopPhases, PreparingPlaces, FadingPlaces,
         LeavingPlaces
<1>3. QED
  BY <1>1, <1>2 DEF StageInit, StageInv, StageOK, NewStage, NewFrame, ViewPlaces

LEMMA StageInvNext == StageInv /\ [StageStep]_stageVars => StageInv'
<1> SUFFICES ASSUME StageInv, [StageStep]_stageVars PROVE StageInv'
  OBVIOUS
<1> USE DEF StageInv
<1>1. CASE StageAnswered
  BY <1>1, AnswersKeep DEF StageAnswered
<1>2. CASE PaletteAnswered
  <2>1. PICK t \in GraphicsReturn(stage) \union PaletteReturn(stage) :
          /\ stage' = t
          /\ frame' = [frame EXCEPT !.palette = @ \/ stage.at \in
                         {"second_palette", "second_command_palette", "second_fade_palette"}]
    BY <1>2 DEF PaletteAnswered
  <2>2. StageOK(t) /\ (t.at \in ViewPlaces <=> stage.at \in ViewPlaces)
    BY GraphicsReturnKeeps, PaletteReturnKeeps
  <2>3. frame' \in [palette : BOOLEAN, pending : BOOLEAN] /\ frame'.pending = frame.pending
    BY <2>1
  <2>4. QED
    BY <2>1, <2>2, <2>3
<1>3. CASE FrameComposed
  <2>1. PICK t \in FrameBuffer(stage) : stage' = t /\ frame' = [frame EXCEPT !.pending = TRUE]
    BY <1>3 DEF FrameComposed
  <2>2. StageOK(t) /\ t.at \in ViewPlaces
    BY FrameBufferKeeps
  <2>3. frame' \in [palette : BOOLEAN, pending : BOOLEAN] /\ frame'.pending
    BY <2>1
  <2>4. QED
    BY <2>1, <2>2, <2>3
<1>4. CASE FrameShown
  <2>1. PICK t \in ViewWait(stage) :
          /\ stage' = t
          /\ frame' = [frame EXCEPT !.pending = @ /\ t.at = "view_wait"]
    BY <1>4 DEF FrameShown
  <2>2. StageOK(t) /\ stage.at \in ViewPlaces /\ (t.at \in ViewPlaces <=> t.at = "view_wait")
    BY ViewWaitKeeps
  <2>3. /\ frame' \in [palette : BOOLEAN, pending : BOOLEAN]
        /\ frame'.pending <=> (frame.pending /\ t.at = "view_wait")
    BY <2>1
  <2>4. QED
    BY <2>1, <2>2, <2>3
<1>5. CASE OwnStep
  BY <1>5, OwnStepsKeep DEF OwnStep
<1>6. CASE DriveStage
  BY <1>6, StageDrivenKeeps DEF DriveStage
<1>7. CASE UNCHANGED stageVars
  BY <1>7 DEF stageVars
<1>8. QED
  BY <1>1, <1>2, <1>3, <1>4, <1>5, <1>6, <1>7 DEF StageStep

LEMMA StageInvIsSound == StageInv => StageIsSound
<1> SUFFICES ASSUME StageInv PROVE StageIsSound
  OBVIOUS
<1>1. FrameIsPending
  BY DEF StageInv, FrameIsPending, ViewPlaces
<1>2. ASSUME stage.at = "resource" PROVE stage.caller = "primary" /\ ResourceIndex(stage) <= 1
  <2>1. stage.caller = "primary" /\ stage.word = 0 /\ stage \in Stages
    BY <1>2 DEF StageInv, StageOK, LeavesLow
  <2>2. Selector(stage) = 1
    BY <2>1, SelectorOf
  <2>3. QED
    BY <2>1, <2>2 DEF ResourceIndex
<1>3. QED
  BY <1>1, <1>2 DEF StageInv, StageOK, LeavesLow, ResourceReturns, StageIsSound

LEMMA SessionsKeepStage == StageInv /\ [SessionsNext]_sessionVars => StageInv'
<1>1. [SessionsNext]_sessionVars => [StageStep]_stageVars
  BY DEF SessionsNext, sessionVars, DosTitleStep, TitleStageStep, MainStageStep,
         AtariSessionStep, GameSessionStep, DriverStep, BootstrapStep, LoaderStep
<1>2. QED
  BY <1>1, StageInvNext

(* A frame the main stage composes waits exactly while its view is waited  *)
(* for, and a resource request comes back to the caller it has with a      *)
(* resource that can be loaded (observe_main_stage_* of the title session  *)
(* and its loop plan): for words, fades, budgets and drives of any size.   *)
THEOREM StageIsSoundHolds == SessionsSpec => []StageIsSound
<1>1. SessionsInit => StageInv
  BY StageInvInit DEF SessionsInit
<1>2. QED
  BY <1>1, SessionsKeepStage, StageInvIsSound, PTL DEF SessionsSpec

-----------------------------------------------------------------------------
(* The game.  Its tables are sequences put together of parts, so what they *)
(* say is shown part by part: each handler's places lead to its own and    *)
(* ask what its calls tell, and the sixth reaches its layout by a full     *)
(* table only.                                                             *)

(* What a recovered program says of each of its places, as pairs of a      *)
(* place and its branch.                                                   *)
Asked ==
  {"call", "byte", "word", "bl", "al", "bx", "flag", "jump", "return", "far_pointer", "tail_jump"}
Branches == [asks : Asked, zero : Nat, other : Nat]

Within(n, asked) ==
  {e \in (1..n) \X Branches :
     e[2].zero \in 0..n /\ e[2].other \in 0..n /\ e[2].asks \in asked}

(* A part of n places after the first o is in a map.                       *)
Laid(part, o, n, places) ==
  part \in Seq(Branches) /\ Len(part) = n /\ \A i \in 1..n : <<o + i, part[i]>> \in places

LEMMA LaidJoin ==
  ASSUME NEW o \in Nat, NEW m \in Nat, NEW n \in Nat, NEW places, NEW s, NEW t,
         Laid(s, o, m, places), Laid(t, o + m, n, places)
  PROVE  Laid(s \o t, o, m + n, places)
<1>1. s \in Seq(Branches) /\ t \in Seq(Branches) /\ Len(s) = m /\ Len(t) = n
  BY DEF Laid
<1>2. s \o t \in Seq(Branches) /\ Len(s \o t) = m + n
  BY <1>1
<1>3. ASSUME NEW i \in 1..(m + n) PROVE <<o + i, (s \o t)[i]>> \in places
  <2>1. CASE i <= m
    <3>1. (s \o t)[i] = s[i] /\ i \in 1..m
      BY <1>1, <2>1
    <3>2. QED
      BY <3>1 DEF Laid
  <2>2. CASE i > m
    <3>1. (s \o t)[i] = t[i - m] /\ i - m \in 1..n /\ (o + m) + (i - m) = o + i
      BY <1>1, <2>2
    <3>2. QED
      BY <3>1 DEF Laid
  <2>3. i <= m \/ i > m
    BY <1>3
  <2>4. QED
    BY <2>1, <2>2, <2>3
<1>4. QED
  BY <1>2, <1>3 DEF Laid

LEMMA LaidInTurn ==
  ASSUME NEW o \in Nat, NEW n \in Nat, NEW places, NEW kinds \in Seq(Asked), Len(kinds) = n,
         \A i \in 1..n : <<o + i, Goes(kinds[i], o + 1 + i)>> \in places
  PROVE  Laid(InTurn(o + 1, kinds), o, n, places)
<1> DEFINE part == InTurn(o + 1, kinds)
<1>1. part = [i \in 1..n |-> Goes(kinds[i], o + 1 + i)]
  BY DEF InTurn
<1>2. \A i \in 1..n : Goes(kinds[i], o + 1 + i) \in Branches
  BY DEF Goes, Branch, Branches
<1>3. part \in Seq(Branches) /\ Len(part) = n
  <2> HIDE DEF part
  <2>1. part \in [1..n -> Branches]
    BY <1>1, <1>2
  <2>2. QED
    BY <2>1, SeqDef
<1>4. QED
  BY <1>1, <1>3 DEF Laid

LEMMA LaidCalls ==
  ASSUME NEW o \in Nat, NEW n \in Nat, NEW places,
         \A i \in 1..n : <<o + i, Goes("call", o + 1 + i)>> \in places
  PROVE  Laid(Calls(o + 1, n), o, n, places)
<1> DEFINE kinds == [i \in 1..n |-> "call"]
<1>1. kinds \in Seq(Asked) /\ Len(kinds) = n
  <2>1. kinds \in [1..n -> Asked]
    BY DEF Asked
  <2> HIDE DEF kinds
  <2>2. QED
    BY <2>1, SeqDef
<1>2. \A i \in 1..n : kinds[i] = "call"
  OBVIOUS
<1>3. Calls(o + 1, n) = InTurn(o + 1, kinds)
  BY DEF Calls
<1> HIDE DEF kinds
<1>4. QED
  BY <1>1, <1>2, <1>3, LaidInTurn

LEMMA FirstIsLaid == Laid(First, 0, 7, Within(7, Asked))
<1> DEFINE places == Within(7, Asked)
           a == Calls(1, 5)
           b == <<Branch("bl", 7, 5), Stop("return")>>
<1>1. Laid(a, 0, 5, places)
  <2>1. \A i \in 1..5 : <<0 + i, Goes("call", 0 + 1 + i)>> \in places
    BY DEF Goes, Branch, Branches, Asked, Within
  <2> HIDE DEF places
  <2>2. Laid(Calls(0 + 1, 5), 0, 5, places)
    BY <2>1, LaidCalls
  <2>3. QED
    BY <2>2
<1>2. Laid(b, 5, 2, places)
  BY DEF Laid, Stop, Goes, Branch, Branches, Asked, Within
<1> HIDE DEF places, a, b
<1>3. Laid(a \o b, 0, 7, places)
  BY <1>1, <1>2, LaidJoin
<1>4. QED
  BY <1>3 DEF First, places, a, b

LEMMA SecondIsLaid == Laid(Second, 0, 9, Within(9, Asked))
<1> DEFINE places == Within(9, Asked)
           a == <<Branch("byte", 2, 4), Goes("call", 3), Branch("bl", 9, 2)>>
           b == Calls(4, 4)
           c == <<Stop("return"), Stop("return")>>
<1>1. Laid(a, 0, 3, places)
  BY DEF Laid, Stop, Goes, Branch, Branches, Asked, Within
<1>2. Laid(b, 3, 4, places)
  <2>1. \A i \in 1..4 : <<3 + i, Goes("call", 3 + 1 + i)>> \in places
    BY DEF Goes, Branch, Branches, Asked, Within
  <2> HIDE DEF places
  <2>2. Laid(Calls(3 + 1, 4), 3, 4, places)
    BY <2>1, LaidCalls
  <2>3. QED
    BY <2>2
<1>3. Laid(c, 7, 2, places)
  BY DEF Laid, Stop, Goes, Branch, Branches, Asked, Within
<1> HIDE DEF places, a, b, c
<1>4. Laid(a \o b, 0, 7, places)
  BY <1>1, <1>2, LaidJoin
<1>5. Laid(a \o b \o c, 0, 9, places)
  BY <1>4, <1>3, LaidJoin
<1>6. QED
  BY <1>5 DEF Second, places, a, b, c

LEMMA ThirdIsLaid == Laid(Third, 0, 9, Within(9, ThirdTold \union {"return", "far_pointer"}))
<1> DEFINE places == Within(9, ThirdTold \union {"return", "far_pointer"})
           a == <<Branch("word", 2, 9), Branch("word", 3, 5), Goes("call", 4), Branch("bl", 9, 3)>>
           b == InTurn(5, <<"call", "call", "word">>)
           c == <<Stop("far_pointer"), Stop("return")>>
<1>1. Laid(a, 0, 4, places)
  BY DEF Laid, Stop, Goes, Branch, Branches, Asked, Within, ThirdTold
<1>2. Laid(b, 4, 3, places)
  <2> DEFINE kinds == <<"call", "call", "word">>
  <2>1. kinds \in Seq(Asked) /\ Len(kinds) = 3
    BY DEF Asked
  <2>2. \A i \in 1..3 : <<4 + i, Goes(kinds[i], 4 + 1 + i)>> \in places
    BY DEF Goes, Branch, Branches, Asked, Within, ThirdTold
  <2> HIDE DEF kinds, places
  <2>3. Laid(InTurn(4 + 1, kinds), 4, 3, places)
    BY <2>1, <2>2, LaidInTurn
  <2>4. QED
    BY <2>3 DEF kinds
<1>3. Laid(c, 7, 2, places)
  BY DEF Laid, Stop, Goes, Branch, Branches, Asked, Within, ThirdTold
<1> HIDE DEF places, a, b, c
<1>4. Laid(a \o b, 0, 7, places)
  BY <1>1, <1>2, LaidJoin
<1>5. Laid(a \o b \o c, 0, 9, places)
  BY <1>4, <1>3, LaidJoin
<1>6. QED
  BY <1>5 DEF Third, places, a, b, c

LEMMA FourthIsLaid == Laid(Fourth, 0, 4, Within(4, Asked))
<1> DEFINE places == Within(4, Asked)
           a == <<Branch("word", 2, 4)>>
           b == Calls(2, 2)
           c == <<Stop("return")>>
<1>1. Laid(a, 0, 1, places)
  BY DEF Laid, Stop, Goes, Branch, Branches, Asked, Within
<1>2. Laid(b, 1, 2, places)
  <2>1. \A i \in 1..2 : <<1 + i, Goes("call", 1 + 1 + i)>> \in places
    BY DEF Goes, Branch, Branches, Asked, Within
  <2> HIDE DEF places
  <2>2. Laid(Calls(1 + 1, 2), 1, 2, places)
    BY <2>1, LaidCalls
  <2>3. QED
    BY <2>2
<1>3. Laid(c, 3, 1, places)
  BY DEF Laid, Stop, Goes, Branch, Branches, Asked, Within
<1> HIDE DEF places, a, b, c
<1>4. Laid(a \o b, 0, 3, places)
  BY <1>1, <1>2, LaidJoin
<1>5. Laid(a \o b \o c, 0, 4, places)
  BY <1>4, <1>3, LaidJoin
<1>6. QED
  BY <1>5 DEF Fourth, places, a, b, c

LEMMA FifthIsLaid == Laid(Fifth, 0, 5, Within(5, Asked))
<1> DEFINE places == Within(5, Asked)
           a == Calls(1, 4)
           b == <<Stop("return")>>
<1>1. Laid(a, 0, 4, places)
  <2>1. \A i \in 1..4 : <<0 + i, Goes("call", 0 + 1 + i)>> \in places
    BY DEF Goes, Branch, Branches, Asked, Within
  <2> HIDE DEF places
  <2>2. Laid(Calls(0 + 1, 4), 0, 4, places)
    BY <2>1, LaidCalls
  <2>3. QED
    BY <2>2
<1>2. Laid(b, 4, 1, places)
  BY DEF Laid, Stop, Goes, Branch, Branches, Asked, Within
<1> HIDE DEF places, a, b
<1>3. Laid(a \o b, 0, 5, places)
  BY <1>1, <1>2, LaidJoin
<1>4. QED
  BY <1>3 DEF Fifth, places, a, b

(* From before the draw the sixth stays before it, or it draws; what comes *)
(* after the layout does not lead back.                                    *)
SixthPlaces ==
  {e \in Within(54, Asked) :
     e[1] \notin SixthSteps =>
       \A to \in {e[2].zero, e[2].other} :
         (e[1] < Draw => to <= Draw) /\ (e[1] >= LayoutFinal => to = 0 \/ to >= LayoutFinal)}

LEMMA SixthIsLaid == Laid(Sixth, 0, 54, SixthPlaces)
<1> DEFINE places == SixthPlaces
           a == <<Branch("word", 2, 11)>>
           b == InTurn(2, <<"call", "call", "call", "byte", "byte", "word", "call">>)
           c == <<Branch("bl", 10, 8), Stop("return"), Stop("return")>>
           d == Calls(12, 6)
           e == InTurn(18, <<"byte">>)
           f == Calls(19, 7)
           g == <<Stop("return")>>
           h == Calls(27, 4)
           i == InTurn(31, <<"word", "word", "byte", "call", "call", "call", "al", "call", "al", "call",
                      "call", "al", "call", "call">>)
           j == <<Goes("call", Layout), Goes("call", 47)>>
           k == InTurn(47, <<"call", "call", "call", "word", "word", "byte", "call">>)
           l == <<Stop("call")>>
<1>1. Laid(a, 0, 1, places)
  BY DEF Laid, Stop, Goes, Branch, Branches, Asked, Within, SixthPlaces, SixthSteps,
       FarSegment, Draw, Layout, LayoutRefresh, LayoutFinal
<1>2. Laid(b, 1, 7, places)
  <2> DEFINE kinds == <<"call", "call", "call", "byte", "byte", "word", "call">>
  <2>1. kinds \in Seq(Asked) /\ Len(kinds) = 7
    BY DEF Asked
  <2>2. \A p \in 1..7 : <<1 + p, Goes(kinds[p], 1 + 1 + p)>> \in places
    BY DEF Goes, Branch, Branches, Asked, Within, SixthPlaces, SixthSteps, FarSegment, Draw,
         Layout, LayoutRefresh, LayoutFinal
  <2> HIDE DEF kinds, places
  <2>3. Laid(InTurn(1 + 1, kinds), 1, 7, places)
    BY <2>1, <2>2, LaidInTurn
  <2>4. QED
    BY <2>3 DEF kinds
<1>3. Laid(c, 8, 3, places)
  BY DEF Laid, Stop, Goes, Branch, Branches, Asked, Within, SixthPlaces, SixthSteps,
       FarSegment, Draw, Layout, LayoutRefresh, LayoutFinal
<1>4. Laid(d, 11, 6, places)
  <2>1. \A p \in 1..6 : <<11 + p, Goes("call", 11 + 1 + p)>> \in places
    BY DEF Goes, Branch, Branches, Asked, Within, SixthPlaces, SixthSteps, FarSegment, Draw,
         Layout, LayoutRefresh, LayoutFinal
  <2> HIDE DEF places
  <2>2. Laid(Calls(11 + 1, 6), 11, 6, places)
    BY <2>1, LaidCalls
  <2>3. QED
    BY <2>2
<1>5. Laid(e, 17, 1, places)
  <2> DEFINE kinds == <<"byte">>
  <2>1. kinds \in Seq(Asked) /\ Len(kinds) = 1
    BY DEF Asked
  <2>2. \A p \in 1..1 : <<17 + p, Goes(kinds[p], 17 + 1 + p)>> \in places
    BY DEF Goes, Branch, Branches, Asked, Within, SixthPlaces, SixthSteps, FarSegment, Draw,
         Layout, LayoutRefresh, LayoutFinal
  <2> HIDE DEF kinds, places
  <2>3. Laid(InTurn(17 + 1, kinds), 17, 1, places)
    BY <2>1, <2>2, LaidInTurn
  <2>4. QED
    BY <2>3 DEF kinds
<1>6. Laid(f, 18, 7, places)
  <2>1. \A p \in 1..7 : <<18 + p, Goes("call", 18 + 1 + p)>> \in places
    BY DEF Goes, Branch, Branches, Asked, Within, SixthPlaces, SixthSteps, FarSegment, Draw,
         Layout, LayoutRefresh, LayoutFinal
  <2> HIDE DEF places
  <2>2. Laid(Calls(18 + 1, 7), 18, 7, places)
    BY <2>1, LaidCalls
  <2>3. QED
    BY <2>2
<1>7. Laid(g, 25, 1, places)
  BY DEF Laid, Stop, Goes, Branch, Branches, Asked, Within, SixthPlaces, SixthSteps,
       FarSegment, Draw, Layout, LayoutRefresh, LayoutFinal
<1>8. Laid(h, 26, 4, places)
  <2>1. \A p \in 1..4 : <<26 + p, Goes("call", 26 + 1 + p)>> \in places
    BY DEF Goes, Branch, Branches, Asked, Within, SixthPlaces, SixthSteps, FarSegment, Draw,
         Layout, LayoutRefresh, LayoutFinal
  <2> HIDE DEF places
  <2>2. Laid(Calls(26 + 1, 4), 26, 4, places)
    BY <2>1, LaidCalls
  <2>3. QED
    BY <2>2
<1>9. Laid(i, 30, 14, places)
  <2> DEFINE kinds == <<"word", "word", "byte", "call", "call", "call", "al", "call", "al", "call",
                      "call", "al", "call", "call">>
  <2>1. kinds \in Seq(Asked) /\ Len(kinds) = 14
    BY DEF Asked
  <2>2. \A p \in 1..14 : <<30 + p, Goes(kinds[p], 30 + 1 + p)>> \in places
    BY DEF Goes, Branch, Branches, Asked, Within, SixthPlaces, SixthSteps, FarSegment, Draw,
         Layout, LayoutRefresh, LayoutFinal
  <2> HIDE DEF kinds, places
  <2>3. Laid(InTurn(30 + 1, kinds), 30, 14, places)
    BY <2>1, <2>2, LaidInTurn
  <2>4. QED
    BY <2>3 DEF kinds
<1>10. Laid(j, 44, 2, places)
  BY DEF Laid, Stop, Goes, Branch, Branches, Asked, Within, SixthPlaces, SixthSteps,
       FarSegment, Draw, Layout, LayoutRefresh, LayoutFinal
<1>11. Laid(k, 46, 7, places)
  <2> DEFINE kinds == <<"call", "call", "call", "word", "word", "byte", "call">>
  <2>1. kinds \in Seq(Asked) /\ Len(kinds) = 7
    BY DEF Asked
  <2>2. \A p \in 1..7 : <<46 + p, Goes(kinds[p], 46 + 1 + p)>> \in places
    BY DEF Goes, Branch, Branches, Asked, Within, SixthPlaces, SixthSteps, FarSegment, Draw,
         Layout, LayoutRefresh, LayoutFinal
  <2> HIDE DEF kinds, places
  <2>3. Laid(InTurn(46 + 1, kinds), 46, 7, places)
    BY <2>1, <2>2, LaidInTurn
  <2>4. QED
    BY <2>3 DEF kinds
<1>12. Laid(l, 53, 1, places)
  BY DEF Laid, Stop, Goes, Branch, Branches, Asked, Within, SixthPlaces, SixthSteps,
       FarSegment, Draw, Layout, LayoutRefresh, LayoutFinal
<1> HIDE DEF places, a, b, c, d, e, f, g, h, i, j, k, l
<1>13. Laid(a \o b, 0, 8, places)
  BY <1>1, <1>2, LaidJoin
<1>14. Laid(a \o b \o c, 0, 11, places)
  BY <1>13, <1>3, LaidJoin
<1>15. Laid(a \o b \o c \o d, 0, 17, places)
  BY <1>14, <1>4, LaidJoin
<1>16. Laid(a \o b \o c \o d \o e, 0, 18, places)
  BY <1>15, <1>5, LaidJoin
<1>17. Laid(a \o b \o c \o d \o e \o f, 0, 25, places)
  BY <1>16, <1>6, LaidJoin
<1>18. Laid(a \o b \o c \o d \o e \o f \o g, 0, 26, places)
  BY <1>17, <1>7, LaidJoin
<1>19. Laid(a \o b \o c \o d \o e \o f \o g \o h, 0, 30, places)
  BY <1>18, <1>8, LaidJoin
<1>20. Laid(a \o b \o c \o d \o e \o f \o g \o h \o i, 0, 44, places)
  BY <1>19, <1>9, LaidJoin
<1>21. Laid(a \o b \o c \o d \o e \o f \o g \o h \o i \o j, 0, 46, places)
  BY <1>20, <1>10, LaidJoin
<1>22. Laid(a \o b \o c \o d \o e \o f \o g \o h \o i \o j \o k, 0, 53, places)
  BY <1>21, <1>11, LaidJoin
<1>23. Laid(a \o b \o c \o d \o e \o f \o g \o h \o i \o j \o k \o l, 0, 54, places)
  BY <1>22, <1>12, LaidJoin
<1>24. QED
  BY <1>23 DEF Sixth, Restoration, HelperPrefix, places, a, b, c, d, e, f, g, h, i, j, k, l

LEMMA SeventhIsLaid == Laid(Seventh, 0, 28, Within(28, SeventhTold \union {"return"}))
<1> DEFINE places == Within(28, SeventhTold \union {"return"})
           a == <<Branch("word", 2, 28)>>
           b == InTurn(2, <<"call", "call", "call", "byte", "word", "call", "word", "call", "bx",
                     "call", "word", "call", "call", "byte", "call", "call", "word",
                     "call", "call", "word", "call", "call", "call", "call", "call", "call">>)
           c == <<Stop("return")>>
<1>1. Laid(a, 0, 1, places)
  BY DEF Laid, Stop, Goes, Branch, Branches, Asked, Within, SeventhTold
<1>2. Laid(b, 1, 26, places)
  <2> DEFINE kinds == <<"call", "call", "call", "byte", "word", "call", "word", "call", "bx",
                     "call", "word", "call", "call", "byte", "call", "call", "word",
                     "call", "call", "word", "call", "call", "call", "call", "call", "call">>
  <2>1. kinds \in Seq(Asked) /\ Len(kinds) = 26
    BY DEF Asked
  <2>2. \A i \in 1..26 : <<1 + i, Goes(kinds[i], 1 + 1 + i)>> \in places
    BY DEF Goes, Branch, Branches, Asked, Within, SeventhTold
  <2> HIDE DEF kinds, places
  <2>3. Laid(InTurn(1 + 1, kinds), 1, 26, places)
    BY <2>1, <2>2, LaidInTurn
  <2>4. QED
    BY <2>3 DEF kinds
<1>3. Laid(c, 27, 1, places)
  BY DEF Laid, Stop, Goes, Branch, Branches, Asked, Within, SeventhTold
<1> HIDE DEF places, a, b, c
<1>4. Laid(a \o b, 0, 27, places)
  BY <1>1, <1>2, LaidJoin
<1>5. Laid(a \o b \o c, 0, 28, places)
  BY <1>4, <1>3, LaidJoin
<1>6. QED
  BY <1>5 DEF Seventh, places, a, b, c

LEMMA EighthIsLaid == Laid(Eighth, 0, 4, Within(4, Asked))
<1> DEFINE places == Within(4, Asked)
           a == Calls(1, 2)
           b == <<Branch("bl", 4, 2), Stop("return")>>
<1>1. Laid(a, 0, 2, places)
  <2>1. \A i \in 1..2 : <<0 + i, Goes("call", 0 + 1 + i)>> \in places
    BY DEF Goes, Branch, Branches, Asked, Within
  <2> HIDE DEF places
  <2>2. Laid(Calls(0 + 1, 2), 0, 2, places)
    BY <2>1, LaidCalls
  <2>3. QED
    BY <2>2
<1>2. Laid(b, 2, 2, places)
  BY DEF Laid, Stop, Goes, Branch, Branches, Asked, Within
<1> HIDE DEF places, a, b
<1>3. Laid(a \o b, 0, 4, places)
  BY <1>1, <1>2, LaidJoin
<1>4. QED
  BY <1>3 DEF Eighth, places, a, b

LEMMA NinthIsLaid == Laid(Ninth, 0, 11, Within(11, NinthTold \union {"return", "jump"}))
<1> DEFINE places == Within(11, NinthTold \union {"return", "jump"})
           a == <<Branch("word", 2, 11), Goes("call", 3), Branch("byte", 5, 4), Goes("call", 5),
                Branch("byte", 7, 6), Goes("call", 5), Branch("byte", 8, 9)>>
           b == Calls(8, 2)
           c == <<Stop("jump"), Stop("return")>>
<1>1. Laid(a, 0, 7, places)
  BY DEF Laid, Stop, Goes, Branch, Branches, Asked, Within, NinthTold
<1>2. Laid(b, 7, 2, places)
  <2>1. \A i \in 1..2 : <<7 + i, Goes("call", 7 + 1 + i)>> \in places
    BY DEF Goes, Branch, Branches, Asked, Within, NinthTold
  <2> HIDE DEF places
  <2>2. Laid(Calls(7 + 1, 2), 7, 2, places)
    BY <2>1, LaidCalls
  <2>3. QED
    BY <2>2
<1>3. Laid(c, 9, 2, places)
  BY DEF Laid, Stop, Goes, Branch, Branches, Asked, Within, NinthTold
<1> HIDE DEF places, a, b, c
<1>4. Laid(a \o b, 0, 9, places)
  BY <1>1, <1>2, LaidJoin
<1>5. Laid(a \o b \o c, 0, 11, places)
  BY <1>4, <1>3, LaidJoin
<1>6. QED
  BY <1>5 DEF Ninth, places, a, b, c

(* The wait the ninth jumps into, wherever it is placed.                   *)
LEMMA LaidWait ==
  ASSUME NEW o \in Nat, NEW n \in Nat, n >= o + 15, NEW to \in 1..n
  PROVE  Laid(WaitFrom(o + 1, to, to), o, 14, Within(n, Asked))
<1> DEFINE places == Within(n, Asked)
           p == o + 1
           a == Calls(p, 2)
           b == <<Branch("byte", p + 3, p + 7), Goes("call", p + 4), Branch("flag", p + 5, p),
                  Branch("bl", p + 6, p), Goes("call", to), Branch("word", p + 8, p + 9)>>
           c == InTurn(p + 8, <<"call", "call", "call", "word", "call">>)
           d == <<Goes("call", to)>>
<1>1. Laid(a, o, 2, places)
  <2>1. \A i \in 1..2 : <<o + i, Goes("call", o + 1 + i)>> \in places
    BY DEF Goes, Branch, Branches, Asked, Within
  <2> HIDE DEF places
  <2>2. QED
    BY <2>1, LaidCalls
<1>2. Laid(b, o + 2, 6, places)
  BY DEF Laid, Goes, Branch, Branches, Asked, Within
<1>3. Laid(c, o + 8, 5, places)
  <2> DEFINE kinds == <<"call", "call", "call", "word", "call">>
  <2>1. kinds \in Seq(Asked) /\ Len(kinds) = 5
    BY DEF Asked
  <2> DEFINE q == o + 8
  <2>2. \A i \in 1..5 : <<q + i, Goes(kinds[i], q + 1 + i)>> \in places
    BY DEF Goes, Branch, Branches, Asked, Within
  <2>3. q \in Nat /\ q + 1 = p + 8
    OBVIOUS
  <2> HIDE DEF kinds, places, q
  <2>4. Laid(InTurn(q + 1, kinds), q, 5, places)
    BY <2>1, <2>2, <2>3, LaidInTurn
  <2>5. QED
    BY <2>3, <2>4 DEF kinds, q
<1>4. Laid(d, o + 13, 1, places)
  BY DEF Laid, Goes, Branch, Branches, Asked, Within
<1>5. (o + 2) + 6 = o + 8 /\ (o + 8) + 5 = o + 13
  OBVIOUS
<1>6. WaitFrom(o + 1, to, to) = ((a \o b) \o c) \o d
  BY DEF WaitFrom
<1> HIDE DEF places, p, a, b, c, d
<1>7. Laid(a \o b, o, 8, places)
  BY <1>1, <1>2, LaidJoin
<1>8. Laid(a \o b \o c, o, 13, places)
  BY <1>7, <1>3, LaidJoin
<1>9. Laid(a \o b \o c \o d, o, 14, places)
  BY <1>8, <1>4, LaidJoin
<1>10. QED
  BY <1>6, <1>9 DEF places, a, b, c, d

LEMMA TenthIsLaid == Laid(Tenth, 0, 24, Within(24, Asked))
<1> DEFINE places == Within(24, Asked)
           a == <<Branch("word", 2, 24), Goes("call", 3), Branch("byte", 5, 4), Goes("call", 5),
                Branch("byte", 7, 6), Goes("call", 5), Branch("byte", 8, 9)>>
           b == Calls(8, 2)
           c == WaitFrom(10, 24, 24)
           d == <<Stop("return")>>
<1>1. Laid(a, 0, 7, places)
  BY DEF Laid, Stop, Goes, Branch, Branches, Asked, Within
<1>2. Laid(b, 7, 2, places)
  <2>1. \A i \in 1..2 : <<7 + i, Goes("call", 7 + 1 + i)>> \in places
    BY DEF Goes, Branch, Branches, Asked, Within
  <2> HIDE DEF places
  <2>2. Laid(Calls(7 + 1, 2), 7, 2, places)
    BY <2>1, LaidCalls
  <2>3. QED
    BY <2>2
<1>3. Laid(c, 9, 14, places)
  <2>1. Laid(WaitFrom(9 + 1, 24, 24), 9, 14, Within(24, Asked))
    BY LaidWait
  <2>2. QED
    BY <2>1
<1>4. Laid(d, 23, 1, places)
  BY DEF Laid, Stop, Goes, Branch, Branches, Asked, Within
<1> HIDE DEF places, a, b, c, d
<1>5. Laid(a \o b, 0, 9, places)
  BY <1>1, <1>2, LaidJoin
<1>6. Laid(a \o b \o c, 0, 23, places)
  BY <1>5, <1>3, LaidJoin
<1>7. Laid(a \o b \o c \o d, 0, 24, places)
  BY <1>6, <1>4, LaidJoin
<1>8. QED
  BY <1>7 DEF Tenth, places, a, b, c, d

LEMMA NinthHandoffIsLaid == Laid(NinthHandoff, 0, 15, Within(15, Asked))
<1> DEFINE places == Within(15, Asked)
           a == WaitFrom(1, 15, 15)
           b == <<Stop("return")>>
<1>1. Laid(a, 0, 14, places)
  <2>1. Laid(WaitFrom(0 + 1, 15, 15), 0, 14, Within(15, Asked))
    BY LaidWait
  <2>2. QED
    BY <2>1
<1>2. Laid(b, 14, 1, places)
  BY DEF Laid, Stop, Goes, Branch, Branches, Asked, Within
<1> HIDE DEF places, a, b
<1>3. Laid(a \o b, 0, 15, places)
  BY <1>1, <1>2, LaidJoin
<1>4. QED
  BY <1>3 DEF NinthHandoff, places, a, b

LEMMA CallbackIsLaid == Laid(Callback, 0, 16, Within(16, Asked))
<1> DEFINE places == Within(16, Asked)
           a == <<Branch("byte", 2, 9), Goes("jump", 3)>>
           b == Calls(3, 5)
           c == <<Stop("return")>>
           d == InTurn(9, <<"word", "call", "call", "call">>)
           e == <<Branch("bl", 14, 12)>>
           f == Calls(14, 2)
           g == <<Stop("tail_jump")>>
<1>1. Laid(a, 0, 2, places)
  BY DEF Laid, Stop, Goes, Branch, Branches, Asked, Within
<1>2. Laid(b, 2, 5, places)
  <2>1. \A i \in 1..5 : <<2 + i, Goes("call", 2 + 1 + i)>> \in places
    BY DEF Goes, Branch, Branches, Asked, Within
  <2> HIDE DEF places
  <2>2. Laid(Calls(2 + 1, 5), 2, 5, places)
    BY <2>1, LaidCalls
  <2>3. QED
    BY <2>2
<1>3. Laid(c, 7, 1, places)
  BY DEF Laid, Stop, Goes, Branch, Branches, Asked, Within
<1>4. Laid(d, 8, 4, places)
  <2> DEFINE kinds == <<"word", "call", "call", "call">>
  <2>1. kinds \in Seq(Asked) /\ Len(kinds) = 4
    BY DEF Asked
  <2>2. \A i \in 1..4 : <<8 + i, Goes(kinds[i], 8 + 1 + i)>> \in places
    BY DEF Goes, Branch, Branches, Asked, Within
  <2> HIDE DEF kinds, places
  <2>3. Laid(InTurn(8 + 1, kinds), 8, 4, places)
    BY <2>1, <2>2, LaidInTurn
  <2>4. QED
    BY <2>3 DEF kinds
<1>5. Laid(e, 12, 1, places)
  BY DEF Laid, Stop, Goes, Branch, Branches, Asked, Within
<1>6. Laid(f, 13, 2, places)
  <2>1. \A i \in 1..2 : <<13 + i, Goes("call", 13 + 1 + i)>> \in places
    BY DEF Goes, Branch, Branches, Asked, Within
  <2> HIDE DEF places
  <2>2. Laid(Calls(13 + 1, 2), 13, 2, places)
    BY <2>1, LaidCalls
  <2>3. QED
    BY <2>2
<1>7. Laid(g, 15, 1, places)
  BY DEF Laid, Stop, Goes, Branch, Branches, Asked, Within
<1> HIDE DEF places, a, b, c, d, e, f, g
<1>8. Laid(a \o b, 0, 7, places)
  BY <1>1, <1>2, LaidJoin
<1>9. Laid(a \o b \o c, 0, 8, places)
  BY <1>8, <1>3, LaidJoin
<1>10. Laid(a \o b \o c \o d, 0, 12, places)
  BY <1>9, <1>4, LaidJoin
<1>11. Laid(a \o b \o c \o d \o e, 0, 13, places)
  BY <1>10, <1>5, LaidJoin
<1>12. Laid(a \o b \o c \o d \o e \o f, 0, 15, places)
  BY <1>11, <1>6, LaidJoin
<1>13. Laid(a \o b \o c \o d \o e \o f \o g, 0, 16, places)
  BY <1>12, <1>7, LaidJoin
<1>14. QED
  BY <1>13 DEF Callback, places, a, b, c, d, e, f, g

(* Where each handler can be, and the sixth's table on the way to it.      *)
PlaceCount == <<7, 9, 9, 4, 5, 54, 28, 4, 11, 24>>
TailCount == [callback |-> 16, ninth_handoff |-> 15]

LEMMA PlaceCounts ==
  /\ PlaceCount[1] = 7 /\ PlaceCount[2] = 9 /\ PlaceCount[3] = 9 /\ PlaceCount[4] = 4
  /\ PlaceCount[5] = 5 /\ PlaceCount[6] = 54 /\ PlaceCount[7] = 28 /\ PlaceCount[8] = 4
  /\ PlaceCount[9] = 11 /\ PlaceCount[10] = 24
BY DEF PlaceCount

LEMMA HandlerTables ==
  /\ Handler[1] = First /\ Handler[2] = Second /\ Handler[3] = Third /\ Handler[4] = Fourth
  /\ Handler[5] = Fifth /\ Handler[6] = Sixth /\ Handler[7] = Seventh /\ Handler[8] = Eighth
  /\ Handler[9] = Ninth /\ Handler[10] = Tenth
BY DEF Handler

LEMMA LaidBranch ==
  ASSUME NEW table, NEW n \in Nat, NEW asked, Laid(table, 0, n, Within(n, asked)), NEW at \in 1..n
  PROVE  table[at].zero \in 0..n /\ table[at].other \in 0..n /\ table[at].asks \in asked
<1>1. <<0 + at, table[at]>> \in Within(n, asked)
  BY DEF Laid
<1>2. QED
  BY <1>1 DEF Within

(* A place goes on to a place of its handler, and asks what its calls tell.*)
LEMMA PlacesLead ==
  ASSUME NEW key \in Keys, NEW at \in 1..PlaceCount[key]
  PROVE  /\ Handler[key][at].zero \in 0..PlaceCount[key]
         /\ Handler[key][at].other \in 0..PlaceCount[key]
         /\ key = 3 => Handler[key][at].asks \in ThirdTold \union {"return", "far_pointer"}
         /\ key = 7 => Handler[key][at].asks \in SeventhTold \union {"return"}
         /\ key = 9 => Handler[key][at].asks \in NinthTold \union {"return", "jump"}
<1> USE PlaceCounts, HandlerTables, LaidBranch
<1>1. CASE key = 1  BY <1>1, FirstIsLaid
<1>2. CASE key = 2  BY <1>2, SecondIsLaid
<1>3. CASE key = 3  BY <1>3, ThirdIsLaid
<1>4. CASE key = 4  BY <1>4, FourthIsLaid
<1>5. CASE key = 5  BY <1>5, FifthIsLaid
<1>6. CASE key = 6
  <2>1. <<0 + at, Sixth[at]>> \in Within(54, Asked)
    BY <1>6, SixthIsLaid DEF Laid, SixthPlaces
  <2>2. QED
    BY <1>6, <2>1 DEF Within
<1>7. CASE key = 7  BY <1>7, SeventhIsLaid
<1>8. CASE key = 8  BY <1>8, EighthIsLaid
<1>9. CASE key = 9  BY <1>9, NinthIsLaid
<1>10. CASE key = 10  BY <1>10, TenthIsLaid
<1>11. QED
  BY <1>1, <1>2, <1>3, <1>4, <1>5, <1>6, <1>7, <1>8, <1>9, <1>10 DEF Keys

LEMMA SixthLeads ==
  ASSUME NEW at \in 1..54, at \notin SixthSteps,
         NEW to \in {Handler[6][at].zero, Handler[6][at].other} \ {0}
  PROVE  (at < Draw => to <= Draw) /\ (at >= LayoutFinal => to >= LayoutFinal)
<1>1. <<0 + at, Handler[6][at]>> \in SixthPlaces
  BY SixthIsLaid, HandlerTables DEF Laid
<1>2. QED
  BY <1>1 DEF SixthPlaces

LEMMA TailsLead ==
  ASSUME NEW at
  PROVE  /\ at \in 1..16 => Callback[at].zero \in 0..16 /\ Callback[at].other \in 0..16
         /\ at \in 1..15 => NinthHandoff[at].zero \in 0..15 /\ NinthHandoff[at].other \in 0..15
<1>1. CASE at \in 1..16
  BY <1>1, CallbackIsLaid, NinthHandoffIsLaid, LaidBranch
<1>2. QED
  BY <1>1

HandOverPlaces == {HandOver[i] : i \in DOMAIN HandOver}
Parents == [at : HandOverPlaces \union {"left"}, segment : Segments \union {0}]
Processes == [at : DOMAIN ProcessMove \union {"left"}, segment : Segments \union {0}]
Loops ==
  [at : {"none", "call", "first_al", "toggle", "action", "guard", "dispatch", "palette_interrupt"},
   call : 0..14, action : {"none", "first_special", "second_special", "key", "other"}, key : 0..10]

GameShape ==
  /\ kind \in {"title_handoff", "gx_startup", "post_overlay_loop", "handler", "ninth_handoff",
              "callback", "none"}
  /\ parent \in Parents /\ process \in Processes /\ loop \in Loops
  /\ six \in [taken : SUBSET (1..Slots), slot : 0..(Slots + 1), far : {"none", "fits", "wraps"}]
  /\ helper \in [at : {"none", "segment", "table_word", "inner_return", "at_return", "returned",
                       "over"},
                 caller : {"none", "seventh", "special"}]
  /\ adapter \in {"none", "returned", "over"} \union DOMAIN AdapterMove
  /\ completed = [key |-> 0, at |-> 0] \/ completed \in [key : Keys, at : 1..54]

HandlerIsPlaced ==
  /\ handler = NoHandler <=> kind \notin {"handler", "ninth_handoff", "callback"}
  /\ kind = "handler" => /\ handler \in [key : Keys, at : 1..54]
                         /\ handler.at \in 1..PlaceCount[handler.key]
  /\ kind = "callback" => handler \in [key : {2}, at : 1..16]
  /\ kind = "ninth_handoff" => handler \in [key : {9}, at : 1..15]

LoopIsOpen ==
  /\ loop.at = "dispatch" => /\ loop = Dispatch(loop.action, loop.key)
                             /\ loop.action = "key" => loop.key \in Keys
                             /\ loop.action # "key" => loop.key = 0
  /\ kind \in {"title_handoff", "gx_startup"} => loop = NoLoop
  /\ kind = "title_handoff" => process.at # "left"

TableGrows ==
  (kind = "handler" /\ handler.key = 6) =>
    /\ six.taken \subseteq (1..Slots) \ Excluded
    /\ handler.at <= Draw => Cardinality(six.taken) < Wanted
    /\ handler.at > Draw => Cardinality(six.taken) = Wanted
    /\ handler.at \in {Layout, LayoutRefresh} => six.slot \in 1..Slots
    /\ handler.at >= LayoutFinal => six.slot = Slots + 1

GameInv == GameShape /\ HandlerIsPlaced /\ LoopIsOpen /\ DispatchIsOwned /\ TableGrows

LEMMA HandOverNames ==
  /\ {"cleanup_return", "process_entry", "startup_call"} \subseteq HandOverPlaces
  /\ DOMAIN HandOver = 1..11 /\ Len(HandOver) = 11
  /\ \A i \in 1..11 : HandOver[i] \in HandOverPlaces
<1>1. DOMAIN HandOver = 1..11 /\ Len(HandOver) = 11
  BY DEF HandOver
<1>2. \A i \in 1..11 : HandOver[i] \in HandOverPlaces
  BY <1>1 DEF HandOverPlaces
<1>3. /\ HandOver[1] = "cleanup_return" /\ HandOver[10] = "process_entry"
      /\ HandOver[11] = "startup_call"
  BY DEF HandOver
<1>4. QED
  BY <1>1, <1>2, <1>3

LEMMA ProcessMoves ==
  /\ "first_private" \in DOMAIN ProcessMove
  /\ \A p \in DOMAIN ProcessMove : ProcessMove[p] \subseteq DOMAIN ProcessMove \ {"left"}
BY DEF ProcessMove

(* The loop's values: before a call, at a dispatch, or in none.            *)
LEMMA LoopValues ==
  /\ NoLoop \in Loops /\ NoLoop.at = "none"
  /\ PollTail \in Loops /\ PollTail.at = "call"
  /\ \A n \in 0..14 : AtCall(n) \in Loops /\ AtCall(n).at = "call"
  /\ \A a \in {"first_special", "second_special", "key"}, k \in 0..10 :
       /\ Dispatch(a, k) \in Loops /\ Dispatch(a, k).at = "dispatch"
       /\ Dispatch(a, k).action = a /\ Dispatch(a, k).key = k
<1>1. NoLoop \in Loops /\ NoLoop.at = "none"
  BY DEF NoLoop, Loops
<1>2. ASSUME NEW n \in 0..14 PROVE AtCall(n) \in Loops /\ AtCall(n).at = "call"
  BY <1>1 DEF AtCall, Loops
<1>3. ASSUME NEW a \in {"first_special", "second_special", "key"}, NEW k \in 0..10
      PROVE  /\ Dispatch(a, k) \in Loops /\ Dispatch(a, k).at = "dispatch"
             /\ Dispatch(a, k).action = a /\ Dispatch(a, k).key = k
  <2>1. Dispatch(a, k) \in Loops
    BY <1>1 DEF Dispatch, Loops
  <2>2. QED
    BY <1>1, <2>1 DEF Dispatch, Loops
<1>4. QED
  BY <1>1, <1>2, <1>3 DEF PollTail

LEMMA GameInvInit == GameInit => GameInv
<1> SUFFICES ASSUME GameInit PROVE GameInv
  OBVIOUS
<1>1. GameShape
  <2>1. parent \in Parents /\ process \in Processes
    BY HandOverNames, ProcessMoves DEF GameInit, Parents, Processes
  <2>2. QED
    BY <2>1, LoopValues, GameAssumption DEF GameInit, GameShape, NoSix
<1>2. HandlerIsPlaced /\ LoopIsOpen /\ DispatchIsOwned /\ TableGrows
  BY DEF GameInit, HandlerIsPlaced, LoopIsOpen, DispatchIsOwned, TableGrows, NoLoop, NoSix,
       NoHandler
<1>3. QED
  BY <1>1, <1>2 DEF GameInv

LEMMA HandOverStepKeeps == GameInv /\ HandOverStep => GameInv'
<1> SUFFICES ASSUME GameInv, HandOverStep PROVE GameInv'
  OBVIOUS
<1> USE DEF GameInv, HandOverStep
<1>1. GameShape'
  <2>1. PICK i \in 1..(Len(HandOver) - 2) : parent' = [parent EXCEPT !.at = HandOver[i + 1]]
    OBVIOUS
  <2>2. HandOver[i + 1] \in HandOverPlaces
    BY HandOverNames
  <2>3. parent' \in Parents
    BY <2>1, <2>2 DEF GameShape, Parents
  <2>4. QED
    BY <2>3 DEF GameShape
<1>2. HandlerIsPlaced'
  BY DEF GameShape, HandlerIsPlaced, LoopIsOpen, DispatchIsOwned, TableGrows
<1>3. LoopIsOpen'
  BY DEF GameShape, HandlerIsPlaced, LoopIsOpen, DispatchIsOwned, TableGrows
<1>4. DispatchIsOwned'
  BY DEF GameShape, HandlerIsPlaced, LoopIsOpen, DispatchIsOwned, TableGrows
<1>5. TableGrows'
  BY DEF GameShape, HandlerIsPlaced, LoopIsOpen, DispatchIsOwned, TableGrows
<1>6. QED
  BY <1>1, <1>2, <1>3, <1>4, <1>5

LEMMA ProcessEntryKeeps == GameInv /\ ProcessEntry => GameInv'
<1> SUFFICES ASSUME GameInv, ProcessEntry PROVE GameInv'
  OBVIOUS
<1> USE DEF GameInv, ProcessEntry
<1>1. GameShape'
  <2>1. parent' \in Parents /\ process' \in Processes
    BY HandOverNames, ProcessMoves DEF GameShape, Parents, Processes
  <2>2. QED
    BY <2>1 DEF GameShape
<1>2. HandlerIsPlaced'
  BY DEF GameShape, HandlerIsPlaced, LoopIsOpen, DispatchIsOwned, TableGrows
<1>3. LoopIsOpen'
  BY DEF GameShape, HandlerIsPlaced, LoopIsOpen, DispatchIsOwned, TableGrows
<1>4. DispatchIsOwned'
  BY DEF GameShape, HandlerIsPlaced, LoopIsOpen, DispatchIsOwned, TableGrows
<1>5. TableGrows'
  BY DEF GameShape, HandlerIsPlaced, LoopIsOpen, DispatchIsOwned, TableGrows
<1>6. QED
  BY <1>1, <1>2, <1>3, <1>4, <1>5

LEMMA InterruptReturnKeeps == GameInv /\ InterruptReturn => GameInv'
<1> SUFFICES ASSUME GameInv, InterruptReturn PROVE GameInv'
  OBVIOUS
<1> USE DEF GameInv, InterruptReturn
<1>1. GameShape'
  <2>1. process.at \in DOMAIN ProcessMove
    BY DEF GameShape, Processes, LoopIsOpen
  <2>2. process' \in Processes
    BY <2>1, ProcessMoves DEF GameShape, Processes
  <2>3. QED
    BY <2>2 DEF GameShape
<1>2. HandlerIsPlaced'
  BY DEF GameShape, HandlerIsPlaced, LoopIsOpen, DispatchIsOwned, TableGrows
<1>3. LoopIsOpen'
  <2>1. process.at \in DOMAIN ProcessMove
    BY DEF GameShape, Processes, LoopIsOpen
  <2>2. PICK to \in ProcessMove[process.at] : process' = [process EXCEPT !.at = to]
    OBVIOUS
  <2>3. process'.at # "left"
    BY <2>1, <2>2, ProcessMoves DEF GameShape, Processes
  <2>4. QED
    BY <2>3 DEF LoopIsOpen
<1>4. DispatchIsOwned'
  BY DEF GameShape, HandlerIsPlaced, LoopIsOpen, DispatchIsOwned, TableGrows
<1>5. TableGrows'
  BY DEF GameShape, HandlerIsPlaced, LoopIsOpen, DispatchIsOwned, TableGrows
<1>6. QED
  BY <1>1, <1>2, <1>3, <1>4, <1>5

LEMMA AdmitStartupTraceKeeps == GameInv /\ AdmitStartupTrace => GameInv'
<1> SUFFICES ASSUME GameInv, AdmitStartupTrace PROVE GameInv'
  OBVIOUS
<1> USE DEF GameInv, AdmitStartupTrace
<1>1. GameShape'
  <2>1. parent' \in Parents /\ process' \in Processes
    BY DEF GameShape, Parents, Processes, Left
  <2>2. QED
    BY <2>1 DEF GameShape
<1>2. HandlerIsPlaced'
  BY DEF GameShape, HandlerIsPlaced, LoopIsOpen, DispatchIsOwned, TableGrows, Left
<1>3. LoopIsOpen'
  BY DEF GameShape, HandlerIsPlaced, LoopIsOpen, DispatchIsOwned, TableGrows, Left
<1>4. DispatchIsOwned'
  <2>1. parent'.segment = process'.segment /\ process'.at = "left"
    BY DEF GameShape, Parents, Processes, Left
  <2>2. QED
    BY <2>1 DEF DispatchIsOwned, HandlerIsPlaced, LoopIsOpen
<1>5. TableGrows'
  BY DEF GameShape, HandlerIsPlaced, LoopIsOpen, DispatchIsOwned, TableGrows, Left
<1>6. QED
  BY <1>1, <1>2, <1>3, <1>4, <1>5

LEMMA BeginLoopKeeps == GameInv /\ BeginLoop => GameInv'
<1> SUFFICES ASSUME GameInv, BeginLoop PROVE GameInv'
  OBVIOUS
<1> USE DEF GameInv, BeginLoop
<1>0. loop' \in Loops /\ loop'.at # "dispatch"
  BY LoopValues DEF NoLoop, Loops
<1>1. GameShape'
  BY <1>0 DEF GameShape
<1>2. HandlerIsPlaced'
  BY DEF GameShape, HandlerIsPlaced, LoopIsOpen, DispatchIsOwned, TableGrows
<1>3. LoopIsOpen'
  BY <1>0 DEF GameShape, LoopIsOpen
<1>4. DispatchIsOwned'
  <2>1. loop = NoLoop /\ loop.at = "none"
    BY LoopValues DEF LoopIsOpen
  <2>2. loop.at # "dispatch" /\ \A a \in {"first_special", "second_special"} : loop # Dispatch(a, 0)
    BY <2>1, LoopValues
  <2>3. QED
    BY <2>2 DEF DispatchIsOwned
<1>5. TableGrows'
  BY DEF GameShape, HandlerIsPlaced, LoopIsOpen, DispatchIsOwned, TableGrows
<1>6. QED
  BY <1>1, <1>2, <1>3, <1>4, <1>5

(* Inside the loop nothing is dispatched, and what it comes to is a value   *)
(* of the loop's: a call, a question, or the dispatch of an action.        *)
LEMMA LoopStepLeads ==
  ASSUME GameInv, LoopStep
  PROVE  /\ loop' \in Loops /\ loop.at # "dispatch"
         /\ loop'.at = "dispatch" => /\ loop' = Dispatch(loop'.action, loop'.key)
                                     /\ loop'.action = "key" => loop'.key \in Keys
                                     /\ loop'.action # "key" => loop'.key = 0
<1> USE DEF GameInv, GameShape, LoopStep
<1>1. CASE LoopCallReturn
  <2>1. loop.call \in 0..14
    BY DEF Loops
  <2>2. CASE loop.call = 6
    BY <1>1, <2>2 DEF LoopCallReturn, AfterCall, NoLoop, Loops
  <2>3. CASE loop.call = 14
    BY <1>1, <2>3 DEF LoopCallReturn, AfterCall, NoLoop, Loops
  <2>4. CASE loop.call \in 0..13 /\ loop.call # 6
    <3>1. loop' = AtCall(loop.call + 1) /\ loop.call + 1 \in 0..14
      BY <1>1, <2>4 DEF LoopCallReturn, AfterCall
    <3>2. QED
      BY <1>1, <3>1, LoopValues DEF LoopCallReturn
  <2>5. QED
    BY <2>1, <2>2, <2>3, <2>4
<1>2. CASE FirstAl \/ Toggle
  <2>1. loop' = AtCall(7) \/ loop' = [loop EXCEPT !.at = "toggle"]
    BY <1>2 DEF FirstAl, Toggle
  <2>2. CASE loop' = AtCall(7)
    BY <1>2, <2>2, LoopValues DEF FirstAl, Toggle
  <2>3. CASE loop' = [loop EXCEPT !.at = "toggle"]
    BY <1>2, <2>3 DEF FirstAl, Toggle, Loops
  <2>4. QED
    BY <2>1, <2>2, <2>3
<1>3. CASE Action
  <2>1. loop.at = "action"
        /\ \/ loop' = PollTail \/ loop' = Dispatch("first_special", 0)
           \/ \E a \in {"second_special", "key", "other"} :
                loop' = [loop EXCEPT !.at = "guard", !.action = a]
    BY <1>3 DEF Action
  <2>2. CASE loop' = PollTail \/ loop' = Dispatch("first_special", 0)
    BY <2>1, <2>2, LoopValues
  <2>3. CASE \E a \in {"second_special", "key", "other"} :
               loop' = [loop EXCEPT !.at = "guard", !.action = a]
    BY <2>1, <2>3 DEF Loops
  <2>4. QED
    BY <2>1, <2>2, <2>3
<1>4. CASE Guard
  <2>1. loop.at = "guard"
        /\ \/ loop' = PollTail \/ loop' = Dispatch("second_special", 0)
           \/ \E k \in Keys : loop' = Dispatch("key", k)
    BY <1>4 DEF Guard
  <2>2. \A k \in Keys : k \in 0..10
    BY DEF Keys
  <2>3. QED
    BY <2>1, <2>2, LoopValues
<1>5. QED
  BY <1>1, <1>2, <1>3, <1>4

LEMMA LoopStepKeeps == GameInv /\ LoopStep => GameInv'
<1> SUFFICES ASSUME GameInv, LoopStep PROVE GameInv'
  OBVIOUS
<1>0. /\ loop' \in Loops /\ loop.at # "dispatch"
      /\ loop'.at = "dispatch" => /\ loop' = Dispatch(loop'.action, loop'.key)
                                  /\ loop'.action = "key" => loop'.key \in Keys
                                  /\ loop'.action # "key" => loop'.key = 0
  BY LoopStepLeads
<1> USE DEF GameInv, LoopStep
<1>1. GameShape'
  BY <1>0 DEF GameShape
<1>2. HandlerIsPlaced'
  BY DEF GameShape, HandlerIsPlaced, LoopIsOpen, DispatchIsOwned, TableGrows
<1>3. LoopIsOpen'
  <2>1. loop'.at = "dispatch" => /\ loop' = Dispatch(loop'.action, loop'.key)
                                 /\ loop'.action = "key" => loop'.key \in Keys
                                 /\ loop'.action # "key" => loop'.key = 0
    BY <1>0
  <2>2. kind' = "post_overlay_loop"
    OBVIOUS
  <2>3. QED
    BY <2>1, <2>2 DEF LoopIsOpen
<1>4. DispatchIsOwned'
  <2>1. loop.at # "dispatch"
    BY <1>0
  <2>2. \A a \in {"first_special", "second_special"} : loop # Dispatch(a, 0)
    BY <2>1, LoopValues
  <2>3. QED
    BY <2>2 DEF DispatchIsOwned
<1>5. TableGrows'
  BY DEF GameShape, HandlerIsPlaced, LoopIsOpen, DispatchIsOwned, TableGrows
<1>6. QED
  BY <1>1, <1>2, <1>3, <1>4, <1>5

LEMMA BeginHandlerKeeps == GameInv /\ BeginHandler => GameInv'
<1> SUFFICES ASSUME GameInv, BeginHandler PROVE GameInv'
  OBVIOUS
<1> USE DEF GameInv, BeginHandler
<1>1. GameShape'
  BY GameAssumption DEF GameShape, NoSix
<1>2. HandlerIsPlaced'
  <2>1. loop.key \in Keys /\ handler' = [key |-> loop.key, at |-> 1]
    BY DEF LoopIsOpen
  <2>2. 1 <= PlaceCount[loop.key] /\ PlaceCount[loop.key] \in 1..54 /\ loop.key # 0
    BY <2>1, PlaceCounts DEF Keys
  <2>3. handler'.key = loop.key /\ handler'.at = 1
    BY <2>1
  <2>4. handler' # NoHandler
    BY <2>2, <2>3 DEF NoHandler
  <2>5. QED
    BY <2>1, <2>2, <2>3, <2>4 DEF HandlerIsPlaced
<1>3. LoopIsOpen'
  BY DEF GameShape, HandlerIsPlaced, LoopIsOpen, DispatchIsOwned, TableGrows
<1>4. DispatchIsOwned'
  <2>1. loop.key \in Keys /\ loop = Dispatch("key", loop.key) /\ handler' = [key |-> loop.key, at |-> 1]
    BY DEF LoopIsOpen
  <2>2. handler'.key = loop.key /\ loop.key # 0
    BY <2>1 DEF Keys
  <2>3. handler' # NoHandler
    BY <2>2 DEF NoHandler
  <2>4. QED
    BY <2>1, <2>2, <2>3 DEF DispatchIsOwned
<1>5. TableGrows'
  <2>1. handler'.at = 1 /\ six' = NoSix
    OBVIOUS
  <2>2. Cardinality({}) = 0
    BY FS_EmptySet
  <2>3. QED
    BY <2>1, <2>2, GameAssumption DEF TableGrows, NoSix, Draw, Layout, LayoutRefresh, LayoutFinal
<1>6. QED
  BY <1>1, <1>2, <1>3, <1>4, <1>5

LEMMA CompleteHandlerKeeps == GameInv /\ CompleteHandler => GameInv'
<1> SUFFICES ASSUME GameInv, CompleteHandler PROVE GameInv'
  OBVIOUS
<1> USE DEF GameInv, CompleteHandler
<1>1. GameShape'
  BY LoopValues DEF GameShape, HandlerIsPlaced, Running, DispatchReturns
<1>2. HandlerIsPlaced'
  BY DEF GameShape, HandlerIsPlaced, LoopIsOpen, DispatchIsOwned, TableGrows, Running,
       DispatchReturns, PollTail, AtCall, NoLoop, NoHandler, Dispatch
<1>3. LoopIsOpen'
  BY DEF GameShape, HandlerIsPlaced, LoopIsOpen, DispatchIsOwned, TableGrows, Running,
       DispatchReturns, PollTail, AtCall, NoLoop, NoHandler, Dispatch
<1>4. DispatchIsOwned'
  BY DEF GameShape, HandlerIsPlaced, LoopIsOpen, DispatchIsOwned, TableGrows, Running,
       DispatchReturns, PollTail, AtCall, NoLoop, NoHandler, Dispatch
<1>5. TableGrows'
  BY DEF GameShape, HandlerIsPlaced, LoopIsOpen, DispatchIsOwned, TableGrows, Running,
       DispatchReturns, PollTail, AtCall, NoLoop, NoHandler, Dispatch
<1>6. QED
  BY <1>1, <1>2, <1>3, <1>4, <1>5

LEMMA EnterHandoffKeeps == GameInv /\ EnterHandoff => GameInv'
<1> SUFFICES ASSUME GameInv, EnterHandoff PROVE GameInv'
  OBVIOUS
<1> USE DEF GameInv, EnterHandoff
<1>1. GameShape'
  BY DEF GameShape, HandlerIsPlaced, LoopIsOpen, DispatchIsOwned, TableGrows, Running, NoHandler
<1>2. HandlerIsPlaced'
  BY DEF GameShape, HandlerIsPlaced, LoopIsOpen, DispatchIsOwned, TableGrows, Running, NoHandler
<1>3. LoopIsOpen'
  BY DEF GameShape, HandlerIsPlaced, LoopIsOpen, DispatchIsOwned, TableGrows, Running, NoHandler
<1>4. DispatchIsOwned'
  BY DEF GameShape, HandlerIsPlaced, LoopIsOpen, DispatchIsOwned, TableGrows, Running, NoHandler
<1>5. TableGrows'
  BY DEF GameShape, HandlerIsPlaced, LoopIsOpen, DispatchIsOwned, TableGrows, Running, NoHandler
<1>6. QED
  BY <1>1, <1>2, <1>3, <1>4, <1>5

LEMMA EnterCallbackKeeps == GameInv /\ EnterCallback => GameInv'
<1> SUFFICES ASSUME GameInv, EnterCallback PROVE GameInv'
  OBVIOUS
<1> USE DEF GameInv, EnterCallback
<1>1. GameShape'
  BY DEF GameShape, HandlerIsPlaced, LoopIsOpen, DispatchIsOwned, TableGrows, NoHandler
<1>2. HandlerIsPlaced'
  BY DEF GameShape, HandlerIsPlaced, LoopIsOpen, DispatchIsOwned, TableGrows, NoHandler
<1>3. LoopIsOpen'
  BY DEF GameShape, HandlerIsPlaced, LoopIsOpen, DispatchIsOwned, TableGrows, NoHandler
<1>4. DispatchIsOwned'
  BY DEF GameShape, HandlerIsPlaced, LoopIsOpen, DispatchIsOwned, TableGrows, NoHandler
<1>5. TableGrows'
  BY DEF GameShape, HandlerIsPlaced, LoopIsOpen, DispatchIsOwned, TableGrows, NoHandler
<1>6. QED
  BY <1>1, <1>2, <1>3, <1>4, <1>5

LEMMA BeginHelperKeeps == GameInv /\ BeginHelper => GameInv'
<1> SUFFICES ASSUME GameInv, BeginHelper PROVE GameInv'
  OBVIOUS
<1> USE DEF GameInv, BeginHelper
<1>1. GameShape'
  BY DEF GameShape, HandlerIsPlaced, LoopIsOpen, DispatchIsOwned, TableGrows, InSeventh
<1>2. HandlerIsPlaced'
  BY DEF GameShape, HandlerIsPlaced, LoopIsOpen, DispatchIsOwned, TableGrows, InSeventh
<1>3. LoopIsOpen'
  BY DEF GameShape, HandlerIsPlaced, LoopIsOpen, DispatchIsOwned, TableGrows, InSeventh
<1>4. DispatchIsOwned'
  <2>1. loop.at = "dispatch" /\ loop.action = "first_special" => loop = Dispatch("first_special", 0)
    BY DEF LoopIsOpen
  <2>2. QED
    BY <2>1 DEF DispatchIsOwned, InSeventh
<1>5. TableGrows'
  BY DEF GameShape, HandlerIsPlaced, LoopIsOpen, DispatchIsOwned, TableGrows, InSeventh
<1>6. QED
  BY <1>1, <1>2, <1>3, <1>4, <1>5

LEMMA HelperStepKeeps == GameInv /\ HelperStep => GameInv'
<1> SUFFICES ASSUME GameInv, HelperStep PROVE GameInv'
  OBVIOUS
<1> USE DEF GameInv, HelperStep
<1>1. GameShape'
  BY DEF GameShape, HandlerIsPlaced, LoopIsOpen, DispatchIsOwned, TableGrows, InSeventh, HelperMove
<1>2. HandlerIsPlaced'
  BY DEF GameShape, HandlerIsPlaced, LoopIsOpen, DispatchIsOwned, TableGrows, InSeventh, HelperMove
<1>3. LoopIsOpen'
  BY DEF GameShape, HandlerIsPlaced, LoopIsOpen, DispatchIsOwned, TableGrows, InSeventh, HelperMove
<1>4. DispatchIsOwned'
  BY DEF GameShape, HandlerIsPlaced, LoopIsOpen, DispatchIsOwned, TableGrows, InSeventh, HelperMove
<1>5. TableGrows'
  BY DEF GameShape, HandlerIsPlaced, LoopIsOpen, DispatchIsOwned, TableGrows, InSeventh, HelperMove
<1>6. QED
  BY <1>1, <1>2, <1>3, <1>4, <1>5

LEMMA FirstSpecialReturnsKeeps == GameInv /\ FirstSpecialReturns => GameInv'
<1> SUFFICES ASSUME GameInv, FirstSpecialReturns PROVE GameInv'
  OBVIOUS
<1> USE DEF GameInv, FirstSpecialReturns
<1>1. GameShape'
  BY LoopValues DEF GameShape, DispatchReturns
<1>2. HandlerIsPlaced'
  BY DEF GameShape, HandlerIsPlaced, LoopIsOpen, DispatchIsOwned, TableGrows, DispatchReturns,
       PollTail, AtCall, NoLoop, Dispatch
<1>3. LoopIsOpen'
  BY DEF GameShape, HandlerIsPlaced, LoopIsOpen, DispatchIsOwned, TableGrows, DispatchReturns,
       PollTail, AtCall, NoLoop, Dispatch
<1>4. DispatchIsOwned'
  BY DEF GameShape, HandlerIsPlaced, LoopIsOpen, DispatchIsOwned, TableGrows, DispatchReturns,
       PollTail, AtCall, NoLoop, Dispatch
<1>5. TableGrows'
  BY DEF GameShape, HandlerIsPlaced, LoopIsOpen, DispatchIsOwned, TableGrows, DispatchReturns,
       PollTail, AtCall, NoLoop, Dispatch
<1>6. QED
  BY <1>1, <1>2, <1>3, <1>4, <1>5

LEMMA AdapterStepKeeps == GameInv /\ AdapterStep => GameInv'
<1> SUFFICES ASSUME GameInv, AdapterStep PROVE GameInv'
  OBVIOUS
<1> USE DEF GameInv, AdapterStep
<1>1. GameShape'
  BY DEF GameShape, HandlerIsPlaced, LoopIsOpen, DispatchIsOwned, TableGrows, AdapterMove, Dispatch
<1>2. HandlerIsPlaced'
  BY DEF GameShape, HandlerIsPlaced, LoopIsOpen, DispatchIsOwned, TableGrows, AdapterMove, Dispatch
<1>3. LoopIsOpen'
  BY DEF GameShape, HandlerIsPlaced, LoopIsOpen, DispatchIsOwned, TableGrows, AdapterMove, Dispatch
<1>4. DispatchIsOwned'
  BY DEF GameShape, HandlerIsPlaced, LoopIsOpen, DispatchIsOwned, TableGrows, AdapterMove, Dispatch
<1>5. TableGrows'
  BY DEF GameShape, HandlerIsPlaced, LoopIsOpen, DispatchIsOwned, TableGrows, AdapterMove, Dispatch
<1>6. QED
  BY <1>1, <1>2, <1>3, <1>4, <1>5

LEMMA SecondSpecialReturnsKeeps == GameInv /\ SecondSpecialReturns => GameInv'
<1> SUFFICES ASSUME GameInv, SecondSpecialReturns PROVE GameInv'
  OBVIOUS
<1> USE DEF GameInv, SecondSpecialReturns
<1>1. GameShape'
  BY LoopValues DEF GameShape, DispatchReturns
<1>2. HandlerIsPlaced'
  BY DEF GameShape, HandlerIsPlaced, LoopIsOpen, DispatchIsOwned, TableGrows, DispatchReturns,
       PollTail, AtCall, NoLoop, Dispatch
<1>3. LoopIsOpen'
  BY DEF GameShape, HandlerIsPlaced, LoopIsOpen, DispatchIsOwned, TableGrows, DispatchReturns,
       PollTail, AtCall, NoLoop, Dispatch
<1>4. DispatchIsOwned'
  BY DEF GameShape, HandlerIsPlaced, LoopIsOpen, DispatchIsOwned, TableGrows, DispatchReturns,
       PollTail, AtCall, NoLoop, Dispatch
<1>5. TableGrows'
  BY DEF GameShape, HandlerIsPlaced, LoopIsOpen, DispatchIsOwned, TableGrows, DispatchReturns,
       PollTail, AtCall, NoLoop, Dispatch
<1>6. QED
  BY <1>1, <1>2, <1>3, <1>4, <1>5

(* A handler that goes on to another of its places keeps its key.          *)
LEMMA GoesOn ==
  ASSUME GameInv, kind = "handler", NEW to \in 1..PlaceCount[handler.key]
  PROVE  /\ [handler EXCEPT !.at = to] \in [key : Keys, at : 1..54]
         /\ [handler EXCEPT !.at = to].key = handler.key /\ [handler EXCEPT !.at = to].at = to
         /\ [handler EXCEPT !.at = to] # NoHandler
<1>1. handler \in [key : Keys, at : 1..54]
  BY DEF GameInv, HandlerIsPlaced
<1>2. PlaceCount[handler.key] \in 1..54 /\ handler.key # 0
  BY <1>1, PlaceCounts DEF Keys
<1>3. to \in 1..54
  BY <1>2
<1>4. [handler EXCEPT !.at = to] \in [key : Keys, at : 1..54]
  BY <1>1, <1>3
<1>5. [handler EXCEPT !.at = to].key = handler.key /\ [handler EXCEPT !.at = to].at = to
  BY <1>1
<1>6. QED
  BY <1>2, <1>4, <1>5 DEF NoHandler

(* So a step that moves a running handler and nothing but its table keeps  *)
(* all but what the table says.                                            *)
LEMMA MovesKeep ==
  ASSUME GameInv, kind = "handler", NEW to \in 1..PlaceCount[handler.key],
         handler' = [handler EXCEPT !.at = to],
         UNCHANGED <<kind, parent, process, loop, adapter, completed>>,
         six' \in [taken : SUBSET (1..Slots), slot : 0..(Slots + 1), far : {"none", "fits", "wraps"}],
         UNCHANGED helper \/ (helper.at = "at_return" /\ helper' = [helper EXCEPT !.at = "returned"])
  PROVE  GameShape' /\ HandlerIsPlaced' /\ LoopIsOpen' /\ DispatchIsOwned'
<1>1. handler' \in [key : Keys, at : 1..54] /\ handler'.key = handler.key /\ handler'.at = to
      /\ handler' # NoHandler
  BY GoesOn
<1>2. /\ helper' \in [at : {"none", "segment", "table_word", "inner_return", "at_return", "returned",
                            "over"},
                      caller : {"none", "seventh", "special"}]
      /\ (helper'.caller = "special" /\ helper'.at # "over")
           => (helper.caller = "special" /\ helper.at # "over")
  BY DEF GameInv, GameShape
<1>3. GameShape'
  BY <1>2 DEF GameInv, GameShape
<1>4. HandlerIsPlaced'
  BY <1>1 DEF GameInv, HandlerIsPlaced
<1>5. LoopIsOpen'
  BY DEF GameInv, LoopIsOpen
<1>6. DispatchIsOwned'
  BY <1>1, <1>2 DEF GameInv, DispatchIsOwned
<1>7. QED
  BY <1>3, <1>4, <1>5, <1>6

LEMMA HandlerStepKeeps == GameInv /\ HandlerStep => GameInv'
<1> SUFFICES ASSUME GameInv, HandlerStep PROVE GameInv'
  OBVIOUS
<1>1. PICK to \in {Place.zero, Place.other} \ {0} : handler' = [handler EXCEPT !.at = to]
  BY DEF HandlerStep
<1>2. /\ kind = "handler" /\ handler \in [key : Keys, at : 1..54]
      /\ handler.at \in 1..PlaceCount[handler.key]
  BY DEF HandlerStep, Running, GameInv, HandlerIsPlaced
<1>3. PlaceCount[handler.key] \in Nat
  BY <1>2, PlaceCounts DEF Keys
<1>4. to \in 1..PlaceCount[handler.key]
  BY <1>1, <1>2, <1>3, PlacesLead DEF Place
<1>5. /\ UNCHANGED <<kind, parent, process, loop, six, helper, adapter, completed>>
      /\ six \in [taken : SUBSET (1..Slots), slot : 0..(Slots + 1), far : {"none", "fits", "wraps"}]
  BY DEF HandlerStep, GameInv, GameShape
<1>6. GameShape' /\ HandlerIsPlaced' /\ LoopIsOpen' /\ DispatchIsOwned'
  BY <1>1, <1>2, <1>4, <1>5, MovesKeep
<1>7. ASSUME handler.key = 6
      PROVE  /\ handler.at \notin {Draw, Layout, LayoutRefresh}
             /\ handler.at < Draw => to <= Draw
             /\ handler.at = Draw + 1 => FALSE
             /\ handler.at >= LayoutFinal => to >= LayoutFinal
  <2>1. handler.at \in 1..54 /\ handler.at \notin SixthSteps
    BY <1>2, <1>7 DEF HandlerStep
  <2>2. to \in {Handler[6][handler.at].zero, Handler[6][handler.at].other} \ {0}
    BY <1>7 DEF Place
  <2>3. QED
    BY <2>1, <2>2, SixthLeads DEF SixthSteps
<1>8. handler'.key = handler.key /\ handler'.at = to
  BY <1>1, <1>2
<1>9. TableGrows'
  BY <1>2, <1>4, <1>5, <1>7, <1>8 DEF GameInv, TableGrows, Draw, Layout, LayoutRefresh, LayoutFinal
<1>10. QED
  BY <1>6, <1>9 DEF GameInv

(* The steps of the sixth that are more than its next place.               *)
SixthNumbers == {10, Restoration, HelperPrefix, FarSegment - 1, FarSegment, FarSegment + 1,
                 Draw - 1, Draw, Draw + 1, Layout, LayoutRefresh, LayoutFinal}

LEMMA SixthMoves ==
  ASSUME GameInv, Running, handler.key = 6, NEW to \in SixthNumbers,
         handler' = [handler EXCEPT !.at = to],
         UNCHANGED <<kind, parent, process, loop, helper, adapter, completed>>,
         six' \in [taken : SUBSET (1..Slots), slot : 0..(Slots + 1), far : {"none", "fits", "wraps"}]
  PROVE  /\ GameShape' /\ HandlerIsPlaced' /\ LoopIsOpen' /\ DispatchIsOwned'
         /\ handler'.key = 6 /\ handler'.at = to /\ kind' = "handler"
<1>1. kind = "handler" /\ handler \in [key : Keys, at : 1..54]
  BY DEF Running, GameInv, HandlerIsPlaced
<1>2. to \in 1..PlaceCount[handler.key]
  BY PlaceCounts DEF SixthNumbers, Restoration, HelperPrefix, FarSegment, Draw, Layout,
     LayoutRefresh, LayoutFinal
<1>3. QED
  BY <1>1, <1>2, MovesKeep

LEMMA SixthIsTyped ==
  ASSUME GameInv
  PROVE  six \in [taken : SUBSET (1..Slots), slot : 0..(Slots + 1), far : {"none", "fits", "wraps"}]
BY DEF GameInv, GameShape

LEMMA FarBlockKeeps == GameInv /\ FarBlock => GameInv'
<1> SUFFICES ASSUME GameInv, FarBlock PROVE GameInv'
  OBVIOUS
<1>1. /\ Running /\ handler.key = 6 /\ handler.at \in {FarSegment - 1, FarSegment}
      /\ \E to \in {FarSegment, FarSegment + 1} : handler' = [handler EXCEPT !.at = to]
      /\ UNCHANGED <<kind, parent, process, loop, helper, adapter, completed>>
  BY DEF FarBlock, InSixth
<1>2. PICK f \in {"none", "fits", "wraps"} : six' = [six EXCEPT !.far = f]
  BY SixthIsTyped DEF FarBlock
<1>3. /\ six' \in [taken : SUBSET (1..Slots), slot : 0..(Slots + 1), far : {"none", "fits", "wraps"}]
      /\ six'.taken = six.taken
  BY <1>2, SixthIsTyped
<1>4. PICK to \in {FarSegment, FarSegment + 1} : handler' = [handler EXCEPT !.at = to]
  BY <1>1
<1>5. /\ GameShape' /\ HandlerIsPlaced' /\ LoopIsOpen' /\ DispatchIsOwned'
      /\ handler'.key = 6 /\ handler'.at = to /\ kind' = "handler"
  BY <1>1, <1>3, <1>4, SixthMoves DEF SixthNumbers
<1>6. TableGrows'
  BY <1>1, <1>3, <1>5 DEF GameInv, Running, TableGrows, FarSegment, Draw, Layout, LayoutRefresh,
     LayoutFinal
<1>7. QED
  BY <1>5, <1>6 DEF GameInv

(* A draw is a slot of the table, and takes one more or none.              *)
LEMMA DrawsOne ==
  ASSUME NEW taken \in SUBSET ((1..Slots) \ Excluded), NEW value \in 0..DrawLimit
  PROVE  /\ DrawTaken(taken, value) \in SUBSET ((1..Slots) \ Excluded)
         /\ Cardinality(taken) \in Nat
         /\ Cardinality(DrawTaken(taken, value)) \in {Cardinality(taken), Cardinality(taken) + 1}
<1> DEFINE c == Candidate(value)
<1>1. c \in 1..Slots
  <2>1. CASE value >= Slots
    <3>1. value \div 2 \in Nat /\ value \div 2 <= DrawLimit \div 2
      BY GameAssumption
    <3>2. c = 1 + value \div 2
      BY <2>1 DEF Candidate
    <3>3. QED
      BY <3>1, <3>2, GameAssumption
  <2>2. CASE ~(value >= Slots)
    BY <2>2, GameAssumption DEF Candidate
  <2>3. QED
    BY <2>1, <2>2
<1>2. IsFiniteSet(taken) /\ Cardinality(taken) \in Nat
  <2>1. IsFiniteSet(1..Slots)
    BY FS_Interval, GameAssumption
  <2>2. IsFiniteSet(taken)
    BY <2>1, FS_Subset
  <2>3. QED
    BY <2>2, FS_CardinalityType
<1> HIDE DEF c
<1>3. CASE c \in Excluded
  <2>1. DrawTaken(taken, value) = taken
    BY <1>3 DEF DrawTaken, c
  <2>2. QED
    BY <1>2, <2>1
<1>4. CASE c \notin Excluded
  <2>1. DrawTaken(taken, value) = taken \union {c}
    BY <1>4 DEF DrawTaken, c
  <2>2. QED
    BY <1>1, <1>2, <1>4, <2>1, FS_AddElement
<1>5. QED
  BY <1>3, <1>4

LEMMA DrawCandidateKeeps == GameInv /\ DrawCandidate => GameInv'
<1> SUFFICES ASSUME GameInv, DrawCandidate PROVE GameInv'
  OBVIOUS
<1>1. PICK value \in 0..DrawLimit : six' = [six EXCEPT !.taken = DrawTaken(six.taken, value)]
  BY DEF DrawCandidate
<1>2. /\ Running /\ handler.key = 6 /\ handler.at = Draw
      /\ handler' = [handler EXCEPT !.at = IF Cardinality(six'.taken) = Wanted
                                           THEN Draw + 1 ELSE Draw - 1]
      /\ UNCHANGED <<kind, parent, process, loop, helper, adapter, completed>>
  BY DEF DrawCandidate, InSixth
<1>3. six.taken \in SUBSET ((1..Slots) \ Excluded) /\ Cardinality(six.taken) < Wanted
  BY <1>2 DEF GameInv, TableGrows, Running, Draw
<1>4. six'.taken = DrawTaken(six.taken, value)
  BY <1>1, SixthIsTyped
<1>5. /\ six'.taken \in SUBSET ((1..Slots) \ Excluded)
      /\ Cardinality(six'.taken) < Wanted \/ Cardinality(six'.taken) = Wanted
  <2>1. Wanted \in Nat
    BY GameAssumption
  <2>2. QED
    BY <1>3, <1>4, <2>1, DrawsOne
<1>6. six' \in [taken : SUBSET (1..Slots), slot : 0..(Slots + 1), far : {"none", "fits", "wraps"}]
  BY <1>1, <1>4, <1>5, SixthIsTyped
<1>7. PICK to \in {Draw + 1, Draw - 1} :
        /\ handler' = [handler EXCEPT !.at = to]
        /\ to = Draw + 1 => Cardinality(six'.taken) = Wanted
        /\ to = Draw - 1 => Cardinality(six'.taken) < Wanted
  <2>1. CASE Cardinality(six'.taken) = Wanted
    <3>1. handler' = [handler EXCEPT !.at = Draw + 1]
      BY <1>2, <2>1
    <3>2. QED
      BY <2>1, <3>1 DEF Draw
  <2>2. CASE Cardinality(six'.taken) # Wanted
    <3>1. handler' = [handler EXCEPT !.at = Draw - 1]
      BY <1>2, <2>2
    <3>2. QED
      BY <1>5, <2>2, <3>1 DEF Draw
  <2>3. QED
    BY <2>1, <2>2
<1>8. /\ GameShape' /\ HandlerIsPlaced' /\ LoopIsOpen' /\ DispatchIsOwned'
      /\ handler'.key = 6 /\ handler'.at = to /\ kind' = "handler"
  BY <1>2, <1>6, <1>7, SixthMoves DEF SixthNumbers
<1>9. TableGrows'
  <2>1. TableGrows' = (/\ six'.taken \subseteq (1..Slots) \ Excluded
                       /\ to <= Draw => Cardinality(six'.taken) < Wanted
                       /\ to > Draw => Cardinality(six'.taken) = Wanted
                       /\ to \in {Layout, LayoutRefresh} => six'.slot \in 1..Slots
                       /\ to >= LayoutFinal => six'.slot = Slots + 1)
    BY <1>8 DEF TableGrows
  <2>2. QED
    BY <1>5, <1>7, <2>1 DEF Draw, Layout, LayoutRefresh, LayoutFinal
<1>10. QED
  BY <1>8, <1>9 DEF GameInv

LEMMA LayoutStepKeeps == GameInv /\ LayoutStep => GameInv'
<1> SUFFICES ASSUME GameInv, LayoutStep PROVE GameInv'
  OBVIOUS
<1> DEFINE Six == [taken : SUBSET (1..Slots), slot : 0..(Slots + 1), far : {"none", "fits", "wraps"}]
<1>1. /\ Running /\ handler.key = 6 /\ handler.at \in {Draw + 1, Layout, LayoutRefresh}
      /\ kind = "handler"
      /\ UNCHANGED <<kind, parent, process, loop, helper, adapter, completed>>
  BY DEF LayoutStep, InSixth, Running
<1>2. /\ six \in Six /\ six.taken \subseteq (1..Slots) \ Excluded
      /\ Cardinality(six.taken) = Wanted
      /\ handler.at \in {Layout, LayoutRefresh} => six.slot \in 1..Slots
  BY <1>1, SixthIsTyped DEF GameInv, TableGrows, Draw, Layout, LayoutRefresh
<1>3. Slots \in Nat \ {0}
  BY GameAssumption
<1>4. \E to \in {Layout, LayoutRefresh, LayoutFinal}, slot \in 1..(Slots + 1) :
        /\ handler' = [handler EXCEPT !.at = to] /\ six' = [six EXCEPT !.slot = slot]
        /\ to # LayoutFinal => slot \in 1..Slots
        /\ to = LayoutFinal => slot = Slots + 1
  <2>1. CASE six' = [six EXCEPT !.slot = 1] /\ handler' = [handler EXCEPT !.at = Layout]
    BY <1>3, <2>1 DEF Layout, LayoutFinal
  <2>2. CASE /\ handler.at = Layout /\ six' = six
             /\ handler' = [handler EXCEPT !.at = LayoutRefresh]
    <3>1. six' = [six EXCEPT !.slot = six.slot] /\ six.slot \in 1..Slots
      BY <1>2, <2>2
    <3>2. six.slot \in 1..(Slots + 1)
      BY <1>3, <3>1
    <3>3. LayoutRefresh # LayoutFinal
      BY DEF LayoutRefresh, LayoutFinal
    <3>4. QED
      BY <2>2, <3>1, <3>2, <3>3
  <2>3. CASE /\ handler.at \in {Layout, LayoutRefresh} /\ six' = [six EXCEPT !.slot = @ + 1]
             /\ handler' = [handler EXCEPT !.at = NextSlot(six.slot)]
    <3>1. six.slot \in 1..Slots /\ six.slot + 1 \in 1..(Slots + 1)
          /\ six' = [six EXCEPT !.slot = six.slot + 1]
      BY <1>2, <1>3, <2>3
    <3>2. CASE six.slot = Slots
      BY <2>3, <3>1, <3>2 DEF NextSlot, Layout, LayoutFinal
    <3>3. CASE six.slot # Slots
      <4>1. six.slot + 1 \in 1..Slots
        BY <1>3, <3>1, <3>3
      <4>2. QED
        BY <2>3, <3>1, <3>3, <4>1 DEF NextSlot, Layout, LayoutFinal
    <3>4. QED
      BY <3>2, <3>3
  <2>4. QED
    BY <2>1, <2>2, <2>3 DEF LayoutStep, InSixth
<1>5. PICK to \in {Layout, LayoutRefresh, LayoutFinal}, slot \in 1..(Slots + 1) :
        /\ handler' = [handler EXCEPT !.at = to] /\ six' = [six EXCEPT !.slot = slot]
        /\ to # LayoutFinal => slot \in 1..Slots
        /\ to = LayoutFinal => slot = Slots + 1
  BY <1>4
<1>6. six' \in Six /\ six'.taken = six.taken /\ six'.slot = slot
  BY <1>2, <1>3, <1>5
<1>7. /\ GameShape' /\ HandlerIsPlaced' /\ LoopIsOpen' /\ DispatchIsOwned'
      /\ handler'.key = 6 /\ handler'.at = to /\ kind' = "handler"
  BY <1>1, <1>5, <1>6, SixthMoves DEF SixthNumbers
<1>8. TableGrows'
  BY <1>2, <1>5, <1>6, <1>7 DEF TableGrows, Draw, Layout, LayoutRefresh, LayoutFinal
<1>9. QED
  BY <1>7, <1>8 DEF GameInv

LEMMA BeginSixthTailKeeps == GameInv /\ BeginSixthTail => GameInv'
<1> SUFFICES ASSUME GameInv, BeginSixthTail PROVE GameInv'
  OBVIOUS
<1>1. PICK to \in {Restoration, HelperPrefix} : handler' = [handler EXCEPT !.at = to]
  BY DEF BeginSixthTail
<1>2. /\ Running /\ handler.key = 6 /\ handler.at = 10 /\ kind = "handler"
      /\ UNCHANGED <<kind, parent, process, loop, six, helper, adapter, completed>>
  BY DEF BeginSixthTail, InSixth, Running
<1>3. /\ GameShape' /\ HandlerIsPlaced' /\ LoopIsOpen' /\ DispatchIsOwned'
      /\ handler'.key = 6 /\ handler'.at = to /\ kind' = "handler"
  BY <1>1, <1>2, SixthIsTyped, SixthMoves DEF SixthNumbers
<1>4. TableGrows'
  BY <1>2, <1>3 DEF GameInv, TableGrows, Restoration, HelperPrefix, Draw, Layout, LayoutRefresh,
     LayoutFinal
<1>5. QED
  BY <1>3, <1>4 DEF GameInv

LEMMA TailStepKeeps == GameInv /\ TailStep => GameInv'
<1> SUFFICES ASSUME GameInv, TailStep PROVE GameInv'
  OBVIOUS
<1>1. PICK to \in {TailPlace.zero, TailPlace.other} \ {0} : handler' = [handler EXCEPT !.at = to]
  BY DEF TailStep
<1>2. UNCHANGED <<kind, parent, process, loop, six, helper, adapter, completed>>
  BY DEF TailStep
<1>3. CASE kind = "callback"
  <2>1. handler \in [key : {2}, at : 1..16]
    BY <1>3 DEF GameInv, HandlerIsPlaced
  <2>2. to \in 1..16
    BY <1>1, <1>3, <2>1, TailsLead DEF TailPlace
  <2>3. handler' \in [key : {2}, at : 1..16] /\ handler'.key = 2
    BY <1>1, <2>1, <2>2
  <2>4. handler' # NoHandler /\ handler # NoHandler
    BY <2>1, <2>3 DEF NoHandler
  <2>5. QED
    BY <1>2, <1>3, <2>3, <2>4 DEF GameInv, GameShape, HandlerIsPlaced, LoopIsOpen,
       DispatchIsOwned, TableGrows
<1>4. CASE kind = "ninth_handoff"
  <2>1. handler \in [key : {9}, at : 1..15]
    BY <1>4 DEF GameInv, HandlerIsPlaced
  <2>2. to \in 1..15
    BY <1>1, <1>4, <2>1, TailsLead DEF TailPlace
  <2>3. handler' \in [key : {9}, at : 1..15] /\ handler'.key = 9
    BY <1>1, <2>1, <2>2
  <2>4. handler' # NoHandler /\ handler # NoHandler
    BY <2>1, <2>3 DEF NoHandler
  <2>5. QED
    BY <1>2, <1>4, <2>3, <2>4 DEF GameInv, GameShape, HandlerIsPlaced, LoopIsOpen,
       DispatchIsOwned, TableGrows
<1>5. QED
  BY <1>3, <1>4 DEF TailStep

(* The call's return is the only place the seventh's helper call leads to. *)
LEMMA HelperReturnsKeeps == GameInv /\ HelperReturns => GameInv'
<1> SUFFICES ASSUME GameInv, HelperReturns PROVE GameInv'
  OBVIOUS
<1>1. /\ helper.at = "at_return" /\ helper' = [helper EXCEPT !.at = "returned"]
      /\ UNCHANGED <<kind, parent, process, loop, six, adapter, completed>>
  BY DEF HelperReturns
<1>2. CASE helper.caller = "seventh"
  <2>1. /\ kind = "handler" /\ handler.key = 7 /\ handler.at = 4
        /\ handler' = [handler EXCEPT !.at = 5]
    BY <1>2 DEF HelperReturns, InSeventh, HelperCall
  <2>2. 5 \in 1..PlaceCount[handler.key]
    BY <2>1, PlaceCounts
  <2>3. GameShape' /\ HandlerIsPlaced' /\ LoopIsOpen' /\ DispatchIsOwned'
    BY <1>1, <2>1, <2>2, SixthIsTyped, MovesKeep
  <2>4. handler'.key = 7
    BY <2>1, <2>2, GoesOn
  <2>5. QED
    BY <2>3, <2>4 DEF GameInv, TableGrows
<1>3. CASE helper.caller # "seventh"
  <2>1. UNCHANGED handler
    BY <1>3 DEF HelperReturns
  <2>2. QED
    BY <1>1, <2>1 DEF GameInv, GameShape, HandlerIsPlaced, LoopIsOpen, DispatchIsOwned, TableGrows
<1>4. QED
  BY <1>2, <1>3

LEMMA GameInvNext == GameInv /\ GameStep => GameInv'
BY HandOverStepKeeps, ProcessEntryKeeps, InterruptReturnKeeps, AdmitStartupTraceKeeps,
   BeginLoopKeeps, LoopStepKeeps, BeginHandlerKeeps, HandlerStepKeeps, FarBlockKeeps,
   DrawCandidateKeeps, LayoutStepKeeps, BeginSixthTailKeeps, CompleteHandlerKeeps,
   EnterHandoffKeeps, EnterCallbackKeeps, TailStepKeeps, BeginHelperKeeps, HelperStepKeeps,
   HelperReturnsKeeps, FirstSpecialReturnsKeeps, AdapterStepKeeps, SecondSpecialReturnsKeeps
   DEF GameStep

-----------------------------------------------------------------------------
(* The way to the game: the state the controller goes by besides.          *)
PathInv ==
  /\ GameInv /\ PathTypeOK
  /\ front = "host" => shown = IF kind = "none" THEN Menu
                               ELSE IF shown = Returning THEN Returning ELSE StateFor(kind, handler)

(* A call that is only forwarded leaves the state as it is published.      *)
Stays == kind' = kind /\ (kind = "handler" => handler'.key = handler.key)

ForwardedCalls ==
  \/ HandOverStep \/ ProcessEntry \/ InterruptReturn \/ LoopStep \/ HandlerStep \/ FarBlock
  \/ DrawCandidate \/ LayoutStep \/ BeginSixthTail \/ TailStep \/ BeginHelper \/ HelperStep
  \/ HelperReturns \/ FirstSpecialReturns \/ AdapterStep \/ SecondSpecialReturns

FollowedCalls ==
  \/ AdmitStartupTrace \/ BeginLoop \/ BeginHandler \/ CompleteHandler \/ EnterHandoff
  \/ EnterCallback

LEMMA ForwardedStay == GameInv /\ ForwardedCalls => Stays
<1> SUFFICES ASSUME GameInv, ForwardedCalls PROVE Stays
  OBVIOUS
<1>1. kind = "handler" => handler \in [key : Keys, at : 1..54]
  BY DEF GameInv, HandlerIsPlaced
<1>2. kind' = kind
  BY DEF ForwardedCalls, HandOverStep, ProcessEntry, InterruptReturn, LoopStep, HandlerStep,
     FarBlock, DrawCandidate, LayoutStep, BeginSixthTail, TailStep, BeginHelper, HelperStep,
     HelperReturns, FirstSpecialReturns, AdapterStep, SecondSpecialReturns
<1>3. \/ UNCHANGED handler \/ (\E to : handler' = [handler EXCEPT !.at = to])
  BY DEF ForwardedCalls, HandOverStep, ProcessEntry, InterruptReturn, LoopStep, HandlerStep,
     FarBlock, DrawCandidate, LayoutStep, BeginSixthTail, TailStep, BeginHelper, HelperStep,
     HelperReturns, FirstSpecialReturns, AdapterStep, SecondSpecialReturns
<1>4. QED
  BY <1>1, <1>2, <1>3 DEF Stays

LEMMA FollowedLead == GameInv /\ FollowedCalls => kind' # "none"
BY DEF FollowedCalls, AdmitStartupTrace, BeginLoop, BeginHandler, CompleteHandler, EnterHandoff,
   EnterCallback

(* The host's calls and the launcher's are the game's, forwarded or        *)
(* followed; only the two steps of the revocation are the host's own.      *)
LEMMA PathIsGame ==
  ASSUME PathStep
  PROVE  \/ ForwardedCalls /\ UNCHANGED shown
         \/ FollowedCalls /\ shown' = StateFor(kind', handler')
         \/ BeginGameRevocation
         \/ FinishGameRevocation
<1>1. CASE HostHandOffPath
  BY <1>1 DEF HostHandOffPath, HandOffCalls, StartupCalls, LoopCalls, Forwards, Follows,
     ForwardedCalls, FollowedCalls
<1>2. CASE HostHandlerPath
  BY <1>2 DEF HostHandlerPath, FirstCalls, SecondCalls, ThirdCalls, FourthCalls, FifthCalls,
     SixthCalls, SeventhCalls, EighthCalls, NinthCalls, TenthCalls, CompletionCalls, Dispatched,
     Tells, Forwards, Follows, ForwardedCalls, FollowedCalls
<1>3. CASE HostSpecialPath
  BY <1>3 DEF HostSpecialPath, HelperCalls, AdapterCalls, CallbackCalls, Forwards, Follows,
     ForwardedCalls, FollowedCalls
<1>4. QED
  BY <1>1, <1>2, <1>3 DEF PathStep

LEMMA PathInvInit == PathInit => PathInv
<1> SUFFICES ASSUME PathInit PROVE PathInv
  OBVIOUS
<1>1. GameInv
  BY GameInvInit DEF PathInit
<1>2. shown = StateFor("title_handoff", handler) /\ kind = "title_handoff"
  BY DEF PathInit, GameInit
<1>3. shown = [kind |-> "title_handoff", key |-> 0]
  BY <1>2 DEF StateFor, At
<1>4. PathTypeOK
  BY <1>3 DEF PathInit, PathTypeOK
<1>5. QED
  BY <1>1, <1>2, <1>3, <1>4 DEF PathInv, Returning, At

LEMMA StatesAreTyped ==
  ASSUME NEW k \in {"title_handoff", "gx_startup", "post_overlay_loop", "handler",
                    "ninth_handoff", "callback"},
         NEW h, k = "handler" => h.key \in Keys
  PROVE  /\ StateFor(k, h).kind \in {"title_handoff", "gx_startup", "post_overlay_loop",
                       "handler", "ninth_handoff", "callback", "returning_to_menu", "menu"}
         /\ StateFor(k, h).key \in Keys \union {0}
BY DEF StateFor, At

LEMMA PathInvNext == PathInv /\ [PathStep]_pathVars => PathInv'
<1> SUFFICES ASSUME PathInv, [PathStep]_pathVars PROVE PathInv'
  OBVIOUS
<1>1. ASSUME UNCHANGED pathVars PROVE PathInv'
  <2>1. UNCHANGED <<gameVars, front, shown>>
    BY <1>1 DEF pathVars
  <2>2. UNCHANGED <<kind, parent, process, loop, handler, six, helper, adapter, completed, front, shown>>
    BY <2>1 DEF gameVars
  <2>3. QED
    BY <2>2 DEF PathInv, GameInv, GameShape, HandlerIsPlaced, LoopIsOpen, DispatchIsOwned,
       TableGrows, PathTypeOK
<1>2. ASSUME PathStep, ForwardedCalls, UNCHANGED shown PROVE PathInv'
  <2>1. GameInv' /\ Stays
    BY <1>2, GameInvNext, ForwardedStay DEF PathInv, ForwardedCalls, GameStep
  <2>2. UNCHANGED front
    BY <1>2 DEF PathStep
  <2>3. StateFor(kind', handler') = StateFor(kind, handler)
    BY <2>1 DEF Stays, StateFor
  <2>4. QED
    BY <1>2, <2>1, <2>2, <2>3 DEF PathInv, PathTypeOK, Stays
<1>3. ASSUME PathStep, FollowedCalls, shown' = StateFor(kind', handler') PROVE PathInv'
  <2>1. GameInv' /\ kind' # "none"
    BY <1>3, GameInvNext, FollowedLead DEF PathInv, FollowedCalls, GameStep
  <2>2. UNCHANGED front
    BY <1>3 DEF PathStep
  <2>3. PathTypeOK'
    <3>1. /\ kind' \in {"title_handoff", "gx_startup", "post_overlay_loop", "handler",
                        "ninth_handoff", "callback"}
          /\ kind' = "handler" => handler'.key \in Keys
      BY <2>1 DEF GameInv, GameShape, HandlerIsPlaced
    <3>2. QED
      BY <1>3, <2>2, <3>1, StatesAreTyped DEF PathInv, PathTypeOK
  <2>4. QED
    BY <1>3, <2>1, <2>2, <2>3 DEF PathInv
<1>4. ASSUME PathStep, BeginGameRevocation PROVE PathInv'
  <2>1. /\ front = "host" /\ shown # Returning /\ shown # Menu /\ shown' = Returning
        /\ UNCHANGED gameVars /\ UNCHANGED front
    BY <1>4 DEF BeginGameRevocation, PathStep
  <2>2. UNCHANGED <<kind, parent, process, loop, handler, six, helper, adapter, completed>>
    BY <2>1 DEF gameVars
  <2>3. GameInv'
    BY <2>2 DEF PathInv, GameInv, GameShape, HandlerIsPlaced, LoopIsOpen, DispatchIsOwned,
         TableGrows
  <2>4. PathTypeOK'
    BY <2>1 DEF PathInv, PathTypeOK, Returning, At
  <2>5. kind' # "none"
    BY <2>1, <2>2 DEF PathInv
  <2>6. QED
    BY <2>1, <2>3, <2>4, <2>5 DEF PathInv
<1>5. ASSUME PathStep, FinishGameRevocation PROVE PathInv'
  <2>1. /\ kind' = "none" /\ handler' = NoHandler /\ six' = NoSix /\ loop' = NoLoop
        /\ parent' = Left(parent) /\ process' = Left(process)
        /\ helper' = [at |-> "none", caller |-> "none"] /\ adapter' = "none"
        /\ completed' = [key |-> 0, at |-> 0] /\ shown' = Menu /\ UNCHANGED front
    BY <1>5 DEF FinishGameRevocation, PathStep
  <2>2. parent' \in Parents /\ process' \in Processes /\ parent'.segment = 0
        /\ process'.segment = 0 /\ process'.at = "left"
    BY <2>1 DEF PathInv, GameInv, GameShape, Parents, Processes, Left
  <2>3. GameShape'
    BY <2>1, <2>2, LoopValues, GameAssumption DEF GameShape, NoSix
  <2>4. HandlerIsPlaced' /\ LoopIsOpen' /\ TableGrows'
    BY <2>1, LoopValues DEF HandlerIsPlaced, LoopIsOpen, TableGrows
  <2>5. DispatchIsOwned'
    BY <2>1, <2>2 DEF DispatchIsOwned
  <2>6. PathTypeOK'
    BY <2>1 DEF PathInv, PathTypeOK, Menu, At
  <2>7. QED
    BY <2>1, <2>3, <2>4, <2>5, <2>6 DEF PathInv, GameInv
<1>6. QED
  BY <1>1, <1>2, <1>3, <1>4, <1>5, PathIsGame

(* What the invariant says of the game as it is met.                       *)
LEMMA PathIsSound == PathInv => GameIsSound /\ GameTypeOK /\ PathTypeOK
<1> SUFFICES ASSUME PathInv PROVE GameIsSound /\ GameTypeOK /\ PathTypeOK
  OBVIOUS
<1>1. TableIsWhole
  <2>1. SUFFICES ASSUME kind = "handler", handler.key = 6
                 PROVE  /\ six.taken \intersect Excluded = {}
                        /\ Cardinality(six.taken) <= Wanted
                        /\ handler.at > Draw => Cardinality(six.taken) = Wanted
                        /\ handler.at \in {Layout, LayoutRefresh} => six.slot \in 1..Slots
                        /\ handler.at >= LayoutFinal => six.slot = Slots + 1
    BY DEF TableIsWhole
  <2>2. /\ six.taken \subseteq (1..Slots) \ Excluded
        /\ handler.at <= Draw => Cardinality(six.taken) < Wanted
        /\ handler.at > Draw => Cardinality(six.taken) = Wanted
        /\ handler.at \in {Layout, LayoutRefresh} => six.slot \in 1..Slots
        /\ handler.at >= LayoutFinal => six.slot = Slots + 1
    BY <2>1 DEF PathInv, GameInv, TableGrows
  <2>3. handler.at \in 1..54 /\ Draw \in Nat /\ Wanted \in Nat
    BY <2>1, GameAssumption DEF PathInv, GameInv, HandlerIsPlaced, Draw
  <2>4. Cardinality(six.taken) \in Nat
    <3>1. IsFiniteSet(1..Slots)
      BY FS_Interval, GameAssumption
    <3>2. IsFiniteSet(six.taken)
      BY <2>2, <3>1, FS_Subset
    <3>3. QED
      BY <3>2, FS_CardinalityType
  <2>5. Cardinality(six.taken) <= Wanted
    BY <2>2, <2>3, <2>4
  <2>6. QED
    BY <2>2, <2>5
<1>2. StateFollowsGame
  <2>1. ASSUME kind = "handler" PROVE handler.key \in Keys /\ handler.at \in 1..PlaceCount[handler.key]
    BY <2>1 DEF PathInv, GameInv, HandlerIsPlaced
  <2>2. QED
    BY <2>1, PlacesLead DEF PathInv, StateFollowsGame, Place
<1>3. GameTypeOK
  <2>1. handler = NoHandler \/ handler \in [key : Keys, at : 1..54]
    <3>1. [key : {2}, at : 1..16] \subseteq [key : Keys, at : 1..54]
          /\ [key : {9}, at : 1..15] \subseteq [key : Keys, at : 1..54]
      BY DEF Keys
    <3>2. QED
      BY <3>1 DEF PathInv, GameInv, HandlerIsPlaced
  <2>2. QED
    BY <2>1 DEF PathInv, GameInv, GameShape, GameTypeOK, HandOverPlaces, Parents, Processes, Loops
<1>4. QED
  BY <1>1, <1>2, <1>3 DEF PathInv, GameInv, GameIsSound

(* A dispatch is left by a return only.                                    *)
LEMMA ReturnsByItsOwn ==
  PathInv /\ [PathStep]_pathVars =>
    [(loop.at = "dispatch" /\ loop' # loop /\ kind' # "none") =>
       /\ loop' = PollTail
       /\ loop.action = "key" => (Running /\ Place.asks = "return" /\ completed' = handler)
       /\ loop.action = "first_special" => (helper.caller = "special" /\ helper.at = "returned")
       /\ loop.action = "second_special" => adapter = "returned"]_gameVars
<1> SUFFICES ASSUME PathInv, [PathStep]_pathVars, loop.at = "dispatch", loop' # loop, kind' # "none"
             PROVE  /\ loop' = PollTail
                    /\ loop.action = "key" => (Running /\ Place.asks = "return" /\ completed' = handler)
                    /\ loop.action = "first_special" => (helper.caller = "special" /\ helper.at = "returned")
                    /\ loop.action = "second_special" => adapter = "returned"
  OBVIOUS
<1>1. PathStep
  BY DEF pathVars, gameVars
<1>2. ~BeginGameRevocation /\ ~FinishGameRevocation
  BY DEF BeginGameRevocation, FinishGameRevocation, gameVars
<1>3. ForwardedCalls \/ FollowedCalls
  BY <1>1, <1>2, PathIsGame
<1>4. ~LoopStep
  BY LoopStepLeads DEF PathInv
<1>5. ~BeginLoop
  BY LoopValues DEF PathInv, GameInv, LoopIsOpen, BeginLoop
<1>6. CompleteHandler \/ FirstSpecialReturns \/ SecondSpecialReturns
  BY <1>3, <1>4, <1>5 DEF ForwardedCalls, FollowedCalls, HandOverStep, ProcessEntry,
     InterruptReturn, HandlerStep, FarBlock, DrawCandidate, LayoutStep, BeginSixthTail, TailStep,
     BeginHelper, HelperStep, HelperReturns, AdapterStep, AdmitStartupTrace, BeginHandler,
     EnterHandoff, EnterCallback
<1>7. QED
  BY <1>6 DEF CompleteHandler, FirstSpecialReturns, SecondSpecialReturns, DispatchReturns

LEMMA SessionsArePaths == [SessionsNext]_sessionVars => [PathStep]_pathVars
BY DEF SessionsNext, sessionVars, DosTitleStep, TitleStageStep, MainStageStep,
       AtariSessionStep, GameSessionStep, DriverStep, BootstrapStep, LoaderStep

LEMMA SessionsKeepPath == SessionsSpec => []PathInv
<1>1. SessionsInit => PathInv
  BY PathInvInit DEF SessionsInit
<1>2. QED
  BY <1>1, SessionsArePaths, PathInvNext, PTL DEF SessionsSpec

(* A handler runs for the key the loop dispatched and while it waits for   *)
(* it, and so do the helper and the adapter; the sixth's table is whole    *)
(* before it is laid out; and the state the controller lets calls through  *)
(* by is the session's (MillenniumDosPostOverlayLoopSession, its handlers  *)
(* and the session controller): for any segments, table and limits.        *)
THEOREM GameIsSoundHolds == SessionsSpec => []GameIsSound
BY SessionsKeepPath, PathIsSound, PTL

(* What the loop dispatched comes back by a return of its own, to the last *)
(* four calls, a special action's after the helper or adapter it called.   *)
THEOREM DispatchReturnsHolds == SessionsSpec => DispatchReturnsByItsOwn
BY SessionsKeepPath, SessionsArePaths, ReturnsByItsOwn, PTL DEF SessionsSpec,
     DispatchReturnsByItsOwn

=============================================================================

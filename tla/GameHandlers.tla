----------------------------- MODULE GameHandlers -----------------------------
(***************************************************************************)
(* The ten function handlers of Millennium's game, its jump out of the     *)
(* ninth and its list callback, as the places each waits at.  A place asks *)
(* for one kind of observation and goes on by its answer: the zero value,  *)
(* the even byte or the value under a limit on one side, every other on    *)
(* the other.  What a handler writes on its way is left out, for nothing   *)
(* it decides reads it back.                                               *)
(***************************************************************************)
EXTENDS Naturals, Sequences

Branch(kind, zero, other) == [asks |-> kind, zero |-> zero, other |-> other]
Goes(kind, to) == Branch(kind, to, to)
Stop(kind) == Goes(kind, 0)

(* Places first, first + 1, ... each going on to the next.                 *)
InTurn(first, kinds) == [i \in DOMAIN kinds |-> Goes(kinds[i], first + i)]
Calls(first, n) == InTurn(first, [i \in 1..n |-> "call"])

First == Calls(1, 5) \o <<Branch("bl", 7, 5), Stop("return")>>

Second ==
  <<Branch("byte", 2, 4), Goes("call", 3), Branch("bl", 9, 2)>>
    \o Calls(4, 4) \o <<Stop("return"), Stop("return")>>

Third ==
  <<Branch("word", 2, 9), Branch("word", 3, 5), Goes("call", 4), Branch("bl", 9, 3)>>
    \o InTurn(5, <<"call", "call", "word">>) \o <<Stop("far_pointer"), Stop("return")>>

Fourth == <<Branch("word", 2, 4)>> \o Calls(2, 2) \o <<Stop("return")>>

Fifth == Calls(1, 4) \o <<Stop("return")>>

(* Place 4 of the seventh is the call of the shared helper.                *)
Seventh ==
  <<Branch("word", 2, 28)>>
    \o InTurn(2, <<"call", "call", "call", "byte", "word", "call", "word", "call", "bx",
                     "call", "word", "call", "call", "byte", "call", "call", "word",
                     "call", "call", "word", "call", "call", "call", "call", "call", "call">>)
    \o <<Stop("return")>>

HelperCall == 4

Eighth == Calls(1, 2) \o <<Branch("bl", 4, 2), Stop("return")>>

Ninth ==
  <<Branch("word", 2, 11), Goes("call", 3), Branch("byte", 5, 4), Goes("call", 5),
    Branch("byte", 7, 6), Goes("call", 5), Branch("byte", 8, 9)>>
    \o Calls(8, 2) \o <<Stop("jump"), Stop("return")>>

(* The wait at the end of the tenth is also where the ninth jumps to.      *)
WaitFrom(p, short, long) ==
  Calls(p, 2)
    \o <<Branch("byte", p + 3, p + 7), Goes("call", p + 4), Branch("flag", p + 5, p),
         Branch("bl", p + 6, p), Goes("call", short), Branch("word", p + 8, p + 9)>>
    \o InTurn(p + 8, <<"call", "call", "call", "word", "call">>) \o <<Goes("call", long)>>

Tenth ==
  <<Branch("word", 2, 24), Goes("call", 3), Branch("byte", 5, 4), Goes("call", 5),
    Branch("byte", 7, 6), Goes("call", 5), Branch("byte", 8, 9)>>
    \o Calls(8, 2) \o WaitFrom(10, 24, 24) \o <<Stop("return")>>

NinthHandoff == WaitFrom(1, 15, 15) \o <<Stop("return")>>

(* The callback of the list wraps to a reset at the last selection.        *)
Callback ==
  <<Branch("byte", 2, 9), Goes("jump", 3)>> \o Calls(3, 5) \o <<Stop("return")>>
    \o InTurn(9, <<"word", "call", "call", "call">>)
    \o <<Branch("bl", 14, 12)>> \o Calls(14, 2) \o <<Stop("tail_jump")>>

(* The sixth: to its wait, back over its restoration (from Restoration),   *)
(* or through the helper of its caller (from HelperPrefix), which draws a  *)
(* table (at Draw), lays it out (at Layout) and restores what it saved.    *)
Restoration == 12
HelperPrefix == 27
FarSegment == 32
Draw == 42
Layout == 44
LayoutRefresh == 45
LayoutFinal == 46

Sixth ==
  <<Branch("word", 2, 11)>> \o InTurn(2, <<"call", "call", "call", "byte", "byte", "word", "call">>)
    \o <<Branch("bl", 10, 8), Stop("return"), Stop("return")>>
    \o Calls(Restoration, 6) \o InTurn(18, <<"byte">>) \o Calls(19, 7) \o <<Stop("return")>>
    \o Calls(HelperPrefix, 4)
    \o InTurn(31, <<"word", "word", "byte", "call", "call", "call", "al", "call", "al", "call",
                      "call", "al", "call", "call">>)
    \o <<Goes("call", Layout), Goes("call", 47)>>
    \o InTurn(47, <<"call", "call", "call", "word", "word", "byte", "call">>) \o <<Stop("call")>>

Handler == <<First, Second, Third, Fourth, Fifth, Sixth, Seventh, Eighth, Ninth, Tenth>>
Keys == 1..10
=============================================================================

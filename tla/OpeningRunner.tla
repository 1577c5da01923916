----------------------------- MODULE OpeningRunner -----------------------------
(***************************************************************************)
(* DeuterosAmigaOpeningRunner: the opening's VBL ticks against the host's  *)
(* clock.  The host calls advance() once per frame, at irregular times;    *)
(* the runner catches up a few ticks per call and gives up the rest of a   *)
(* long gap.  RuntimeOps takes what one call may come to as given          *)
(* (TickOutcomes); this module is the arithmetic behind it.                *)
(*                                                                         *)
(* The runner compares now with its deadline and nothing else, so its      *)
(* state here is their difference.                                         *)
(***************************************************************************)
EXTENDS Integers

CONSTANTS Period,      \* scheduler_period_ms
          MaxCatchUp,  \* maximum_catch_up_ticks
          Gaps,        \* the times that may pass between two frames
          MaxElapsed   \* bound on the time a behaviour runs

ASSUME RunnerAssumption ==
  /\ Period \in Nat \ {0} /\ MaxCatchUp \in Nat \ {0}
  /\ Gaps \subseteq Nat /\ MaxElapsed \in Nat

VARIABLES lag,      \* now - scheduled_tick_
          stopped,  \* stopped_
          source,   \* the opening behind the tick source: live, over or stuck
          ticks,    \* history: the ticks delivered
          elapsed,  \* history: the time since the opening started
          played,   \* history: the time those ticks stand for
          dropped   \* history: the time given up by resynchronizing or restarting

vars == <<lag, stopped, source, ticks, elapsed, played, dropped>>

Init ==
  /\ lag = 0 /\ stopped = FALSE /\ source = "live"
  /\ ticks = 0 /\ elapsed = 0 /\ played = 0 /\ dropped = 0

Elapse ==
  /\ \E gap \in Gaps : /\ elapsed + gap <= MaxElapsed
                       /\ lag' = lag + gap
                       /\ elapsed' = elapsed + gap
  /\ UNCHANGED <<stopped, source, ticks, played, dropped>>

(* Mutant: a lag beyond the catch-up bound is never served.                *)
DueWithinBound(n) ==
  n \in 0..MaxCatchUp /\ n * Period <= lag /\ lag - n * Period < Period

(* How many ticks a call delivers when the source answers all of them.     *)
Due(n) ==
  /\ n \in 0..MaxCatchUp /\ n * Period <= lag
  /\ n < MaxCatchUp => lag - n * Period < Period

(* Mutant: every call resynchronizes and forgets the rest of the lag.      *)
DeliverForgettingRest(n) ==
  lag' = 0 /\ ticks' = ticks + n /\ played' = played + n * Period /\ UNCHANGED dropped

(* After n ticks: the rest of the lag is kept or, past a full catch-up,    *)
(* given up when another tick would already be due.                        *)
Deliver(n) ==
  LET rest   == lag - n * Period
      resync == n = MaxCatchUp /\ rest >= Period
  IN  /\ lag' = IF resync THEN 0 ELSE rest
      /\ dropped' = IF resync THEN dropped + rest ELSE dropped
      /\ ticks' = ticks + n
      /\ played' = played + n * Period

Advance ==
  /\ ~stopped
  /\ source = "live"
  /\ \E due \in 0..MaxCatchUp :
       /\ Due(due)
       /\ \/ Deliver(due) /\ UNCHANGED <<stopped, source>>
          \/ \E n \in 1..due :
               Deliver(n) /\ stopped' = TRUE /\ source' = "over"
          \/ \E n \in 1..due :
               Deliver(n - 1) /\ stopped' = TRUE /\ source' = "stuck"
  /\ UNCHANGED elapsed

(* Mutant: the restarted runner ticks the opening it finds.                *)
AdvanceStuckAgain ==
  /\ ~stopped /\ source = "stuck" /\ lag >= Period
  /\ lag' = lag - Period /\ ticks' = ticks + 1 /\ played' = played + Period
  /\ UNCHANGED <<stopped, source, elapsed, dropped>>

(* A stuck opening has handed off without the host noticing: the host      *)
(* starts a runner for it whenever it finds none, and a due tick of that   *)
(* runner returns nothing and stops it again.                              *)
AdvanceStuck ==
  /\ ~stopped /\ source = "stuck"
  /\ IF lag >= Period THEN stopped' = TRUE ELSE UNCHANGED stopped
  /\ UNCHANGED <<lag, source, ticks, elapsed, played, dropped>>

Restart ==
  /\ stopped /\ source = "stuck"
  /\ stopped' = FALSE
  /\ lag' = 0 /\ dropped' = dropped + lag
  /\ UNCHANGED <<source, ticks, elapsed, played>>

Next == Elapse \/ Advance \/ AdvanceStuck \/ Restart

Spec == Init /\ [][Next]_vars

(* The frame loop calls advance() in every frame of a launched opening.    *)
FairSpec == Spec /\ WF_vars(Advance)

----------------------------------------------------------------------------
TypeOK ==
  /\ lag \in Nat /\ stopped \in BOOLEAN /\ source \in {"live", "over", "stuck"}
  /\ ticks \in Nat /\ elapsed \in Nat /\ played \in Nat /\ dropped \in Nat

(* No time is played twice or lost unseen: what has elapsed was played,    *)
(* given up, or is still to come.  So the opening never runs ahead of the  *)
(* clock, however its frames fall.                                         *)
TimeIsAccounted == played + dropped + lag = elapsed

(* A call leaves no tick due behind: a long frame is caught up or given    *)
(* up, never carried into the next one.                                    *)
NoDebt == [][Advance /\ ~stopped' => lag' < Period]_vars

(* One frame never plays more than the catch-up bound, and an opening that *)
(* has handed off is never ticked again, not even by a restarted runner.   *)
BoundedBursts ==
  [][/\ ticks' - ticks \in 0..MaxCatchUp
     /\ source # "live" => ticks' = ticks /\ source' = source]_vars

(* A tick that is due is played or the opening ends: the frames that       *)
(* resynchronize do not starve it.                                         *)
DueTicksArePlayed ==
  lag >= Period /\ source = "live" ~> (lag < Period \/ source # "live")
=============================================================================

-------------------------- MODULE OpeningRunnerProofs --------------------------
(***************************************************************************)
(* The scheduler's arithmetic for every period, every catch-up bound and   *)
(* every way the frames may fall.                                          *)
(***************************************************************************)
EXTENDS OpeningRunner, TLAPS

(* The invariant in two halves: the clock's arithmetic and the runner's     *)
(* control state.                                                          *)
Clock ==
  /\ lag \in Nat /\ ticks \in Nat /\ elapsed \in Nat /\ played \in Nat /\ dropped \in Nat
  /\ TimeIsAccounted

Control == stopped \in BOOLEAN /\ source \in {"live", "over", "stuck"}

RunnerInv == Clock /\ Control

(* Delivering n due ticks moves n periods from the lag to the played time. *)
LEMMA DeliverAccounts ==
  ASSUME RunnerInv, NEW n \in Nat, n * Period <= lag, Deliver(n)
  PROVE  /\ lag' \in Nat /\ ticks' \in Nat /\ played' \in Nat /\ dropped' \in Nat
         /\ played' + dropped' + lag' = played + dropped + lag
  <1> DEFINE span == n * Period
  <1>1. span \in Nat
    BY RunnerAssumption
  <1>2. /\ span <= lag
        /\ played' = played + span
        /\ ticks' = ticks + n
        /\ \/ lag' = lag - span /\ dropped' = dropped
           \/ lag' = 0 /\ dropped' = dropped + (lag - span)
    BY DEF Deliver
  <1> HIDE DEF span
  <1> QED BY <1>1, <1>2 DEF RunnerInv, Clock

(* A call that ends early has delivered fewer ticks than were due.         *)
LEMMA FewerIsDue ==
  ASSUME NEW n \in Nat, NEW due \in Nat, n <= due, lag \in Nat, due * Period <= lag
  PROVE  n * Period <= lag
  <1>1. PICK k \in Nat : due = n + k
    <2>1. due - n \in Nat /\ due = n + (due - n)
      OBVIOUS
    <2> QED BY <2>1
  <1>2. due * Period = n * Period + k * Period
    BY <1>1, RunnerAssumption
  <1>3. n * Period \in Nat /\ k * Period \in Nat
    BY RunnerAssumption
  <1> QED BY <1>2, <1>3

(* What one call of advance() comes to.                                    *)
LEMMA AdvanceDelivers ==
  ASSUME RunnerInv, Advance
  PROVE  \E n \in 0..MaxCatchUp : n * Period <= lag /\ Deliver(n)
  <1>1. PICK due \in 0..MaxCatchUp :
          /\ Due(due)
          /\ Deliver(due) \/ (\E n \in 1..due : Deliver(n) \/ Deliver(n - 1))
    BY DEF Advance
  <1>2. due \in Nat /\ due * Period <= lag /\ lag \in Nat
    BY <1>1 DEF Due, RunnerInv, Clock
  <1>3. CASE Deliver(due)
    BY <1>2, <1>3
  <1>4. ASSUME NEW n \in 1..due, Deliver(n) \/ Deliver(n - 1)
        PROVE  \E m \in 0..MaxCatchUp : m * Period <= lag /\ Deliver(m)
    <2>1. PICK m \in {n, n - 1} : Deliver(m)
      BY <1>4
    <2>2. m \in Nat /\ m <= due /\ m \in 0..MaxCatchUp
      BY <1>2, RunnerAssumption
    <2>3. m * Period <= lag
      BY <1>2, <2>2, FewerIsDue
    <2> QED BY <2>1, <2>2, <2>3
  <1> QED BY <1>1, <1>3, <1>4

LEMMA StepClock == RunnerInv /\ [Next]_vars => Clock'
  <1> SUFFICES ASSUME RunnerInv, [Next]_vars PROVE Clock'
    OBVIOUS
  <1>1. CASE Elapse
    BY <1>1, RunnerAssumption DEF Elapse, RunnerInv, Clock, TimeIsAccounted
  <1>2. CASE Advance
    <2>1. PICK n \in 0..MaxCatchUp : n * Period <= lag /\ Deliver(n)
      BY <1>2, AdvanceDelivers
    <2>2. n \in Nat
      BY RunnerAssumption
    <2>3. /\ lag' \in Nat /\ ticks' \in Nat /\ played' \in Nat /\ dropped' \in Nat
          /\ played' + dropped' + lag' = played + dropped + lag
      BY <2>1, <2>2, DeliverAccounts
    <2>4. elapsed' = elapsed
      BY <1>2 DEF Advance
    <2> QED BY <2>3, <2>4 DEF RunnerInv, Clock, TimeIsAccounted
  <1>3. CASE AdvanceStuck
    <2>1. UNCHANGED <<lag, ticks, elapsed, played, dropped>>
      BY <1>3 DEF AdvanceStuck
    <2> QED BY <2>1 DEF RunnerInv, Clock, TimeIsAccounted
  <1>4. CASE Restart
    <2>1. lag' = 0 /\ dropped' = dropped + lag /\ UNCHANGED <<ticks, elapsed, played>>
      BY <1>4 DEF Restart
    <2> QED BY <2>1 DEF RunnerInv, Clock, TimeIsAccounted
  <1>5. CASE UNCHANGED vars
    BY <1>5 DEF vars, RunnerInv, Clock, TimeIsAccounted
  <1> QED BY <1>1, <1>2, <1>3, <1>4, <1>5 DEF Next

LEMMA StepControl == RunnerInv /\ [Next]_vars => Control'
  <1> SUFFICES ASSUME RunnerInv, [Next]_vars PROVE Control'
    OBVIOUS
  <1>1. CASE Advance
    <2>1. \/ stopped' = stopped /\ source' = source
          \/ stopped' = TRUE /\ source' \in {"over", "stuck"}
      BY <1>1 DEF Advance
    <2> QED BY <2>1, Zenon DEF RunnerInv, Control
  <1>2. CASE AdvanceStuck
    <2>1. (stopped' = TRUE \/ stopped' = stopped) /\ source' = source
      BY <1>2, Zenon DEF AdvanceStuck
    <2> QED BY <2>1, Zenon DEF RunnerInv, Control
  <1>3. CASE Restart
    <2>1. stopped' = FALSE /\ source' = source
      BY <1>3, Zenon DEF Restart
    <2> QED BY <2>1, Zenon DEF RunnerInv, Control
  <1>4. CASE Elapse \/ UNCHANGED vars
    BY <1>4, Zenon DEF Elapse, vars, RunnerInv, Control
  <1> QED BY <1>1, <1>2, <1>3, <1>4, Zenon DEF Next

(* Types and accounting together are inductive: no tick's arithmetic needs *)
(* more than that the lag is what was neither played nor given up.         *)
THEOREM RunnerInvariant == Spec => []RunnerInv
  <1>1. Init => Clock
    BY DEF Init, Clock, TimeIsAccounted
  <1>2. Init => Control
    BY Zenon DEF Init, Control
  <1>3. RunnerInv /\ [Next]_vars => RunnerInv'
    BY StepClock, StepControl, Zenon DEF RunnerInv
  <1>4. Init => RunnerInv
    BY <1>1, <1>2, Zenon DEF RunnerInv
  <1> QED BY <1>3, <1>4, PTL DEF Spec

(* Every value the runner holds has its type.                              *)
THEOREM TypeCorrect == Spec => []TypeOK
  <1>1. RunnerInv => TypeOK
    BY Zenon DEF RunnerInv, Clock, Control, TypeOK
  <1> QED BY <1>1, RunnerInvariant, PTL

(* The opening never runs ahead of the clock.                              *)
THEOREM TimeIsAccountedHolds == Spec => []TimeIsAccounted
  BY RunnerInvariant, PTL DEF RunnerInv, Clock

(* No frame plays more than the catch-up bound.                            *)
THEOREM BoundedBurstsHolds == Spec => BoundedBursts
  <1> DEFINE Burst == /\ ticks' - ticks \in 0..MaxCatchUp
                      /\ source # "live" => ticks' = ticks /\ source' = source
  <1>1. RunnerInv /\ [Next]_vars => [Burst]_vars
    <2> SUFFICES ASSUME RunnerInv, Next PROVE Burst
      OBVIOUS
    <2>1. CASE Advance
      <3>1. PICK n \in 0..MaxCatchUp : n * Period <= lag /\ Deliver(n)
        BY <2>1, AdvanceDelivers
      <3>2. ticks' = ticks + n /\ source = "live"
        BY <2>1, <3>1 DEF Deliver, Advance
      <3> QED BY <3>1, <3>2 DEF RunnerInv, Clock
    <2>2. CASE Elapse \/ AdvanceStuck \/ Restart
      BY <2>2, RunnerAssumption DEF Elapse, AdvanceStuck, Restart, RunnerInv, Clock
    <2> QED BY <2>1, <2>2 DEF Next
  <1> QED BY <1>1, RunnerInvariant, PTL DEF Spec, BoundedBursts

(* No tick is carried as debt into the next frame.                         *)
THEOREM NoDebtHolds == Spec => NoDebt
  <1> DEFINE Settled == Advance /\ ~stopped' => lag' < Period
  <1>1. RunnerInv /\ [Next]_vars => [Settled]_vars
    <2> SUFFICES ASSUME RunnerInv, Advance, ~stopped' PROVE lag' < Period
      OBVIOUS
    <2>1. PICK due \in 0..MaxCatchUp : Due(due) /\ Deliver(due)
      BY DEF Advance
    <2> DEFINE rest == lag - due * Period
    <2>2. /\ due < MaxCatchUp => rest < Period
          /\ lag' = IF due = MaxCatchUp /\ rest >= Period THEN 0 ELSE rest
      BY <2>1 DEF Due, Deliver
    <2>3. rest \in Int
      BY <2>1, RunnerAssumption DEF RunnerInv, Clock
    <2> HIDE DEF rest
    <2> QED BY <2>2, <2>3, RunnerAssumption
  <1> QED BY <1>1, RunnerInvariant, PTL DEF Spec, NoDebt
=============================================================================

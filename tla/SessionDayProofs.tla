-------------------------- MODULE SessionDayProofs --------------------------
(***************************************************************************)
(* For every calendar, every configuration that leaves an account's        *)
(* lifetime before the flatten, and any number of restarts: no entry is    *)
(* late, the daily counter forgets none, and nobody trades before a plan.  *)
(***************************************************************************)
EXTENDS SessionDay, TLAPS

\* What each kind of variable may hold: TypeOK in three parts.
TimeTyped == clock \in Nat /\ day \in Days

FlagsTyped ==
  /\ up \in BOOLEAN /\ connected \in BOOLEAN
  /\ premarket_done \in BOOLEAN /\ eod_done \in BOOLEAN /\ idea \in BOOLEAN
  /\ sched \in {"idle", "premarket", "eod"}

CountsTyped ==
  /\ trades_today \in Nat /\ entered \in Nat /\ restarts \in Nat
  /\ plan \in Days \cup {0}

Decisions == [pc : {"idle", "premarket", "cycle"}, day : Days \cup {0}, phase : Phases,
              to_close : Int, since : Nat]

LEMMA TypeParts == TypeOK <=> TimeTyped /\ FlagsTyped /\ CountsTyped /\ decision \in Decisions
  BY DEF TypeOK, TimeTyped, FlagsTyped, CountsTyped, Decisions

LEMMA IdleTyped == Idle \in Decisions /\ [Idle EXCEPT !.pc = "premarket"] \in Decisions
  BY DEF Idle, Decisions, Phases

\* A phase is one of the six, and a tradeable one says the exchange is open.
LEMMA PhaseTyped ==
  ASSUME NEW d \in Days, NEW t \in Nat
  PROVE  /\ Phase(d, t) \in Phases
         /\ is_tradeable(Phase(d, t)) =>
              d \in TradingDays /\ OpenAt[d] <= t /\ t < CloseAt[d]
<1>1. OpenAt[d] \in Nat /\ CloseAt[d] \in Nat
  BY BoundsAssumption
<1>2. CASE d \notin TradingDays
  BY <1>2 DEF Phase, Phases, is_tradeable
<1>3. CASE d \in TradingDays /\ t < OpenAt[d]
  BY <1>1, <1>3 DEF Phase, Phases, is_tradeable
<1>4. CASE d \in TradingDays /\ t >= OpenAt[d] /\ t >= CloseAt[d]
  BY <1>1, <1>4 DEF Phase, Phases, is_tradeable
<1>5. CASE d \in TradingDays /\ t >= OpenAt[d] /\ t < CloseAt[d]
  BY <1>1, <1>5 DEF Phase, Phases, is_tradeable
<1> QED
  BY <1>1, <1>2, <1>3, <1>4, <1>5

-----------------------------------------------------------------------------
(* Types. *)

LEMMA TypeInit == Init => TypeOK
<1> SUFFICES ASSUME Init PROVE TimeTyped /\ FlagsTyped /\ CountsTyped /\ decision \in Decisions
  BY TypeParts
<1>1. TimeTyped /\ CountsTyped
  BY DaysAssumption DEF Init, TimeTyped, CountsTyped, Days
<1>2. FlagsTyped
  BY Zenon DEF Init, FlagsTyped
<1>3. decision \in Decisions
  BY IdleTyped DEF Init
<1> QED
  BY <1>1, <1>2, <1>3

LEMMA TypeStep == TypeOK /\ [Next]_vars => TypeOK'
<1> SUFFICES ASSUME TypeOK, [Next]_vars
             PROVE  TimeTyped' /\ FlagsTyped' /\ CountsTyped' /\ (decision \in Decisions)'
  BY DEF TypeOK, TimeTyped, FlagsTyped, CountsTyped, Decisions
<1> TimeTyped /\ FlagsTyped /\ CountsTyped /\ decision \in Decisions
  BY TypeParts
<1> USE DEF state
<1>1. CASE Tick
  <2>1. TimeTyped'
    <3>1. LastDay \in Nat /\ Midnight[LastDay] \in Nat /\ day \in 1..LastDay /\ clock \in Nat
      BY DaysAssumption, BoundsAssumption DEF Days, TimeTyped
    <3>2. clock + 1 < Midnight[LastDay] /\ clock' = clock + 1
      BY <1>1 DEF Tick
    <3>3. CASE clock + 1 = Midnight[day]
      BY <1>1, <3>1, <3>2, <3>3 DEF Tick, TimeTyped, Days
    <3>4. CASE clock + 1 # Midnight[day]
      BY <1>1, <3>1, <3>2, <3>4 DEF Tick, TimeTyped, Days
    <3> QED
      BY <3>3, <3>4
  <2>2. CountsTyped'
    BY <1>1 DEF Tick, CountsTyped
  <2>3. FlagsTyped' /\ (decision \in Decisions)'
    BY <1>1, Zenon DEF Tick, FlagsTyped
  <2> QED
    BY <2>1, <2>2, <2>3
<1>2. CASE ~Tick
  <2>1. TimeTyped'
    BY <1>2 DEF Next, Start, Crash, ConnectionChanges, ScheduledPremarket, ScheduledPlanReady,
         ScheduledEod, Reviewed, ScheduledFails, PlanningPass, PlanningPassOver, StartCycle,
         CycleEnters, AwaitApproval, ApproveProposal, DecisionEnds, TimeTyped, vars
  <2>2. FlagsTyped'
    BY <1>2, ZenonT(60) DEF Next, Start, Crash, ConnectionChanges, ScheduledPremarket,
         ScheduledPlanReady, ScheduledEod, Reviewed, ScheduledFails, PlanningPass,
         PlanningPassOver, StartCycle, CycleEnters, AwaitApproval, ApproveProposal,
         DecisionEnds, ResetForNewSession, PlanReady, FlagsTyped, vars
  <2>3. CountsTyped'
    BY <1>2 DEF Next, Start, Crash, ConnectionChanges, ScheduledPremarket, ScheduledPlanReady,
         ScheduledEod, Reviewed, ScheduledFails, PlanningPass, PlanningPassOver, StartCycle,
         CycleEnters, AwaitApproval, ApproveProposal, DecisionEnds, ResetForNewSession,
         PlanReady, Enter, TimeTyped, CountsTyped, vars
  <2>4. (decision \in Decisions)'
    <3>1. CASE StartCycle
      <4>1. minutes_to_close \in Int
        BY BoundsAssumption DEF TimeTyped, minutes_to_close
      <4>2. phase \in Phases
        BY PhaseTyped DEF phase, TimeTyped
      <4> QED
        BY <3>1, <4>1, <4>2 DEF StartCycle, Decisions, TimeTyped
    <3>2. CASE ~StartCycle
      BY <1>2, <3>2, IdleTyped, Zenon DEF Next, Start, Crash, ConnectionChanges,
           ScheduledPremarket, ScheduledPlanReady, ScheduledEod, Reviewed, ScheduledFails,
           PlanningPass, PlanningPassOver, CycleEnters, AwaitApproval, ApproveProposal,
           DecisionEnds, vars
    <3> QED
      BY <3>1, <3>2
  <2> QED
    BY <2>1, <2>2, <2>3, <2>4
<1> QED
  BY <1>1, <1>2

\* Every variable keeps its type: the day stays on the calendar while the clock runs, and
\* a cycle's captured session is a session (MarketCalendar.info, DecisionCycle.run).
THEOREM TypeCorrect == Spec => []TypeOK
  BY TypeInit, TypeStep, PTL DEF Spec

-----------------------------------------------------------------------------
(* Late entries. *)

\* The day is the one the clock is in.
DayOfClock ==
  /\ clock < Midnight[day]
  /\ \A d \in Days : d < day => Midnight[d] <= clock

\* A cycle's session was open when the cycle began, and the time it has left to the close
\* is that of the minute its account is from.
CycleKeepsItsSession ==
  decision.pc = "cycle" =>
    /\ decision.day \in TradingDays /\ decision.day <= day
    /\ OpenAt[decision.day] <= decision.since /\ decision.since <= clock
    /\ decision.to_close = CloseAt[decision.day] - decision.since

DayInv == TypeOK /\ DayOfClock /\ CycleKeepsItsSession

LEMMA MidnightsOrdered ==
  ASSUME NEW d \in Days, d + 1 \in Days
  PROVE  Midnight[d] < Midnight[d + 1]
<1>1. /\ Midnight[d] \in Nat /\ OpenAt[d + 1] \in Nat /\ CloseAt[d + 1] \in Nat
      /\ Midnight[d + 1] \in Nat
  BY BoundsAssumption
<1>2. /\ Midnight[d] <= OpenAt[d + 1] /\ OpenAt[d + 1] < CloseAt[d + 1]
      /\ CloseAt[d + 1] < Midnight[d + 1]
  BY BoundsAssumption
<1> QED
  BY <1>1, <1>2

LEMMA DayInit == Init => DayInv
<1> SUFFICES ASSUME Init PROVE DayOfClock /\ CycleKeepsItsSession
  BY TypeInit DEF DayInv
<1>1. clock = 0 /\ day = 1 /\ decision = Idle
  BY DEF Init
<1>2. 1 \in Days
  BY DaysAssumption DEF Days
<1>3. OpenAt[1] \in Nat /\ CloseAt[1] \in Nat /\ Midnight[1] \in Nat
      /\ OpenAt[1] < CloseAt[1] /\ CloseAt[1] < Midnight[1]
  BY <1>2, BoundsAssumption
<1> QED
  BY <1>1, <1>3 DEF DayOfClock, CycleKeepsItsSession, Idle, Days

LEMMA DayStep == DayInv /\ [Next]_vars => DayInv'
<1> SUFFICES ASSUME DayInv, [Next]_vars PROVE DayOfClock' /\ CycleKeepsItsSession'
  BY TypeStep DEF DayInv
<1> USE DEF DayInv
<1>1. clock \in Nat /\ day \in Days /\ decision \in Decisions
  BY TypeParts DEF TimeTyped
<1>2. CASE Tick
  <2>1. /\ clock' = clock + 1 /\ decision' = decision
        /\ day' = IF clock + 1 = Midnight[day] THEN day + 1 ELSE day
        /\ clock + 1 < Midnight[LastDay]
    BY <1>2 DEF Tick
  <2>2. Midnight[day] \in Nat
    BY <1>1, BoundsAssumption
  <2>3. DayOfClock'
    <3>1. CASE clock + 1 = Midnight[day]
      <4>1. day # LastDay
        BY <2>1, <3>1
      <4>2. day + 1 \in Days
        BY <1>1, <4>1, DaysAssumption DEF Days
      <4>3. Midnight[day] < Midnight[day + 1]
        BY <1>1, <4>2, MidnightsOrdered
      <4>4. ASSUME NEW d \in Days, d < day + 1 PROVE Midnight[d] <= clock + 1
        <5>1. Midnight[d] \in Nat
          BY BoundsAssumption
        <5> QED
          BY <1>1, <3>1, <4>4, <5>1 DEF DayOfClock, Days
      <4> QED
        BY <2>1, <3>1, <4>3, <4>4 DEF DayOfClock
    <3>2. CASE clock + 1 # Midnight[day]
      <4>1. ASSUME NEW d \in Days, d < day PROVE Midnight[d] <= clock + 1
        <5>1. Midnight[d] \in Nat
          BY BoundsAssumption
        <5> QED
          BY <1>1, <4>1, <5>1 DEF DayOfClock
      <4> QED
        BY <1>1, <2>1, <2>2, <3>2, <4>1 DEF DayOfClock
    <3> QED
      BY <3>1, <3>2
  <2>4. CycleKeepsItsSession'
    <3>1. day' >= day /\ decision.day \in Int /\ decision.since \in Nat /\ day \in Nat
      BY <1>1, <2>1 DEF Decisions, Days
    <3> HIDE DEF DayInv
    <3>2. CycleKeepsItsSession
      BY DEF DayInv
    <3> QED
      BY <1>1, <2>1, <3>1, <3>2 DEF CycleKeepsItsSession
  <2> QED
    BY <2>3, <2>4
<1>3. CASE StartCycle
  <2>1. DayOfClock'
    BY <1>3 DEF StartCycle, DayOfClock
  <2>2. day \in TradingDays /\ OpenAt[day] <= clock
    BY <1>1, <1>3, PhaseTyped DEF StartCycle, MayRun, phase
  <2>3. /\ decision'.day = day /\ decision'.since = clock
        /\ decision'.to_close = CloseAt[day] - clock
        /\ day' = day /\ clock' = clock
    BY <1>3 DEF StartCycle, minutes_to_close
  <2>4. CycleKeepsItsSession'
    BY <1>1, <2>2, <2>3 DEF CycleKeepsItsSession, Days
  <2> QED
    BY <2>1, <2>4
<1>4. CASE ~Tick /\ ~StartCycle
  <2>1. UNCHANGED <<clock, day>> /\ (decision' = decision \/ decision'.pc # "cycle")
    BY <1>1, <1>4 DEF Next, Start, Crash, ConnectionChanges, ScheduledPremarket,
         ScheduledPlanReady, ScheduledEod, Reviewed, ScheduledFails, PlanningPass,
         PlanningPassOver, CycleEnters, AwaitApproval, ApproveProposal, DecisionEnds,
         Idle, state, vars
  <2> QED
    BY <2>1 DEF DayOfClock, CycleKeepsItsSession
<1> QED
  BY <1>2, <1>3, <1>4

\* An entry leaves the gate from a cycle or from an approval.
LEMMA EnteredBy ==
  ASSUME TypeOK, [Next]_vars, Entered
  PROVE  CycleEnters \/ (ApproveProposal /\ Evaluate(phase, minutes_to_close, 0))
<1>1. trades_today \in Nat
  BY DEF TypeOK
<1> QED
  BY <1>1 DEF Next, Tick, Start, Crash, ConnectionChanges, ScheduledPremarket, ScheduledPlanReady,
       ScheduledEod, Reviewed, ScheduledFails, PlanningPass, PlanningPassOver, StartCycle,
       AwaitApproval, ApproveProposal, DecisionEnds, ResetForNewSession, PlanReady,
       Entered, state, vars

\* The step formula of NoLateEntry, from the invariant: the close of a cycle's session is
\* the account's age plus more than Flatten away, so it is today's close.
LEMMA InTime ==
  ASSUME DayInv, [Next]_vars, Entered
  PROVE  day \in TradingDays /\ OpenAt[day] <= clock /\ minutes_to_close > Flatten
<1>1. clock \in Nat /\ day \in Days /\ decision \in Decisions
  BY TypeParts DEF TimeTyped, DayInv
<1>2. /\ NoEntry \in Nat /\ Flatten \in Nat /\ MaxAccountAge \in Nat
      /\ Flatten + MaxAccountAge <= NoEntry
  BY MinutesAssumption, GapAssumption
<1>3. CASE CycleEnters
  <2> DEFINE began == decision.day
  <2>1. /\ decision.to_close > NoEntry /\ clock - decision.since <= MaxAccountAge
        /\ decision.pc = "cycle"
    BY <1>3 DEF CycleEnters, Evaluate
  <2>2. /\ began \in TradingDays /\ began <= day /\ OpenAt[began] <= decision.since /\ decision.since <= clock
        /\ decision.to_close = CloseAt[began] - decision.since
    BY <2>1 DEF DayInv, CycleKeepsItsSession
  <2>3. began \in Days /\ decision.since \in Nat
    BY <1>1, <2>2, DaysAssumption DEF Decisions
  <2>4. OpenAt[began] \in Nat /\ CloseAt[began] \in Nat /\ Midnight[began] \in Nat
        /\ CloseAt[began] < Midnight[began]
    BY <2>3, BoundsAssumption
  <2>5. OpenAt[began] <= clock /\ CloseAt[began] - clock > Flatten
    BY <1>1, <1>2, <2>1, <2>2, <2>3, <2>4
  <2>6. began = day
    <3>1. ~(began < day)
      BY <1>1, <1>2, <2>3, <2>4, <2>5 DEF DayInv, DayOfClock
    <3> QED
      BY <1>1, <2>2, <2>3, <3>1 DEF Days
  <2> QED
    BY <2>2, <2>5, <2>6 DEF minutes_to_close
<1>4. CASE ApproveProposal /\ Evaluate(phase, minutes_to_close, 0)
  <2>1. is_tradeable(phase) /\ minutes_to_close > NoEntry
    BY <1>4 DEF Evaluate
  <2>2. day \in TradingDays /\ OpenAt[day] <= clock
    BY <1>1, <2>1, PhaseTyped DEF phase
  <2>3. CloseAt[day] \in Nat
    BY <1>1, BoundsAssumption
  <2> QED
    BY <1>1, <1>2, <2>1, <2>2, <2>3 DEF minutes_to_close
<1> QED
  BY <1>3, <1>4, EnteredBy DEF DayInv

\* An entry of a cycle or of an approval goes out inside today's session and before the
\* flatten may begin, whatever the calendar and however long the model took to decide
\* (checks 3 to 5 of RiskEngine.evaluate with the session captured by the cycle).
THEOREM NoLateEntryAlways == Spec => NoLateEntry
<1>1. DayInv /\ [Next]_vars => [Entered => /\ day \in TradingDays /\ OpenAt[day] <= clock
                                          /\ minutes_to_close > Flatten]_vars
  BY InTime
<1> QED
  BY <1>1, DayInit, DayStep, PTL DEF Spec, NoLateEntry

-----------------------------------------------------------------------------
(* The day's counter and the day's plan. *)

\* In a process, whatever may lead to an entry, or has, comes after a planning pass that
\* was done; and one that is done is never begun again before a restart.
PlannedFirst ==
  /\ (decision.pc = "cycle" \/ idea \/ entered # 0) => premarket_done
  /\ premarket_done => plan # 0
  /\ entered <= trades_today

CapInv == TypeOK /\ (up => PlannedFirst)

LEMMA CapInit == Init => CapInv
  BY TypeInit DEF Init, CapInv

LEMMA CapStep == CapInv /\ [Next]_vars => CapInv'
<1> SUFFICES ASSUME CapInv, [Next]_vars PROVE up' => PlannedFirst'
  BY TypeStep DEF CapInv
<1>1. /\ trades_today \in Nat /\ entered \in Nat /\ day \in Nat /\ day # 0
      /\ decision \in Decisions
  BY TypeParts, DaysAssumption DEF CapInv, TimeTyped, CountsTyped, Days
<1>2. CASE Tick
  BY <1>1, <1>2 DEF Tick, CapInv, PlannedFirst, state
<1>3. CASE Start
  BY <1>3 DEF Start, PlannedFirst, Idle
<1>4. CASE Crash
  BY <1>4 DEF Crash
<1>5. CASE ScheduledPremarket \/ PlanningPass
  <2>1. /\ up /\ ~premarket_done /\ trades_today' = 0 /\ idea' = FALSE /\ premarket_done' = FALSE
        /\ entered' = entered
        /\ decision' = decision \/ decision' = [Idle EXCEPT !.pc = "premarket"]
    BY <1>5 DEF ScheduledPremarket, PlanningPass, MayRun, ResetForNewSession
  <2>2. entered = 0 /\ decision.pc # "cycle"
    BY <2>1 DEF CapInv, PlannedFirst
  <2> QED
    BY <2>1, <2>2 DEF PlannedFirst, Idle
<1>6. CASE ScheduledPlanReady \/ PlanningPassOver
  BY <1>1, <1>6 DEF ScheduledPlanReady, PlanningPassOver, PlanReady, CapInv, PlannedFirst
<1>7. CASE ScheduledEod \/ Reviewed \/ ScheduledFails \/ ConnectionChanges \/ UNCHANGED vars
  BY <1>7 DEF ScheduledEod, Reviewed, ScheduledFails, ConnectionChanges, CapInv, PlannedFirst,
       state, vars
<1>8. CASE StartCycle
  BY <1>1, <1>8 DEF StartCycle, Planned, MayRun, CapInv, PlannedFirst, state
<1>9. CASE CycleEnters \/ AwaitApproval \/ ApproveProposal
  <2>1. /\ up /\ (decision.pc = "cycle" \/ idea)
        /\ decision' = decision /\ plan' = plan /\ (premarket_done' <=> premarket_done)
    BY <1>9 DEF CycleEnters, AwaitApproval, ApproveProposal
  <2>2. \/ entered' = entered /\ trades_today' = trades_today
        \/ entered' = entered + 1 /\ trades_today' = trades_today + 1
    BY <1>9 DEF CycleEnters, AwaitApproval, ApproveProposal, Enter
  <2>3. premarket_done /\ plan # 0 /\ entered <= trades_today
    BY <2>1 DEF CapInv, PlannedFirst
  <2>4. entered' <= trades_today'
    BY <1>1, <2>2, <2>3
  <2> QED
    BY <2>1, <2>3, <2>4 DEF PlannedFirst
<1>10. CASE DecisionEnds
  BY <1>10 DEF DecisionEnds, CapInv, PlannedFirst, Idle, state
<1> QED
  BY <1>2, <1>3, <1>4, <1>5, <1>6, <1>7, <1>8, <1>9, <1>10 DEF Next

\* The daily cap is checked against a counter that holds every entry of this process and
\* day: no planning pass resets it after the first entry (reset_for_new_session).
THEOREM CapNeverUndercountsAlways == Spec => []CapNeverUndercounts
<1>1. CapInv => CapNeverUndercounts
  BY DEF CapInv, PlannedFirst, CapNeverUndercounts
<1> QED
  BY <1>1, CapInit, CapStep, PTL DEF Spec

\* Whatever passes overlap, fail or are cut short by a restart, an entry finds a session
\* planned (_decision_tick runs run_premarket "rather than trading blind").
THEOREM PlanBeforeTradeAlways == Spec => PlanBeforeTrade
<1>1. CapInv /\ [Next]_vars => [Entered => plan # 0 /\ premarket_done]_vars
  <2> SUFFICES ASSUME CapInv, [Next]_vars, Entered PROVE plan # 0 /\ premarket_done
    OBVIOUS
  <2>1. up /\ (decision.pc = "cycle" \/ idea)
    BY EnteredBy DEF CapInv, CycleEnters, ApproveProposal
  <2> QED
    BY <2>1 DEF CapInv, PlannedFirst
<1> QED
  BY <1>1, CapInit, CapStep, PTL DEF Spec, PlanBeforeTrade
=============================================================================

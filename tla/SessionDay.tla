------------------------------ MODULE SessionDay ------------------------------
(***************************************************************************)
(* The trading day: the exchange calendar of engine/calendar.py, the       *)
(* schedule and decision loops of the engine, which plan the session, run  *)
(* its cycles and review it, and the day's state they share (AppState).    *)
(*                                                                         *)
(* Time is an absolute count of minutes.  The loops are coroutines that    *)
(* meet at the awaits of run_premarket, run_eod and the cycle, each of     *)
(* which may last any time; an account request is answered within its      *)
(* minute.  The reset of a session follows that answer without an await.   *)
(* The kill switch, prices and sizes are the subject of other modules: any *)
(* idea may be let through by the checks not written here.                 *)
(***************************************************************************)
EXTENDS Integers

CONSTANTS
  LastDay,                  \* bound: calendar days, from 1
  TradingDays,              \* the days with a session
  OpenAt, CloseAt, Midnight,\* per day: the session's bounds, the end of the day
  PremarketMinutes, OpeningRangeMinutes, ClosingMinutes,
  PremarketStart,           \* premarket_start_minutes_before_open
  NoEntry,                  \* no_entry_minutes_before_close
  Flatten,                  \* flatten_minutes_before_close
  MaxAccountAge,            \* max_account_age_seconds, in minutes
  MaxTrades,                \* max_trades_per_day
  MaxRestarts               \* bound: process deaths

Days == 1..LastDay

ASSUME DaysAssumption == LastDay \in Nat \ {0} /\ TradingDays \subseteq Days
ASSUME BoundsAssumption ==
  /\ OpenAt \in [Days -> Nat] /\ CloseAt \in [Days -> Nat] /\ Midnight \in [Days -> Nat]
  /\ \A d \in Days : OpenAt[d] < CloseAt[d] /\ CloseAt[d] < Midnight[d]
  /\ \A d \in Days : d + 1 \in Days => Midnight[d] <= OpenAt[d + 1]
ASSUME MinutesAssumption ==
  /\ {PremarketMinutes, OpeningRangeMinutes, ClosingMinutes, PremarketStart} \subseteq Nat
  /\ {NoEntry, Flatten, MaxAccountAge, MaxTrades, MaxRestarts} \subseteq Nat
\* The configuration leaves more than an account's lifetime between the last entry
\* and the flatten (20, 10 and 2 minutes).
ASSUME GapAssumption == Flatten + MaxAccountAge <= NoEntry

VARIABLES
  clock, day,
  up,              \* the process is alive
  connected,       \* gateway.is_tradeable
  premarket_done, eod_done, trades_today, idea,   \* AppState; idea: an approval pends
  plan,            \* the day AppState.plan was made on, 0 when there is none
  sched,           \* the schedule loop: "idle", "premarket", "eod"
  decision,        \* the decision loop, with the session and account of its cycle
  restarts,
  entered          \* history: entries of this process on this day

state == <<premarket_done, eod_done, trades_today, idea, plan>>
vars  == <<clock, day, up, connected, state, sched, decision, restarts, entered>>

-----------------------------------------------------------------------------
\* MarketCalendar.info: the phase at a minute.
Phase(d, now) ==
  LET to_open  == OpenAt[d] - now
      to_close == CloseAt[d] - now
  IN  CASE d \notin TradingDays -> "CLOSED"
        [] d \in TradingDays /\ now < OpenAt[d] ->
             IF to_open <= PremarketMinutes THEN "PREMARKET" ELSE "CLOSED"
        [] d \in TradingDays /\ now >= CloseAt[d] -> "AFTER_HOURS"
        [] OTHER -> IF now - OpenAt[d] <= OpeningRangeMinutes THEN "OPENING_RANGE"
                    ELSE IF to_close <= ClosingMinutes THEN "CLOSING" ELSE "RTH"

phase            == Phase(day, clock)
minutes_to_open  == OpenAt[day] - clock
minutes_to_close == CloseAt[day] - clock
is_tradeable(p)  == p \in {"OPENING_RANGE", "RTH", "CLOSING"}

Idle == [pc |-> "idle", day |-> 0, phase |-> "CLOSED", to_close |-> 0, since |-> 0]

Init ==
  /\ clock = 0 /\ day = 1
  /\ up = FALSE /\ connected = FALSE
  /\ premarket_done = FALSE /\ eod_done = FALSE
  /\ trades_today = 0 /\ idea = FALSE /\ plan = 0
  /\ sched = "idle" /\ decision = Idle
  /\ restarts = 0 /\ entered = 0

Tick ==
  /\ clock + 1 < Midnight[LastDay]
  /\ clock' = clock + 1
  /\ day' = IF clock + 1 = Midnight[day] THEN day + 1 ELSE day
  /\ entered' = IF day' = day THEN entered ELSE 0
  /\ UNCHANGED <<up, connected, state, sched, decision, restarts>>

(* The process and its connection. *)

\* The day's part of AppState begins anew, whatever the hour.
Start ==
  /\ ~up
  /\ up' = TRUE
  /\ connected' = TRUE
  /\ premarket_done' = FALSE /\ eod_done' = FALSE
  /\ trades_today' = 0 /\ idea' = FALSE /\ plan' = 0
  /\ sched' = "idle" /\ decision' = Idle
  /\ entered' = 0
  /\ UNCHANGED <<clock, day, restarts>>

Crash ==
  /\ up /\ restarts < MaxRestarts
  /\ up' = FALSE
  /\ connected' = FALSE
  /\ restarts' = restarts + 1
  /\ UNCHANGED <<clock, day, state, sched, decision, entered>>

ConnectionChanges ==
  /\ up
  /\ connected' = ~connected
  /\ UNCHANGED <<clock, day, up, state, sched, decision, restarts, entered>>

-----------------------------------------------------------------------------
(* run_premarket, from either loop. *)

\* The account is there, and reset_for_new_session follows.
ResetForNewSession ==
  /\ premarket_done' = FALSE /\ eod_done' = FALSE
  /\ trades_today' = 0 /\ idea' = FALSE /\ plan' = 0

\* Mutant: the session is reset when its plan is ready.
PlanReadyResets ==
  /\ plan' = day /\ premarket_done' = TRUE
  /\ trades_today' = 0
  /\ UNCHANGED <<eod_done, idea>>

\* Mutant: the plan is dated for the session to come.
PlanReadyForTomorrow ==
  /\ plan' = day + 1 /\ premarket_done' = TRUE
  /\ UNCHANGED <<eod_done, trades_today, idea>>

\* The backfill is over and the plan is made.
PlanReady ==
  /\ plan' = day /\ premarket_done' = TRUE
  /\ UNCHANGED <<eod_done, trades_today, idea>>

-----------------------------------------------------------------------------
(* The schedule loop. *)

ScheduledPremarket ==
  /\ up /\ connected /\ sched = "idle" /\ day \in TradingDays
  /\ ~premarket_done
  /\ phase = "PREMARKET" /\ minutes_to_open <= PremarketStart
  /\ sched' = "premarket"
  /\ ResetForNewSession
  /\ UNCHANGED <<clock, day, up, connected, decision, restarts, entered>>

ScheduledEod ==
  /\ up /\ connected /\ sched = "idle" /\ day \in TradingDays
  /\ ~eod_done
  /\ phase = "AFTER_HOURS" /\ minutes_to_close < -5
  /\ sched' = "eod"
  /\ UNCHANGED <<clock, day, up, connected, state, decision, restarts, entered>>

ScheduledPlanReady ==
  /\ up /\ sched = "premarket"
  /\ PlanReady
  /\ sched' = "idle"
  /\ UNCHANGED <<clock, day, up, connected, decision, restarts, entered>>

Reviewed ==
  /\ up /\ sched = "eod"
  /\ eod_done' = TRUE
  /\ sched' = "idle"
  /\ UNCHANGED <<clock, day, up, connected, premarket_done, trades_today, idea, plan, decision,
                 restarts, entered>>

\* A request of the pass raises; the loop logs it and comes round again.
ScheduledFails ==
  /\ up /\ sched # "idle"
  /\ sched' = "idle"
  /\ UNCHANGED <<clock, day, up, connected, state, decision, restarts, entered>>

-----------------------------------------------------------------------------
(* The decision loop. *)

MayRun == up /\ connected /\ decision.pc = "idle" /\ is_tradeable(phase)

\* Started in mid-session, or the scheduled pass is not over.
PlanningPass ==
  /\ MayRun
  /\ ~premarket_done
  /\ decision' = [Idle EXCEPT !.pc = "premarket"]
  /\ ResetForNewSession
  /\ UNCHANGED <<clock, day, up, connected, sched, restarts, entered>>

PlanningPassOver ==
  /\ up /\ decision.pc = "premarket"
  /\ PlanReady
  /\ decision' = Idle
  /\ UNCHANGED <<clock, day, up, connected, sched, restarts, entered>>

\* Mutant: a cycle does not wait for the planning pass.
PlannedAlready == TRUE

Planned == premarket_done

\* A cycle keeps the session it was started with, and fetches its account.
StartCycle ==
  /\ MayRun
  /\ Planned
  /\ decision' = [pc |-> "cycle", day |-> day, phase |-> phase,
                  to_close |-> minutes_to_close, since |-> clock]
  /\ UNCHANGED <<clock, day, up, connected, state, sched, restarts, entered>>

\* Mutant: the age of the account is not checked.
EvaluateAnyAge(p, to_close, age) ==
  is_tradeable(p) /\ to_close > NoEntry /\ trades_today < MaxTrades

\* Checks 3, 4, 5 and the daily cap of RiskEngine.evaluate.
Evaluate(p, to_close, age) ==
  /\ is_tradeable(p) /\ to_close > NoEntry
  /\ age <= MaxAccountAge
  /\ trades_today < MaxTrades

Enter ==
  /\ trades_today' = trades_today + 1
  /\ entered' = entered + 1

\* An idea of the cycle is let through, after however long a decision and a review.
CycleEnters ==
  /\ up /\ decision.pc = "cycle"
  /\ Evaluate(decision.phase, decision.to_close, clock - decision.since)
  /\ Enter
  /\ UNCHANGED <<clock, day, up, connected, premarket_done, eod_done, idea, plan, sched,
                 decision, restarts>>

\* In manual mode it is put up for approval, before any check of the gate.
AwaitApproval ==
  /\ up /\ decision.pc = "cycle" /\ ~idea
  /\ idea' = TRUE
  /\ UNCHANGED <<clock, day, up, connected, premarket_done, eod_done, trades_today, plan,
                 sched, decision, restarts, entered>>

\* A person approves it, on the session of that moment and the last synced account,
\* or it is skipped or expires.
ApproveProposal ==
  /\ up /\ idea
  /\ idea' = FALSE
  /\ \/ Evaluate(phase, minutes_to_close, 0) /\ Enter
     \/ UNCHANGED <<trades_today, entered>>
  /\ UNCHANGED <<clock, day, up, connected, premarket_done, eod_done, plan, sched, decision,
                 restarts>>

DecisionEnds ==
  /\ up /\ decision.pc # "idle"
  /\ decision' = Idle
  /\ UNCHANGED <<clock, day, up, connected, state, sched, restarts, entered>>

-----------------------------------------------------------------------------
Next ==
  \/ Tick \/ Start \/ Crash \/ ConnectionChanges
  \/ ScheduledPremarket \/ ScheduledPlanReady \/ ScheduledEod \/ Reviewed \/ ScheduledFails
  \/ PlanningPass \/ PlanningPassOver
  \/ StartCycle \/ CycleEnters \/ AwaitApproval \/ ApproveProposal \/ DecisionEnds

Spec == Init /\ [][Next]_vars

-----------------------------------------------------------------------------
Phases == {"CLOSED", "PREMARKET", "OPENING_RANGE", "RTH", "CLOSING", "AFTER_HOURS"}

\* Every variable keeps its type.
TypeOK ==
  /\ clock \in Nat /\ day \in Days
  /\ up \in BOOLEAN /\ connected \in BOOLEAN
  /\ premarket_done \in BOOLEAN /\ eod_done \in BOOLEAN /\ idea \in BOOLEAN
  /\ trades_today \in Nat /\ entered \in Nat /\ restarts \in Nat
  /\ plan \in Days \cup {0}
  /\ sched \in {"idle", "premarket", "eod"}
  /\ decision \in [pc : {"idle", "premarket", "cycle"}, day : Days \cup {0}, phase : Phases,
                   to_close : Int, since : Nat]

Entered == trades_today' > trades_today

\* No entry goes out once the end-of-day flatten may have begun, or outside the
\* session: a cycle judges the time by the session it was started with, and only the
\* age of its account bounds how long ago that was.
NoLateEntry ==
  [][Entered => day \in TradingDays /\ OpenAt[day] <= clock /\ minutes_to_close > Flatten]_vars

\* The counter behind the daily cap never forgets an entry this process made today,
\* although two planning passes can overlap and each resets it (run_premarket from the
\* schedule loop and from the decision loop).
CapNeverUndercounts == up => entered <= trades_today

\* Whoever trades, the process has planned a session before: "do the planning pass now
\* rather than trading blind", across overlapping passes, failed ones and restarts.
PlanBeforeTrade == [][Entered => plan # 0 /\ premarket_done]_vars

\* The frame run_premarket sets is the day's: no entry on a plan of an earlier day.
PlanOfTheDay == [][Entered => plan = day]_vars
=============================================================================

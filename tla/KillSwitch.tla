----------------------------- MODULE KillSwitch -----------------------------
(***************************************************************************)
(* The kill switch of risk/killswitch.py with everything that trips, reads *)
(* or resets it: the dashboard, the command line, the daily loss limit of  *)
(* the fast loop, the entry gate, and restarts of the process.             *)
(*                                                                         *)
(* One trading day is modelled, on a connection that stays up.  Equity is  *)
(* a small number and the limit a difference; it moves only while some     *)
(* position is held.  The loops look at the account as it was last fetched.*)
(* A flatten cancels the exit that is at work and sends one for what that  *)
(* account shows; whether and when an exit fills is the market's choice.   *)
(* Placing an exit may fail, and so may a write of the sentinel or of the  *)
(* row, all of which the code logs and ignores.  A flatten is one step     *)
(* here; ExitPaths cuts it at its awaits.                                  *)
(***************************************************************************)
EXTENDS Integers

CONSTANTS
  MaxEquity,       \* bound: equity is in 1..MaxEquity
  LossLimit,       \* daily_loss_limit_pct, as an amount
  CfgAction,       \* kill_switch_action of the configuration
  MaxCrashes,      \* bound: process deaths
  MaxWriteFails,   \* bound: failed writes of the sentinel or the row
  MaxCloseFails    \* bound: exits that could not be placed

Modes == {"halt", "flatten"}

ASSUME EquityAssumption == MaxEquity \in Nat \ {0} /\ LossLimit \in Nat \ {0}
ASSUME ModeAssumption == CfgAction \in Modes
ASSUME CrashAssumption == MaxCrashes \in Nat
ASSUME CloseAssumption == MaxCloseFails \in Nat
\* The two durable copies do not both fail.
ASSUME WriteAssumption == MaxWriteFails \in {0, 1}

VARIABLES
  \* the process
  up,          \* it is running
  event,       \* KillSwitch._event
  action,      \* KillSwitch.action
  lossFlag,    \* RiskEngine.daily_loss_tripped
  start,       \* AppState.starting_equity
  planned,     \* AppState.premarket_done
  queued,      \* a bracket past the gate waits for the order pacer
  account,     \* AppState.account: the equity and positions last fetched
  \* durable
  sentinel,    \* data/KILL exists
  row,         \* the store's kill_switch row says tripped
  savedStart,  \* the store's starting_equity of today, 0 if there is none
  \* the market and the account
  open,        \* the regular session has begun
  equity,      \* the account's equity
  held,        \* the account has open positions
  exit,        \* an exit order is at work, nobody has cancelled it
  dying,       \* an exit order whose cancel is under way may still fill
  \* history and bounds
  killed,      \* someone or something has asked for a halt since the last reset
  crashes, writeFails, closeFails

procVars == <<up, event, action, lossFlag, start, planned, queued, account>>
diskVars == <<sentinel, row, savedStart>>
histVars == <<killed, crashes, writeFails, closeFails>>
exitVars == <<exit, dying>>
acctVars == <<open, equity, held, exitVars>>
vars == <<procVars, diskVars, acctVars, histVars>>

\* No account before start() has fetched one.
NoAccount == [equity |-> 0, held |-> FALSE]

Init ==
  /\ up = FALSE /\ event = FALSE /\ action = CfgAction
  /\ lossFlag = FALSE /\ start = 0 /\ planned = FALSE /\ queued = FALSE
  /\ account = NoAccount
  /\ sentinel = FALSE /\ row = FALSE /\ savedStart = 0
  /\ open = FALSE /\ equity = MaxEquity /\ held = FALSE
  /\ exit = FALSE /\ dying = FALSE
  /\ killed = FALSE
  /\ crashes = 0 /\ writeFails = 0 /\ closeFails = 0

-----------------------------------------------------------------------------
\* is_tripped: the file is looked at on every call (and the event then set).
is_tripped == event \/ sentinel

should_flatten == up /\ is_tripped /\ action = "flatten"

\* trip(): the sentinel, then the row; each write may fail on its own.
Trip ==
  /\ event' = TRUE
  /\ \E fileOk, rowOk \in BOOLEAN :
       /\ writeFails' = writeFails + (IF fileOk THEN 0 ELSE 1) + (IF rowOk THEN 0 ELSE 1)
       /\ writeFails' <= MaxWriteFails
       /\ sentinel' = (sentinel \/ fileOk)
       /\ row' = (row \/ rowOk)
  /\ killed' = TRUE

LossBreached == start > 0 /\ account.equity <= start - LossLimit

\* account_snapshot()
Fetched == account' = [equity |-> equity, held |-> held]

-----------------------------------------------------------------------------
(* The process.                                                            *)

\* Mutant: a restart looks for the sentinel only.
RestoredFromFile == sentinel

\* __post_init__: the sentinel, or else the row.
Restored == sentinel \/ row

\* The engine is built and start() restores today's starting equity.
Start ==
  /\ ~up
  /\ up' = TRUE
  /\ event' = Restored
  /\ action' = CfgAction
  /\ lossFlag' = FALSE /\ planned' = FALSE /\ queued' = FALSE
  /\ Fetched
  /\ start' = IF savedStart # 0 THEN savedStart ELSE equity
  /\ savedStart' = start'
  /\ UNCHANGED <<sentinel, row, acctVars, histVars>>

Crash ==
  /\ up
  /\ crashes < MaxCrashes
  /\ crashes' = crashes + 1
  /\ up' = FALSE /\ event' = FALSE /\ action' = CfgAction
  /\ lossFlag' = FALSE /\ start' = 0 /\ planned' = FALSE /\ queued' = FALSE
  /\ account' = NoAccount
  /\ UNCHANGED <<diskVars, acctVars, killed, writeFails, closeFails>>

\* The account sync's loop.
SyncAccount ==
  /\ up
  /\ Fetched
  /\ UNCHANGED <<up, event, action, lossFlag, start, planned, queued, diskVars, acctVars,
                 histVars>>

\* reset_for_new_session, of the state and of the risk engine.
ResetForNewSession ==
  /\ start' = equity
  /\ lossFlag' = FALSE

\* run_premarket resets first, and is done unless a later part of it fails.
\* _schedule_tick runs it before the open, whatever the switch says; the decision loop
\* of a process started later runs it in place of a cycle, after looking at the switch.
RunPremarket ==
  /\ up
  /\ ~planned
  /\ open => ~is_tripped
  /\ Fetched
  /\ ResetForNewSession
  /\ planned' \in BOOLEAN
  /\ UNCHANGED <<up, event, action, queued, diskVars, acctVars, histVars>>

\* RiskEngine.submit up to the pacer: checks 1 and 17 of evaluate and the last look at
\* the switch, with nothing awaited between them.
Submit ==
  /\ up /\ planned /\ open /\ ~queued
  /\ event' = is_tripped
  /\ lossFlag' = (lossFlag \/ LossBreached)
  /\ queued' = (~is_tripped /\ ~LossBreached)
  /\ UNCHANGED <<up, action, start, planned, account, diskVars, acctVars, histVars>>

\* The pacer lets the bracket go, and its entry fills.
Send ==
  /\ queued
  /\ queued' = FALSE
  /\ held' = TRUE
  /\ UNCHANGED <<up, event, action, lossFlag, start, planned, account, diskVars, open,
                 equity, exitVars, histVars>>

\* check_daily_loss: a breach someone else has flagged is not acted on.
CheckDailyLoss ==
  /\ lossFlag' = (lossFlag \/ LossBreached)
  /\ \/ ~lossFlag /\ LossBreached /\ Trip
     \/ /\ lossFlag \/ ~LossBreached
        /\ event' = is_tripped
        /\ UNCHANGED <<sentinel, row, killed, writeFails>>

\* _flatten_all: cancel_all_working takes back the exit of an earlier flatten, which may
\* still fill; close_position sends an exit for what the account shows, or raises.
FlattenAll ==
  /\ dying' = (dying \/ exit)
  /\ exit' \in IF account.held THEN BOOLEAN ELSE {FALSE}
  /\ closeFails' = closeFails + (IF account.held /\ ~exit' THEN 1 ELSE 0)
  /\ closeFails' <= MaxCloseFails

\* _expire_stale_orders may find an exit that is old.
ExpireExit ==
  /\ exit' \in {exit, FALSE}
  /\ dying' = (dying \/ (exit /\ ~exit'))
  /\ UNCHANGED closeFails

TickKeeps ==
  /\ up
  /\ UNCHANGED <<up, action, start, planned, queued, account, savedStart, open, equity,
                 held, crashes>>

\* Mutant: only the dashboard's own call flattens.
FastTickWithoutFlatten ==
  /\ CheckDailyLoss
  /\ ExpireExit
  /\ TickKeeps

\* _fast_tick: check_daily_loss, then the kill switch's flatten or that of the end of the
\* day, then the orders that are too old.  Both flattens in a tick come to one.
FastTick ==
  /\ CheckDailyLoss
  /\ \E endOfDay \in BOOLEAN :
       IF account.held /\ (endOfDay \/ (event' /\ action = "flatten"))
       THEN FlattenAll ELSE ExpireExit
  /\ TickKeeps

-----------------------------------------------------------------------------
(* People.                                                                 *)

\* What the dashboard's kill leaves alone.
KillKeeps ==
  /\ up
  /\ UNCHANGED <<up, lossFlag, start, planned, queued, account, savedStart, open, equity,
                 held, crashes>>

\* Mutant: trip() is called with its two arguments swapped.
TripSwapped(mode) ==
  /\ Trip
  /\ action' = "manual dashboard trip"
  /\ UNCHANGED <<exitVars, closeFails>>
  /\ KillKeeps

\* POST /control/kill
TripKillSwitch(mode) ==
  /\ Trip
  /\ action' = mode
  /\ IF mode = "flatten" THEN FlattenAll ELSE UNCHANGED <<exitVars, closeFails>>
  /\ KillKeeps

\* aitrader kill, in either mode, or touch data/KILL: the mode is only written as text,
\* which is read as the reason.
Kill ==
  /\ sentinel' = TRUE
  /\ killed' = TRUE
  /\ UNCHANGED <<procVars, row, savedStart, acctVars, crashes, writeFails, closeFails>>

\* POST /control/reset.  A sentinel that cannot be removed trips the switch again; a row
\* that cannot be written fails the request, after the switch is clear.
ResetKill ==
  /\ up
  /\ event' = FALSE
  /\ \E fileOk, rowOk \in BOOLEAN :
       /\ writeFails' = writeFails + (IF fileOk THEN 0 ELSE 1) + (IF rowOk THEN 0 ELSE 1)
       /\ writeFails' <= MaxWriteFails
       /\ sentinel' = (sentinel /\ ~fileOk)
       /\ row' = (row /\ ~rowOk)
  /\ killed' = FALSE
  /\ UNCHANGED <<up, action, lossFlag, start, planned, queued, account, savedStart,
                 acctVars, crashes, closeFails>>

-----------------------------------------------------------------------------
(* The market.                                                             *)

MarketOpens ==
  /\ ~open
  /\ open' = TRUE
  /\ UNCHANGED <<procVars, diskVars, equity, held, exitVars, histVars>>

EquityMoves ==
  /\ held
  /\ \E e \in 1..MaxEquity : equity' = e
  /\ UNCHANGED <<procVars, diskVars, open, held, exitVars, histVars>>

\* The positions are closed by their stops or targets.
PositionCloses ==
  /\ held
  /\ held' = FALSE
  /\ UNCHANGED <<procVars, diskVars, open, equity, exitVars, histVars>>

\* An exit fills, also one whose cancel comes too late, of which there may be several.
\* It closes the position; one that is not the first may open or leave another.
ExitFills ==
  /\ held' \in IF held THEN BOOLEAN ELSE {TRUE}
  /\ \/ exit /\ exit' = FALSE /\ UNCHANGED dying
     \/ dying /\ dying' \in BOOLEAN /\ UNCHANGED exit
  /\ UNCHANGED <<procVars, diskVars, open, equity, histVars>>

ExitCancelled ==
  /\ dying
  /\ dying' = FALSE
  /\ UNCHANGED <<procVars, diskVars, open, equity, held, exit, histVars>>

Next ==
  \/ Start \/ Crash \/ SyncAccount \/ RunPremarket \/ Submit \/ Send \/ FastTick
  \/ \E mode \in Modes : TripKillSwitch(mode)
  \/ Kill \/ ResetKill \/ MarketOpens \/ EquityMoves \/ PositionCloses \/ ExitFills \/ ExitCancelled

Spec == Init /\ [][Next]_vars

\* The container restarts the process, the fast loop goes on ticking, and the account's
\* loop gets an account in the end.  Nothing is assumed of fills and cancels.
Fairness == WF_vars(Start) /\ WF_vars(FastTick) /\ WF_vars(SyncAccount)

FairSpec == Spec /\ Fairness

-----------------------------------------------------------------------------
\* Every variable keeps its type, the starting equity of the day included.
TypeOK ==
  /\ up \in BOOLEAN /\ event \in BOOLEAN /\ lossFlag \in BOOLEAN
  /\ planned \in BOOLEAN /\ queued \in BOOLEAN
  /\ sentinel \in BOOLEAN /\ row \in BOOLEAN /\ open \in BOOLEAN /\ held \in BOOLEAN
  /\ exit \in BOOLEAN /\ dying \in BOOLEAN /\ killed \in BOOLEAN
  /\ account \in [equity : 0..MaxEquity, held : BOOLEAN]
  /\ action \in Modes
  /\ start \in 0..MaxEquity /\ savedStart \in 0..MaxEquity /\ equity \in 1..MaxEquity
  /\ crashes \in 0..MaxCrashes /\ writeFails \in 0..MaxWriteFails
  /\ closeFails \in 0..MaxCloseFails

\* Once anyone has asked for a halt, no bracket passes the gate until a person resets
\* the switch: not after a restart, and not if one of the two durable copies was lost.
HaltHolds == [][queued' /\ ~queued => ~killed]_vars

\* A process that is to flatten does not sit on a position without an exit at work: an
\* exit goes out although its account was fetched before the entry filled, the entry was
\* still waiting for the pacer when the dashboard's flatten ran, or an exit could not be
\* placed.  Whether it fills before the next tick takes it back is another matter.
FlattenHappens == should_flatten /\ held ~> exit \/ ~held \/ ~should_flatten
=============================================================================

------------------------------ MODULE RiskGate ------------------------------
(***************************************************************************)
(* The path from a trade idea to the broker: the decision cycle of         *)
(* engine/cycle.py, the approvals a person answers on the dashboard        *)
(* (engine/scheduler.py), the gate of risk/engine.py they both go through, *)
(* and the counters of engine/state.py the gate reads.                     *)
(*                                                                         *)
(* Every coroutine runs undisturbed between two awaits.  From building its *)
(* RiskContext to writing its rows a submit awaits nothing; then it waits  *)
(* for the pacer; then it sends, counts and returns, again at once.  Time  *)
(* is kept as ages, which stop growing where no check tells them apart.    *)
(*                                                                         *)
(* One trading day, entries are BUYs (allow_shorts is off by default), and *)
(* a position is a number of lots.  The checks that only look at prices,   *)
(* the session, the account's money or a model's opinion may veto any      *)
(* idea.  The kill switch is in KillSwitch; lost connections, partial      *)
(* fills and reconciliation are in OrderManager.                           *)
(***************************************************************************)
EXTENDS Integers, Sequences, SequencesExt, FiniteSets

CONSTANTS
  Symbols,
  NoSymbol,
  Cycle,           \* the decision loop, as the one who asks
  Approvers,       \* dashboard requests that can be in flight at once
  MaxPositions,    \* max_concurrent_positions
  MaxEntries,      \* max_new_entries_per_cycle
  MaxTrades,       \* max_trades_per_day
  MaxPerMinute,    \* max_orders_per_minute
  Minute,          \* the window of the order rate
  Cooldown,        \* symbol_cooldown_seconds
  FlipFlop,        \* flip_flop_guard_seconds
  ApprovalTimeout, \* approval_timeout_seconds
  MaxProposals,    \* bound: proposals of one decision
  MaxPending,      \* bound: ideas waiting for an answer
  MaxLots,         \* bound: lots held
  MaxShort         \* bound: lots short

ASSUME SymbolAssumption == NoSymbol \notin Symbols
ASSUME WorkerAssumption == Cycle \notin Approvers /\ IsFiniteSet(Approvers)
ASSUME CapAssumption ==
  /\ MaxPositions \in Nat \ {0} /\ MaxEntries \in Nat \ {0}
  /\ MaxTrades \in Nat \ {0} /\ MaxPerMinute \in Nat \ {0}
  /\ Minute \in Nat /\ Cooldown \in Nat /\ FlipFlop \in Nat /\ ApprovalTimeout \in Nat
  /\ MaxProposals \in Nat /\ MaxPending \in Nat /\ MaxLots \in Nat /\ MaxShort \in Nat

VARIABLES
  \* the broker and the order ledger
  pos,      \* lots held
  entry,    \* brackets at the broker whose entry is working
  legs,     \* brackets whose entry has filled and whose legs rest
  exit,     \* lots an EXIT order is selling (buying, if negative), 0 if there is none
  stuck,    \* symbols whose rows were left PENDING by a failed placement
  \* AppState and RiskEngine
  acct,     \* state.account: the positions of the last snapshot
  mode,     \* state.execution_mode
  pending,  \* state.pending_approvals
  trades_today, entries_this_cycle,
  sinceEntry, sinceClose,   \* ages of last_entry and last_close, the limit if there is none
  orderAges,                \* ages of RiskEngine._order_times, oldest first
  \* the coroutines
  pc,       \* where the decision cycle is
  cycleAcct,\* the snapshot it works with
  todo,     \* the proposals it has not executed yet
  job,      \* what each coroutine is waiting to send
  \* durable
  savedMode \* the store's execution_mode

brokerVars == <<pos, entry, legs, exit>>
countVars == <<trades_today, entries_this_cycle, sinceEntry, orderAges>>
cycleVars == <<pc, cycleAcct, todo>>
modeVars == <<mode, savedMode>>
vars == <<brokerVars, stuck, acct, modeVars, pending, countVars, sinceClose, cycleVars, job>>

Workers == {Cycle} \cup Approvers
Idle == [what |-> "none", sym |-> NoSymbol, qty |-> 0]
Busy(w) == job[w] # Idle
Flat == [s \in Symbols |-> 0]

Init ==
  /\ pos = Flat /\ entry = Flat /\ legs = Flat /\ exit = Flat /\ stuck = {}
  /\ acct = Flat /\ mode = "auto" /\ savedMode = "auto" /\ pending = <<>>
  /\ trades_today = 0 /\ entries_this_cycle = 0 /\ orderAges = <<>>
  /\ sinceEntry = [s \in Symbols |-> Cooldown]
  /\ sinceClose = [s \in Symbols |-> FlipFlop]
  /\ pc = "idle" /\ cycleAcct = Flat /\ todo = <<>>
  /\ job = [w \in Workers |-> Idle]

-----------------------------------------------------------------------------
(* The gate.                                                               *)

\* Mutant: a row counts as working once its order is at the broker.
AcknowledgedSymbols ==
  {s \in Symbols : entry[s] > 0 \/ legs[s] > 0 \/ exit[s] # 0 \/ s \in stuck}

\* OrderManager.working_symbols: rows are written PENDING before the pacer is awaited.
working_symbols ==
  {s \in Symbols : \/ entry[s] > 0 \/ legs[s] > 0 \/ exit[s] # 0
                   \/ s \in stuck
                   \/ \E w \in Workers : job[w].sym = s}

open_positions(a) == {s \in Symbols : a[s] # 0}

\* Check 15.
PositionsAllow(s, a) == a[s] # 0 \/ Cardinality(open_positions(a)) < MaxPositions

\* Mutant: check 16 lets one more through.
CountersOffByOne ==
  /\ entries_this_cycle <= MaxEntries
  /\ trades_today <= MaxTrades
  /\ Len(orderAges) < MaxPerMinute

\* Checks 16, 18 and 19.
CountersAllow ==
  /\ entries_this_cycle < MaxEntries
  /\ trades_today < MaxTrades
  /\ Len(orderAges) < MaxPerMinute

\* Check 20, for a BUY.
NotDuplicate(s, a) == s \notin working_symbols /\ a[s] <= 0

\* Mutant: the cooldown of check 21 is only looked at for symbols that are held.
CooledIfHeld(s) == pos[s] = 0 \/ sinceEntry[s] >= Cooldown

\* Checks 21 and 22.
Cooled(s) == sinceEntry[s] >= Cooldown /\ sinceClose[s] >= FlipFlop

\* RiskEngine.evaluate of a BUY, given the account of its context.
Evaluate(s, a) ==
  /\ PositionsAllow(s, a)
  /\ CountersAllow
  /\ NotDuplicate(s, a)
  /\ Cooled(s)

\* RiskEngine.evaluate_close
EvaluateClose(s) == s \notin working_symbols

\* submit (or close_position) up to the pacer: the rows are written.
Enqueue(w, what, s, qty) ==
  job' = [job EXCEPT ![w] = [what |-> what, sym |-> s, qty |-> qty]]

-----------------------------------------------------------------------------
(* The decision cycle.                                                     *)

\* _maybe_run_cycle and the start of run.
StartCycle ==
  /\ pc = "idle"
  /\ pc' = "account"
  /\ entries_this_cycle' = 0
  /\ UNCHANGED <<brokerVars, stuck, acct, modeVars, pending, trades_today, sinceEntry,
                 orderAges, sinceClose, cycleAcct, todo, job>>

\* The broker answers with the account the whole cycle is going to use.
AccountArrives ==
  /\ pc = "account"
  /\ pc' = "decide"
  /\ acct' = pos /\ cycleAcct' = pos
  /\ UNCHANGED <<brokerVars, stuck, modeVars, pending, countVars, sinceClose, todo, job>>

Proposals == [what : {"entry", "close"}, sym : Symbols]

\* CycleDecision: at most one proposal per symbol, in any order.
Decisions ==
  {ps \in BoundedSeq(Proposals, MaxProposals) :
     \A i, j \in 1..Len(ps) : ps[i].sym = ps[j].sym => i = j}

\* The model answers.
Decide ==
  /\ pc = "decide"
  /\ pc' = "execute"
  /\ todo' \in Decisions
  /\ UNCHANGED <<brokerVars, stuck, acct, modeVars, pending, countVars, sinceClose,
                 cycleAcct, job>>

\* The account or the focus list is not to be had, the model call raises, or all is done.
EndCycle ==
  /\ \/ pc \in {"account", "decide"}
     \/ pc = "execute" /\ todo = <<>> /\ ~Busy(Cycle)
  /\ pc' = "idle" /\ cycleAcct' = Flat /\ todo' = <<>>
  /\ UNCHANGED <<brokerVars, stuck, acct, modeVars, pending, countVars, sinceClose, job>>

\* _execute takes up the next proposal.
NextProposal ==
  /\ pc = "execute" /\ todo # <<>> /\ ~Busy(Cycle)
  /\ todo' = Tail(todo)
  /\ UNCHANGED <<brokerVars, stuck, acct, modeVars, countVars, sinceClose, pc, cycleAcct>>

\* No features or conviction, unsizeable, nothing to close, or vetoed.
TurnDown == NextProposal /\ UNCHANGED <<pending, job>>

\* Manual mode: the idea waits for a person.
AwaitApproval(what, s, qty) ==
  /\ mode = "manual"
  /\ Len(pending) < MaxPending
  /\ pending' = Append(pending, [what |-> what, sym |-> s, qty |-> qty, age |-> 0])
  /\ UNCHANGED job

\* A proposal to enter.  Manual mode does not consult the gate yet.
ExecuteEntry ==
  /\ NextProposal
  /\ Head(todo).what = "entry"
  /\ LET s == Head(todo).sym IN
       \/ AwaitApproval("entry", s, 0)
       \/ /\ mode = "auto"
          /\ Evaluate(s, cycleAcct)
          /\ Enqueue(Cycle, "entry", s, 0)
          /\ UNCHANGED pending

\* _handle_close: the position and its size are those of the cycle's snapshot.
HandleClose ==
  /\ NextProposal
  /\ Head(todo).what = "close"
  /\ LET s == Head(todo).sym IN
       /\ cycleAcct[s] # 0
       /\ EvaluateClose(s)
       /\ \/ AwaitApproval("close", s, cycleAcct[s])
          \/ /\ mode = "auto"
             /\ Enqueue(Cycle, "close", s, cycleAcct[s])
             /\ UNCHANGED pending

-----------------------------------------------------------------------------
(* The dashboard.                                                          *)

\* set_execution_mode, stored at once.
SetExecutionMode(m) ==
  /\ mode' = m /\ savedMode' = m
  /\ UNCHANGED <<brokerVars, stuck, acct, pending, countVars, sinceClose, cycleVars, job>>

\* The idea comes off the list before anything is awaited.
TakeOff(i) ==
  /\ i \in 1..Len(pending)
  /\ pending' = RemoveAt(pending, i)
  /\ UNCHANGED <<brokerVars, stuck, acct, modeVars, countVars, sinceClose, cycleVars>>

\* approve_proposal, of an entry: sized and judged again, with the latest account.
ApproveEntry(w, i) ==
  /\ ~Busy(w)
  /\ TakeOff(i)
  /\ pending[i].what = "entry"
  /\ Evaluate(pending[i].sym, acct)
  /\ Enqueue(w, "entry", pending[i].sym, 0)

\* approve_proposal, of a close: with the size of the time it was proposed.
ApproveClose(w, i) ==
  /\ ~Busy(w)
  /\ TakeOff(i)
  /\ pending[i].what = "close"
  /\ EvaluateClose(pending[i].sym)
  /\ Enqueue(w, "close", pending[i].sym, pending[i].qty)

\* reject_proposal, or an approval the gate turns down.
Reject(i) == TakeOff(i) /\ UNCHANGED job

-----------------------------------------------------------------------------
(* After the pacer.                                                        *)

\* _record_order and note_entry.
NoteEntry(s) ==
  /\ orderAges' = Append(orderAges, 0)
  /\ trades_today' = trades_today + 1
  /\ entries_this_cycle' = entries_this_cycle + 1
  /\ sinceEntry' = [sinceEntry EXCEPT ![s] = 0]

\* The bracket is sent, and the coroutine goes on to its end.
SendEntry(w) ==
  /\ job[w].what = "entry"
  /\ entry' = [entry EXCEPT ![job[w].sym] = @ + 1]
  /\ NoteEntry(job[w].sym)
  /\ job' = [job EXCEPT ![w] = Idle]
  /\ UNCHANGED <<pos, legs, exit, stuck, acct, modeVars, pending, sinceClose, cycleVars>>

\* close_position sends its exit; note_close.
SendExit(w) ==
  /\ job[w].what = "close"
  /\ exit' = [exit EXCEPT ![job[w].sym] = job[w].qty]
  /\ sinceClose' = [sinceClose EXCEPT ![job[w].sym] = 0]
  /\ job' = [job EXCEPT ![w] = Idle]
  /\ UNCHANGED <<pos, entry, legs, stuck, acct, modeVars, pending, countVars, cycleVars>>

\* Placing raises: the rows stay PENDING and nothing is counted.  What may have reached
\* the broker all the same is in OrderManager.
PlacementFails(w) ==
  /\ Busy(w)
  /\ stuck' = stuck \cup {job[w].sym}
  /\ job' = [job EXCEPT ![w] = Idle]
  /\ UNCHANGED <<brokerVars, acct, modeVars, pending, countVars, sinceClose, cycleVars>>

-----------------------------------------------------------------------------
(* The market, the other loops, restarts.                                  *)

\* The legs may be lost on the way (OrderManager shows how).
EntryFills(s) ==
  /\ entry[s] > 0 /\ pos[s] < MaxLots
  /\ entry' = [entry EXCEPT ![s] = @ - 1]
  /\ pos' = [pos EXCEPT ![s] = @ + 1]
  /\ \E rest \in {0, 1} : legs' = [legs EXCEPT ![s] = @ + rest]
  /\ UNCHANGED <<exit, stuck, acct, modeVars, pending, countVars, sinceClose, cycleVars, job>>

\* The stop or the target closes the position; nobody calls note_close.
LegFires(s) ==
  /\ legs[s] > 0 /\ pos[s] > -MaxShort
  /\ legs' = [legs EXCEPT ![s] = @ - 1]
  /\ pos' = [pos EXCEPT ![s] = @ - 1]
  /\ UNCHANGED <<entry, exit, stuck, acct, modeVars, pending, countVars, sinceClose,
                 cycleVars, job>>

ExitFills(s) ==
  /\ exit[s] # 0 /\ pos[s] - exit[s] \in -MaxShort..MaxLots
  /\ exit' = [exit EXCEPT ![s] = 0]
  /\ pos' = [pos EXCEPT ![s] = @ - exit[s]]
  /\ UNCHANGED <<entry, legs, stuck, acct, modeVars, pending, countVars, sinceClose,
                 cycleVars, job>>

\* _expire_stale_orders: orders without a parent, an unfilled exit among them.
ExpireStaleOrders(s) ==
  /\ \/ /\ entry[s] > 0
        /\ entry' = [entry EXCEPT ![s] = @ - 1]
        /\ UNCHANGED exit
     \/ /\ exit[s] # 0
        /\ exit' = [exit EXCEPT ![s] = 0]
        /\ UNCHANGED entry
  /\ UNCHANGED <<pos, legs, stuck, acct, modeVars, pending, countVars, sinceClose,
                 cycleVars, job>>

Stale(p) == p.age > ApprovalTimeout

\* _expire_stale_approvals; the list is in order of age.
ExpireStaleApprovals ==
  /\ \E i \in 1..Len(pending) : Stale(pending[i])
  /\ LET stale == Cardinality({i \in 1..Len(pending) : Stale(pending[i])}) IN
       pending' = SubSeq(pending, stale + 1, Len(pending))
  /\ UNCHANGED <<brokerVars, stuck, acct, modeVars, countVars, sinceClose, cycleVars, job>>

\* _sync_account
SyncAccount ==
  /\ acct # pos
  /\ acct' = pos
  /\ UNCHANGED <<brokerVars, stuck, modeVars, pending, countVars, sinceClose, cycleVars, job>>

Older(age, limit) == IF age < limit THEN age + 1 ELSE age

\* The deque, a tick later, without what has left the window: _check_order_rate pops
\* that when it next looks.
Aged(q) ==
  LET gone == Cardinality({i \in 1..Len(q) : q[i] + 1 >= Minute})
      aged == [i \in 1..Len(q) |-> q[i] + 1]
  IN SubSeq(aged, gone + 1, Len(q))

Tick ==
  /\ sinceEntry' = [s \in Symbols |-> Older(sinceEntry[s], Cooldown)]
  /\ sinceClose' = [s \in Symbols |-> Older(sinceClose[s], FlipFlop)]
  /\ orderAges' = Aged(orderAges)
  /\ pending' = [i \in 1..Len(pending) |->
                   [pending[i] EXCEPT !.age = Older(pending[i].age, ApprovalTimeout + 1)]]
  /\ UNCHANGED <<brokerVars, stuck, acct, modeVars, trades_today, entries_this_cycle,
                 cycleVars, job>>

\* Mutant: a new process begins in the default mode.
DefaultMode == "auto"

\* Mutant: the mode of a store that has none yet.
UnsetMode == "unset"

\* TradingEngine.__init__
RestoredMode == savedMode

\* The process dies and start() runs: rows whose orders never left are written off.
\* The planning pass that comes before its first cycle resets what is empty by then.
Restart ==
  /\ mode' = RestoredMode
  /\ acct' = pos
  /\ stuck' = {} /\ pending' = <<>>
  /\ trades_today' = 0 /\ entries_this_cycle' = 0 /\ orderAges' = <<>>
  /\ sinceEntry' = [s \in Symbols |-> Cooldown]
  /\ sinceClose' = [s \in Symbols |-> FlipFlop]
  /\ pc' = "idle" /\ cycleAcct' = Flat /\ todo' = <<>>
  /\ job' = [w \in Workers |-> Idle]
  /\ UNCHANGED <<brokerVars, savedMode>>

Next ==
  \/ StartCycle \/ AccountArrives \/ Decide \/ EndCycle
  \/ TurnDown \/ ExecuteEntry \/ HandleClose
  \/ \E m \in {"auto", "manual"} : SetExecutionMode(m)
  \/ \E w \in Approvers, i \in 1..MaxPending : ApproveEntry(w, i) \/ ApproveClose(w, i)
  \/ \E i \in 1..MaxPending : Reject(i)
  \/ \E w \in Workers : SendEntry(w) \/ SendExit(w) \/ PlacementFails(w)
  \/ \E s \in Symbols : EntryFills(s) \/ LegFires(s) \/ ExitFills(s) \/ ExpireStaleOrders(s)
  \/ ExpireStaleApprovals \/ SyncAccount \/ Tick \/ Restart

Spec == Init /\ [][Next]_vars

-----------------------------------------------------------------------------
\* Types.
TypeOK ==
  /\ pos \in [Symbols -> Int] /\ exit \in [Symbols -> Int]
  /\ acct \in [Symbols -> Int] /\ cycleAcct \in [Symbols -> Int]
  /\ entry \in [Symbols -> Nat] /\ legs \in [Symbols -> Nat]
  /\ stuck \subseteq Symbols
  /\ mode \in {"auto", "manual"} /\ savedMode \in {"auto", "manual"}
  /\ pending \in Seq([what : {"entry", "close"}, sym : Symbols, qty : Int,
                      age : 0..ApprovalTimeout + 1])
  /\ trades_today \in Nat /\ entries_this_cycle \in Nat
  /\ sinceEntry \in [Symbols -> 0..Cooldown]
  /\ sinceClose \in [Symbols -> 0..FlipFlop]
  /\ orderAges \in Seq(Nat)
  /\ pc \in {"idle", "account", "decide", "execute"}
  /\ todo \in Seq(Proposals)
  /\ job \in [Workers -> {Idle} \cup [what : {"entry", "close"}, sym : Symbols, qty : Int]]

\* Brackets, resting legs and exits of a symbol, and the coroutines about to send one.
InHand(s) ==
  entry[s] + legs[s] + (IF exit[s] # 0 THEN 1 ELSE 0)
    + Cardinality({w \in Workers : job[w].sym = s})

\* Whoever asks, and however the requests interleave, a symbol has at most one bracket or
\* exit at work or on its way: check 20 and evaluate_close see what still waits.
OneOrder == \A s \in Symbols : InHand(s) <= 1

\* The caps on entries per cycle, trades and orders per minute hold up to one order for
\* each dashboard request in flight, since a submit is counted only after the pacer.
CapsBounded ==
  /\ entries_this_cycle <= MaxEntries + Cardinality(Approvers)
  /\ trades_today <= MaxTrades + Cardinality(Approvers)
  /\ Len(orderAges) <= MaxPerMinute + Cardinality(Approvers)

\* No entry is sent within the cooldown of the last one this process sent for the symbol,
\* by anyone, whatever happened between the gate and the pacer.
CooldownKept ==
  [][\A s \in Symbols : entry'[s] > entry[s] => sinceEntry[s] >= Cooldown]_vars

\* While a person wants to approve trades the cycle puts none on its way by itself, also
\* after a restart.
ManualHolds == [][~Busy(Cycle) /\ Busy(Cycle)' => savedMode = "auto"]_vars
=============================================================================

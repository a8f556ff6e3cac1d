--------------------------- MODULE RiskGateProofs ---------------------------
(***************************************************************************)
(* What the risk gate guarantees for any symbols, limits and number of     *)
(* dashboard requests.  The inductive invariant adds to the properties     *)
(* what is true of an order between the gate and the pacer: it is the only *)
(* one of its symbol, its symbol has cooled down, and the counters leave   *)
(* room for everything that waits.                                         *)
(***************************************************************************)
EXTENDS RiskGate, FiniteSetTheorems, SequenceTheorems, TLAPS

Jobs == [what : {"entry", "close"}, sym : Symbols, qty : Int]
Approvals == [what : {"entry", "close"}, sym : Symbols, qty : Int, age : 0..ApprovalTimeout + 1]

\* A job that waits is an order of a symbol; only an idle coroutine has none.
LEMMA JobShape ==
  ASSUME job \in [Workers -> {Idle} \cup Jobs], NEW w \in Workers
  PROVE  /\ Busy(w) <=> job[w] \in Jobs
         /\ Busy(w) <=> job[w].sym \in Symbols
         /\ Busy(w) <=> job[w].what \in {"entry", "close"}
         /\ ~Busy(w) <=> job[w].sym = NoSymbol
BY SymbolAssumption DEF Jobs, Idle, Busy

\* Taking an element out of a list keeps the rest.
LEMMA RemoveAtType ==
  ASSUME NEW S, NEW q \in Seq(S), NEW i \in 1..Len(q)
  PROVE  RemoveAt(q, i) \in Seq(S)
<1>1. SubSeq(q, 1, i-1) \in Seq(S)
  BY SubSeqProperties
<1>2. SubSeq(q, i+1, Len(q)) \in Seq(S)
  BY SubSeqProperties
<1> QED
  BY <1>1, <1>2 DEF RemoveAt

\* Dropping as many from the front as there are of some kind makes a list no longer.
LEMMA DropFront ==
  ASSUME NEW S, NEW q \in Seq(S), NEW T \in SUBSET (1..Len(q))
  PROVE  /\ SubSeq(q, Cardinality(T) + 1, Len(q)) \in Seq(S)
         /\ Len(SubSeq(q, Cardinality(T) + 1, Len(q))) <= Len(q)
<1>1. Cardinality(T) \in Nat
  <2>1. Len(q) \in Nat /\ IsFiniteSet(1..Len(q))
    BY FS_Interval
  <2> QED
    BY <2>1, FS_Subset, FS_CardinalityType
<1> QED
  BY <1>1, SubSeqProperties

LEMMA AgedType ==
  ASSUME NEW q \in Seq(Nat)
  PROVE  Aged(q) \in Seq(Nat) /\ Len(Aged(q)) <= Len(q)
<1> DEFINE aged == [i \in 1..Len(q) |-> q[i] + 1]
           gone == {i \in 1..Len(q) : q[i] + 1 >= Minute}
<1>1. aged \in Seq(Nat) /\ Len(aged) = Len(q)
  OBVIOUS
<1>2. gone \in SUBSET (1..Len(aged))
  BY <1>1
<1> HIDE DEF aged, gone
<1>3. SubSeq(aged, Cardinality(gone) + 1, Len(aged)) \in Seq(Nat)
      /\ Len(SubSeq(aged, Cardinality(gone) + 1, Len(aged))) <= Len(aged)
  BY <1>1, <1>2, DropFront
<1> QED
  BY <1>1, <1>3 DEF Aged, aged, gone

-----------------------------------------------------------------------------
(* Types.                                                                  *)

LEMMA EnqueueType ==
  ASSUME job \in [Workers -> {Idle} \cup Jobs], NEW w \in Workers, NEW what \in {"entry", "close"},
         NEW s \in Symbols, NEW qty \in Int, Enqueue(w, what, s, qty)
  PROVE  job' \in [Workers -> {Idle} \cup Jobs]
<1>1. [what |-> what, sym |-> s, qty |-> qty] \in Jobs
  BY DEF Jobs
<1> QED
  BY <1>1 DEF Enqueue

LEMMA AwaitType ==
  ASSUME pending \in Seq(Approvals), NEW what \in {"entry", "close"}, NEW s \in Symbols,
         NEW qty \in Int, AwaitApproval(what, s, qty)
  PROVE  pending' \in Seq(Approvals) /\ job' = job
<1>1. [what |-> what, sym |-> s, qty |-> qty, age |-> 0] \in Approvals
  BY CapAssumption DEF Approvals
<1> QED
  BY <1>1, AppendProperties DEF AwaitApproval

LEMMA OlderType ==
  ASSUME NEW limit \in Nat, NEW age \in 0..limit
  PROVE  Older(age, limit) \in 0..limit /\ Older(age, limit) >= age
BY DEF Older

LEMMA Updated ==
  ASSUME NEW S, NEW V, NEW f \in [S -> V], NEW s \in S, NEW v \in V
  PROVE  [f EXCEPT ![s] = v] \in [S -> V]
OBVIOUS

LEMMA TypeInit == Init => TypeOK
BY CapAssumption DEF Init, TypeOK, Flat, Workers

LEMMA TypeStep == TypeOK /\ [Next]_vars => TypeOK'
<1> SUFFICES ASSUME TypeOK, [Next]_vars PROVE TypeOK'
  OBVIOUS
<1> USE CapAssumption DEF TypeOK, brokerVars, countVars, cycleVars, modeVars
<1>1. CASE StartCycle
  BY <1>1 DEF StartCycle
<1>2. CASE AccountArrives
  BY <1>2 DEF AccountArrives
<1>3. CASE Decide
  <2>1. Decisions \subseteq Seq(Proposals)
    <3>1. \A m \in 0..MaxProposals : [1..m -> Proposals] \subseteq Seq(Proposals)
      OBVIOUS
    <3> QED
      BY <3>1 DEF Decisions, BoundedSeq, SeqOf
  <2> QED
    BY <1>3, <2>1 DEF Decide
<1>4. CASE EndCycle
  BY <1>4 DEF EndCycle, Flat
<1>5. ASSUME NextProposal
      PROVE  /\ Head(todo) \in Proposals /\ todo' \in Seq(Proposals)
             /\ Head(todo).sym \in Symbols
  <2>1. Head(todo) \in Proposals /\ todo' \in Seq(Proposals)
    BY <1>5, HeadTailProperties DEF NextProposal
  <2> QED
    BY <2>1 DEF Proposals
<1>6. CASE TurnDown
  BY <1>5, <1>6 DEF TurnDown, NextProposal
<1>7. job \in [Workers -> {Idle} \cup Jobs] /\ pending \in Seq(Approvals) /\ Cycle \in Workers
      /\ Approvers \subseteq Workers
  BY DEF Jobs, Approvals, Workers
<1>8. CASE ExecuteEntry
  <2> DEFINE s == Head(todo).sym
  <2>1. s \in Symbols
    BY <1>5, <1>8 DEF ExecuteEntry
  <2>2. pending' \in Seq(Approvals) /\ job' \in [Workers -> {Idle} \cup Jobs]
    <3>1. CASE AwaitApproval("entry", s, 0)
      BY ONLY <1>7, <2>1, <3>1, AwaitType, "entry" \in {"entry", "close"}, 0 \in Int
    <3>2. CASE Enqueue(Cycle, "entry", s, 0) /\ UNCHANGED pending
      BY ONLY <1>7, <2>1, <3>2, EnqueueType, "entry" \in {"entry", "close"}, 0 \in Int
    <3> QED
      BY <1>8, <3>1, <3>2 DEF ExecuteEntry
  <2> QED
    BY <1>5, <1>8, <2>2 DEF ExecuteEntry, NextProposal, Approvals, Jobs
<1>9. CASE HandleClose
  <2> DEFINE s == Head(todo).sym
  <2>1. s \in Symbols /\ cycleAcct[s] \in Int
    BY <1>5, <1>9 DEF HandleClose
  <2>2. pending' \in Seq(Approvals) /\ job' \in [Workers -> {Idle} \cup Jobs]
    <3>1. CASE AwaitApproval("close", s, cycleAcct[s])
      BY ONLY <1>7, <2>1, <3>1, AwaitType, "close" \in {"entry", "close"}
    <3>2. CASE Enqueue(Cycle, "close", s, cycleAcct[s]) /\ UNCHANGED pending
      BY ONLY <1>7, <2>1, <3>2, EnqueueType, "close" \in {"entry", "close"}
    <3> QED
      BY <1>9, <3>1, <3>2 DEF HandleClose
  <2> QED
    BY <1>5, <1>9, <2>2 DEF HandleClose, NextProposal, Approvals, Jobs
<1>10. ASSUME NEW m \in {"auto", "manual"}, SetExecutionMode(m) PROVE TypeOK'
  BY <1>10 DEF SetExecutionMode
<1>11. ASSUME NEW i \in 1..MaxPending, TakeOff(i)
       PROVE  pending' \in Seq(Approvals) /\ pending[i] \in Approvals
  <2>1. pending \in Seq(Approvals) /\ i \in 1..Len(pending)
    BY <1>11 DEF TakeOff, Approvals
  <2> QED
    BY <1>11, <2>1, RemoveAtType DEF TakeOff
<1>12. ASSUME NEW w \in Approvers, NEW i \in 1..MaxPending, ApproveEntry(w, i) PROVE TypeOK'
  <2>1. pending[i].sym \in Symbols
    BY <1>11, <1>12 DEF ApproveEntry, Approvals
  <2>2. Enqueue(w, "entry", pending[i].sym, 0) /\ w \in Workers
    BY <1>7, <1>12 DEF ApproveEntry
  <2>3. job' \in [Workers -> {Idle} \cup Jobs]
    BY ONLY <1>7, <2>1, <2>2, EnqueueType, "entry" \in {"entry", "close"}, 0 \in Int
  <2> QED
    BY <1>11, <1>12, <2>3 DEF ApproveEntry, TakeOff, Approvals, Jobs
<1>13. ASSUME NEW w \in Approvers, NEW i \in 1..MaxPending, ApproveClose(w, i) PROVE TypeOK'
  <2>1. pending[i].sym \in Symbols /\ pending[i].qty \in Int
    BY <1>11, <1>13 DEF ApproveClose, Approvals
  <2>2. job' \in [Workers -> {Idle} \cup Jobs]
    BY <1>7, <1>13, <2>1, EnqueueType DEF ApproveClose
  <2> QED
    BY <1>11, <1>13, <2>2 DEF ApproveClose, TakeOff, Approvals, Jobs
<1>14. ASSUME NEW i \in 1..MaxPending, Reject(i) PROVE TypeOK'
  BY <1>11, <1>14 DEF Reject, TakeOff, Approvals
<1>15. ASSUME NEW w \in Workers, SendEntry(w) PROVE TypeOK'
  <2>1. job[w].sym \in Symbols
    BY <1>15, JobShape DEF SendEntry, Jobs
  <2>2. orderAges' \in Seq(Nat)
    <3>1. orderAges \in Seq(Nat) /\ 0 \in Nat
      OBVIOUS
    <3>2. orderAges' = Append(orderAges, 0)
      BY ONLY <1>15 DEF SendEntry, NoteEntry
    <3> QED
      BY ONLY <3>1, <3>2, AppendProperties
  <2>3. entry' \in [Symbols -> Nat] /\ sinceEntry' \in [Symbols -> 0..Cooldown]
    <3>1. entry[job[w].sym] + 1 \in Nat /\ 0 \in 0..Cooldown
      BY <2>1
    <3> QED
      BY <1>15, <2>1, <3>1, Updated DEF SendEntry, NoteEntry
  <2>5. trades_today' \in Nat /\ entries_this_cycle' \in Nat
    BY <1>15 DEF SendEntry, NoteEntry
  <2>4. job' \in [Workers -> {Idle} \cup Jobs]
    BY <1>7, <1>15 DEF SendEntry
  <2> QED
    BY <1>15, <2>2, <2>3, <2>4, <2>5 DEF SendEntry, Jobs
<1>16. ASSUME NEW w \in Workers, SendExit(w) PROVE TypeOK'
  <2>1. job[w].sym \in Symbols /\ job[w].qty \in Int
    BY <1>16, JobShape DEF SendExit, Jobs
  <2>2. exit' \in [Symbols -> Int] /\ sinceClose' \in [Symbols -> 0..FlipFlop]
    BY <1>16, <2>1 DEF SendExit
  <2>3. job' \in [Workers -> {Idle} \cup Jobs]
    BY <1>7, <1>16 DEF SendExit
  <2> QED
    BY <1>16, <2>2, <2>3 DEF SendExit, Jobs
<1>17. ASSUME NEW w \in Workers, PlacementFails(w) PROVE TypeOK'
  BY <1>17, JobShape DEF PlacementFails, Jobs
<1>18. ASSUME NEW s \in Symbols, EntryFills(s) PROVE TypeOK'
  <2>1. entry' \in [Symbols -> Nat] /\ pos' \in [Symbols -> Int] /\ legs' \in [Symbols -> Nat]
    <3>1. entry[s] - 1 \in Nat /\ pos[s] + 1 \in Int
      <4>1. entry[s] \in Nat /\ pos[s] \in Int
        OBVIOUS
      <4> QED
        BY ONLY <1>18, <4>1 DEF EntryFills
    <3>2. \A rest \in {0, 1} : legs[s] + rest \in Nat
      OBVIOUS
    <3>3. entry' \in [Symbols -> Nat] /\ pos' \in [Symbols -> Int]
      BY <1>18, <3>1, Updated DEF EntryFills
    <3>4. legs' \in [Symbols -> Nat]
      <4>1. PICK rest \in {0, 1} : legs' = [legs EXCEPT ![s] = legs[s] + rest]
        BY <1>18 DEF EntryFills
      <4>2. legs[s] + rest \in Nat
        BY <3>2
      <4> QED
        BY <4>1, <4>2, Updated
    <3> QED
      BY <3>3, <3>4
  <2> QED
    BY <1>18, <2>1 DEF EntryFills
<1>19. ASSUME NEW s \in Symbols, LegFires(s) PROVE TypeOK'
  <2>1. pos' \in [Symbols -> Int] /\ legs' \in [Symbols -> Nat]
    <3>1. legs[s] - 1 \in Nat /\ pos[s] - 1 \in Int
      <4>1. legs[s] \in Nat /\ pos[s] \in Int
        OBVIOUS
      <4> QED
        BY ONLY <1>19, <4>1 DEF LegFires
    <3> QED
      BY <1>19, <3>1, Updated DEF LegFires
  <2> QED
    BY <1>19, <2>1 DEF LegFires
<1>20. ASSUME NEW s \in Symbols, ExitFills(s) PROVE TypeOK'
  <2>1. pos' \in [Symbols -> Int] /\ exit' \in [Symbols -> Int]
    <3>1. pos[s] - exit[s] \in Int /\ 0 \in Int
      OBVIOUS
    <3>2. pos' = [pos EXCEPT ![s] = pos[s] - exit[s]] /\ exit' = [exit EXCEPT ![s] = 0]
      BY ONLY <1>20 DEF ExitFills
    <3> QED
      BY <3>1, <3>2, Updated
  <2> QED
    BY <1>20, <2>1 DEF ExitFills
<1>21. ASSUME NEW s \in Symbols, ExpireStaleOrders(s) PROVE TypeOK'
  <2>1. entry' \in [Symbols -> Nat] /\ exit' \in [Symbols -> Int]
    <3>1. entry[s] > 0 => entry[s] - 1 \in Nat
      OBVIOUS
    <3>2. CASE entry[s] > 0 /\ entry' = [entry EXCEPT ![s] = @ - 1] /\ UNCHANGED exit
      BY <3>1, <3>2, Updated
    <3>3. CASE exit' = [exit EXCEPT ![s] = 0] /\ UNCHANGED entry
      BY <3>3, Updated
    <3> QED
      BY <1>21, <3>2, <3>3 DEF ExpireStaleOrders
  <2> QED
    BY <1>21, <2>1 DEF ExpireStaleOrders
<1>22. CASE ExpireStaleApprovals
  <2>1. pending' \in Seq(Approvals)
    BY <1>22, DropFront, pending \in Seq(Approvals),
       {i \in 1..Len(pending) : Stale(pending[i])} \in SUBSET (1..Len(pending))
       DEF ExpireStaleApprovals, Approvals
  <2> QED
    BY <1>22, <2>1 DEF ExpireStaleApprovals, Approvals
<1>23. CASE SyncAccount
  BY <1>23 DEF SyncAccount
<1>24. CASE Tick
  <2>1. orderAges' \in Seq(Nat)
    BY <1>24, AgedType DEF Tick
  <2>2. pending' \in Seq(Approvals)
    <3>1. pending \in Seq(Approvals)
      BY DEF Approvals
    <3>2. \A i \in 1..Len(pending) :
            [pending[i] EXCEPT !.age = Older(pending[i].age, ApprovalTimeout + 1)] \in Approvals
      <4> TAKE i \in 1..Len(pending)
      <4>1. pending[i] \in Approvals
        BY <3>1
      <4>2. Older(pending[i].age, ApprovalTimeout + 1) \in 0..ApprovalTimeout + 1
        <5>1. pending[i].age \in 0..ApprovalTimeout + 1
          BY ONLY <4>1 DEF Approvals
        <5>2. ApprovalTimeout + 1 \in Nat
          BY ONLY CapAssumption
        <5> QED
          BY ONLY <5>1, <5>2, OlderType
      <4> QED
        BY <4>1, <4>2 DEF Approvals
    <3> DEFINE older == [i \in 1..Len(pending) |->
                 [pending[i] EXCEPT !.age = Older(pending[i].age, ApprovalTimeout + 1)]]
    <3>3. older \in Seq(Approvals)
      <4>1. Len(pending) \in Nat /\ older \in [1..Len(pending) -> Approvals]
        BY ONLY <3>1, <3>2
      <4> QED
        BY ONLY <4>1
    <3> QED
      BY <1>24, <3>3 DEF Tick
  <2>3. sinceEntry' \in [Symbols -> 0..Cooldown] /\ sinceClose' \in [Symbols -> 0..FlipFlop]
    BY <1>24, OlderType DEF Tick
  <2> QED
    BY <1>24, <2>1, <2>2, <2>3 DEF Tick, Approvals
<1>25. CASE Restart
  BY <1>25 DEF Restart, RestoredMode, Flat
<1>26. CASE UNCHANGED vars
  BY <1>26 DEF vars
<1> QED
  BY <1>1, <1>2, <1>3, <1>4, <1>6, <1>8, <1>9, <1>10, <1>12, <1>13, <1>14, <1>15, <1>16,
     <1>17, <1>18, <1>19, <1>20, <1>21, <1>22, <1>23, <1>24, <1>25, <1>26 DEF Next

\* The counters, clocks, lists and ledger of the gate keep their types through every
\* interleaving of cycle, approvals, fills and restarts.
THEOREM TypeCorrect == Spec => []TypeOK
BY TypeInit, TypeStep, PTL DEF Spec

-----------------------------------------------------------------------------
(* One order of a symbol.                                                  *)

\* What OneOrder says, without counting coroutines.
Alone(s) == entry[s] + legs[s] + (IF exit[s] # 0 THEN 1 ELSE 0)

Exclusive ==
  /\ \A s \in Symbols : Alone(s) <= 1
  /\ \A w \in Workers : Busy(w) => Alone(job[w].sym) = 0
  /\ \A v, w \in Workers : Busy(v) /\ job[v].sym = job[w].sym => v = w

LEMMA ExclusiveInit == Init => Exclusive
BY SymbolAssumption DEF Init, Exclusive, Alone, Flat, Busy

\* A symbol the gate does not see at work has nothing at work and nothing waiting.
LEMMA NotWorking ==
  ASSUME TypeOK, NEW s \in Symbols, s \notin working_symbols
  PROVE  Alone(s) = 0 /\ \A w \in Workers : job[w].sym # s
BY DEF working_symbols, Alone, TypeOK

\* So what passes the gate is the only order of its symbol.
LEMMA EnqueueExclusive ==
  ASSUME TypeOK, Exclusive, NEW w \in Workers, NEW what \in {"entry", "close"},
         NEW s \in Symbols, NEW qty \in Int, s \notin working_symbols, ~Busy(w),
         Enqueue(w, what, s, qty), UNCHANGED brokerVars
  PROVE  Exclusive'
<1>1. /\ job'[w] = [what |-> what, sym |-> s, qty |-> qty]
      /\ \A v \in Workers : v # w => job'[v] = job[v]
  BY DEF Enqueue, TypeOK
<1>2. \A t \in Symbols : Alone(t)' = Alone(t)
  BY DEF Alone, brokerVars
<1>3. Alone(s) = 0 /\ \A v \in Workers : job[v].sym # s
  BY NotWorking
<1>4. \A v \in Workers : Busy(v) => job[v].sym \in Symbols
  BY JobShape DEF TypeOK, Jobs
<1> QED
  BY <1>1, <1>2, <1>3, <1>4 DEF Exclusive, Busy

\* One that is sent, or given up, leaves room for nothing else.
LEMMA DoneExclusive ==
  ASSUME TypeOK, Exclusive, NEW w \in Workers, Busy(w),
         job' = [job EXCEPT ![w] = Idle], NEW r \in Symbols, r = job[w].sym,
         \A s \in Symbols : s # r => Alone(s)' = Alone(s), Alone(r)' <= 1
  PROVE  Exclusive'
<1>1. job'[w] = Idle /\ \A v \in Workers : v # w => job'[v] = job[v]
  BY DEF TypeOK
<1>2. \A v \in Workers : Busy(v) => job[v].sym \in Symbols
  BY JobShape DEF TypeOK, Jobs
<1>3. \A v \in Workers : Busy(v)' => v # w /\ Busy(v) /\ job'[v] = job[v]
  BY <1>1 DEF Busy
<1>4. \A s \in Symbols : Alone(s)' <= 1
  <2> TAKE s \in Symbols
  <2>1. CASE s = r
    BY <2>1
  <2>2. CASE s # r
    BY <2>2 DEF Exclusive
  <2> QED
    BY <2>1, <2>2
<1>5. \A v \in Workers : Busy(v)' => Alone(job[v].sym)' = 0
  BY <1>2, <1>3 DEF Exclusive
<1>6. ASSUME NEW u \in Workers, NEW v \in Workers, Busy(u)', job'[u].sym = job'[v].sym PROVE u = v
  <2>1. u # w /\ Busy(u) /\ job'[u] = job[u] /\ job[u].sym \in Symbols
    BY <1>2, <1>3, <1>6
  <2>2. v # w
    BY <1>1, <1>6, <2>1, SymbolAssumption DEF Idle
  <2> QED
    BY <1>1, <1>6, <2>1, <2>2 DEF Exclusive
<1> QED
  BY <1>1, <1>3, <1>4, <1>5, <1>6 DEF Exclusive

\* Fills and expiries add nothing to a symbol.
LEMMA LessExclusive ==
  ASSUME TypeOK, Exclusive, UNCHANGED job, \A s \in Symbols : Alone(s)' <= Alone(s),
         \A s \in Symbols : Alone(s)' >= 0, \A s \in Symbols : Alone(s) \in Int,
         \A s \in Symbols : Alone(s)' \in Int
  PROVE  Exclusive'
<1>1. \A v \in Workers : Busy(v) => job[v].sym \in Symbols
  BY JobShape DEF TypeOK, Jobs
<1> QED
  BY <1>1 DEF Exclusive, Busy

LEMMA ExclusiveStep == TypeOK /\ TypeOK' /\ Exclusive /\ [Next]_vars => Exclusive'
<1> SUFFICES ASSUME TypeOK, TypeOK', Exclusive, [Next]_vars PROVE Exclusive'
  OBVIOUS
<1>0. ASSUME UNCHANGED <<brokerVars, job>> PROVE Exclusive'
  BY <1>0 DEF Exclusive, Alone, Busy, brokerVars
<1>1. CASE StartCycle \/ AccountArrives \/ Decide \/ EndCycle
  BY <1>0, <1>1 DEF StartCycle, AccountArrives, Decide, EndCycle
<1>2. CASE TurnDown
  BY <1>0, <1>2 DEF TurnDown, NextProposal
<1>3. ASSUME NextProposal
      PROVE  /\ Head(todo).sym \in Symbols /\ ~Busy(Cycle) /\ Cycle \in Workers
             /\ UNCHANGED brokerVars
  <2>1. Head(todo) \in Proposals
    BY <1>3, HeadTailProperties DEF NextProposal, TypeOK
  <2> QED
    BY <1>3, <2>1 DEF Proposals, NextProposal, Workers
<1>4. CASE ExecuteEntry
  <2>1. CASE AwaitApproval("entry", Head(todo).sym, 0)
    BY <1>0, <1>3, <1>4, <2>1 DEF ExecuteEntry, AwaitApproval
  <2>2. CASE Evaluate(Head(todo).sym, cycleAcct) /\ Enqueue(Cycle, "entry", Head(todo).sym, 0)
    BY <1>3, <1>4, <2>2, EnqueueExclusive DEF ExecuteEntry, Evaluate, NotDuplicate
  <2> QED
    BY <1>4, <2>1, <2>2 DEF ExecuteEntry
<1>5. CASE HandleClose
  <2> DEFINE s == Head(todo).sym
  <2>1. CASE AwaitApproval("close", s, cycleAcct[s])
    BY <1>0, <1>3, <1>5, <2>1 DEF HandleClose, AwaitApproval
  <2>2. CASE Enqueue(Cycle, "close", s, cycleAcct[s])
    <3>1. s \notin working_symbols /\ cycleAcct[s] \in Int
      BY <1>3, <1>5 DEF HandleClose, EvaluateClose, TypeOK
    <3> QED
      BY <1>3, <1>5, <2>2, <3>1, EnqueueExclusive DEF HandleClose
  <2> QED
    BY <1>5, <2>1, <2>2 DEF HandleClose
<1>6. ASSUME NEW m \in {"auto", "manual"}, SetExecutionMode(m) PROVE Exclusive'
  BY <1>0, <1>6 DEF SetExecutionMode
<1>7. ASSUME NEW w \in Approvers, NEW i \in 1..MaxPending, TakeOff(i)
      PROVE  /\ pending[i].sym \in Symbols /\ pending[i].qty \in Int /\ w \in Workers
             /\ UNCHANGED brokerVars
  <2>1. pending \in Seq(Approvals) /\ i \in 1..Len(pending)
    BY <1>7 DEF TakeOff, TypeOK, Approvals
  <2>2. pending[i] \in Approvals
    BY <2>1
  <2> QED
    BY <1>7, <2>2 DEF Approvals, TakeOff, Workers
<1>8. ASSUME NEW w \in Approvers, NEW i \in 1..MaxPending, ApproveEntry(w, i) PROVE Exclusive'
  <2>1. /\ TakeOff(i) /\ pending[i].sym \notin working_symbols /\ ~Busy(w)
        /\ Enqueue(w, "entry", pending[i].sym, 0)
    BY <1>8 DEF ApproveEntry, Evaluate, NotDuplicate
  <2> QED
    BY <1>7, <2>1, EnqueueExclusive
<1>9. ASSUME NEW w \in Approvers, NEW i \in 1..MaxPending, ApproveClose(w, i) PROVE Exclusive'
  <2>1. /\ TakeOff(i) /\ pending[i].sym \notin working_symbols /\ ~Busy(w)
        /\ Enqueue(w, "close", pending[i].sym, pending[i].qty)
    BY <1>9 DEF ApproveClose, EvaluateClose
  <2> QED
    BY <1>7, <2>1, EnqueueExclusive
<1>10. ASSUME NEW i \in 1..MaxPending, Reject(i) PROVE Exclusive'
  BY <1>0, <1>10 DEF Reject, TakeOff
<1>11. ASSUME NEW w \in Workers, job[w].what \in {"entry", "close"}
       PROVE  Busy(w) /\ job[w].sym \in Symbols /\ Alone(job[w].sym) = 0
  <2>1. Busy(w) /\ job[w].sym \in Symbols
    BY <1>11, JobShape DEF TypeOK, Jobs
  <2> QED
    BY <2>1 DEF Exclusive
<1>12. ASSUME NEW w \in Workers, SendEntry(w) PROVE Exclusive'
  <2>0. PICK s \in Symbols : s = job[w].sym
    BY <1>11, <1>12 DEF SendEntry
  <2>1. Busy(w) /\ Alone(s) = 0
    BY <1>11, <1>12, <2>0 DEF SendEntry
  <2>2. Alone(s)' <= 1
    <3>1. entry'[s] = entry[s] + 1 /\ legs'[s] = legs[s] /\ exit'[s] = exit[s]
      BY <1>12, <2>0 DEF SendEntry, TypeOK
    <3>2. entry[s] \in Nat /\ legs[s] \in Nat
      BY <2>1 DEF TypeOK
    <3> QED
      BY <2>1, <3>1, <3>2 DEF Alone
  <2>3. \A t \in Symbols : t # s => Alone(t)' = Alone(t)
    BY <1>12, <2>0 DEF SendEntry, Alone, TypeOK
  <2> QED
    BY <1>12, <2>0, <2>1, <2>2, <2>3, DoneExclusive DEF SendEntry
<1>13. ASSUME NEW w \in Workers, SendExit(w) PROVE Exclusive'
  <2>0. PICK s \in Symbols : s = job[w].sym
    BY <1>11, <1>13 DEF SendExit
  <2>1. Busy(w) /\ Alone(s) = 0
    BY <1>11, <1>13, <2>0 DEF SendExit
  <2>2. Alone(s)' <= 1
    <3>1. entry'[s] = entry[s] /\ legs'[s] = legs[s]
      BY <1>13 DEF SendExit
    <3>2. entry[s] \in Nat /\ legs[s] \in Nat
      BY <2>1 DEF TypeOK
    <3> QED
      BY <2>1, <3>1, <3>2 DEF Alone
  <2>3. \A t \in Symbols : t # s => Alone(t)' = Alone(t)
    BY <1>13, <2>0 DEF SendExit, Alone, TypeOK
  <2> QED
    BY <1>13, <2>0, <2>1, <2>2, <2>3, DoneExclusive DEF SendExit
<1>14. ASSUME NEW w \in Workers, PlacementFails(w) PROVE Exclusive'
  <2>1. PICK s \in Symbols : s = job[w].sym
    BY <1>14, JobShape DEF PlacementFails, TypeOK, Jobs
  <2>2. \A t \in Symbols : Alone(t)' = Alone(t)
    BY <1>14 DEF PlacementFails, Alone, brokerVars
  <2>3. Alone(s)' <= 1
    BY <2>2 DEF Exclusive
  <2> QED
    BY <1>14, <2>1, <2>2, <2>3, DoneExclusive DEF PlacementFails
<1>15. \A s \in Symbols : Alone(s) \in Nat /\ Alone(s)' \in Nat
  <2> TAKE s \in Symbols
  <2>1. entry[s] \in Nat /\ legs[s] \in Nat /\ entry'[s] \in Nat /\ legs'[s] \in Nat
    BY DEF TypeOK
  <2> QED
    BY <2>1 DEF Alone
<1>16. ASSUME NEW s \in Symbols, EntryFills(s) PROVE Exclusive'
  <2>1. \A t \in Symbols : Alone(t)' <= Alone(t)
    <3> TAKE t \in Symbols
    <3>1. entry[t] \in Nat /\ legs[t] \in Nat /\ entry'[t] \in Nat /\ legs'[t] \in Nat
      BY DEF TypeOK
    <3>2. entry'[t] + legs'[t] <= entry[t] + legs[t] /\ exit'[t] = exit[t]
      <4>1. CASE t = s
        <5>1. entry'[s] = entry[s] - 1 /\ exit'[s] = exit[s]
          BY <1>16 DEF EntryFills, TypeOK
        <5>2. PICK rest \in {0, 1} : legs' = [legs EXCEPT ![s] = legs[s] + rest]
          BY <1>16 DEF EntryFills
        <5>3. legs'[s] = legs[s] + rest
          BY <5>2 DEF TypeOK
        <5> QED
          BY <3>1, <4>1, <5>1, <5>3
      <4>2. CASE t # s
        BY <1>16, <3>1, <4>2 DEF EntryFills, TypeOK
      <4> QED
        BY <4>1, <4>2
    <3> QED
      BY <3>1, <3>2 DEF Alone
  <2> QED
    BY <1>15, <1>16, <2>1, LessExclusive DEF EntryFills
<1>17. ASSUME NEW s \in Symbols, LegFires(s) PROVE Exclusive'
  <2>1. \A t \in Symbols : Alone(t)' <= Alone(t)
    <3> TAKE t \in Symbols
    <3>1. entry[t] \in Nat /\ legs[t] \in Nat /\ entry'[t] \in Nat /\ legs'[t] \in Nat
      BY DEF TypeOK
    <3>2. entry'[t] + legs'[t] <= entry[t] + legs[t] /\ exit'[t] = exit[t]
      <4>1. CASE t = s
        <5>1. legs'[s] = legs[s] - 1 /\ entry'[s] = entry[s] /\ exit'[s] = exit[s]
          BY <1>17 DEF LegFires, TypeOK
        <5> QED
          BY <3>1, <4>1, <5>1
      <4>2. CASE t # s
        BY <1>17, <3>1, <4>2 DEF LegFires, TypeOK
      <4> QED
        BY <4>1, <4>2
    <3> QED
      BY <3>1, <3>2 DEF Alone
  <2> QED
    BY <1>15, <1>17, <2>1, LessExclusive DEF LegFires
<1>18. ASSUME NEW s \in Symbols, ExitFills(s) PROVE Exclusive'
  <2>1. \A t \in Symbols : Alone(t)' <= Alone(t)
    <3> TAKE t \in Symbols
    <3>1. entry[t] \in Nat /\ legs[t] \in Nat /\ entry'[t] \in Nat /\ legs'[t] \in Nat
      BY DEF TypeOK
    <3>2. entry'[t] = entry[t] /\ legs'[t] = legs[t] /\ (exit'[t] = exit[t] \/ exit'[t] = 0)
      BY <1>18, <3>1 DEF ExitFills, TypeOK
    <3> QED
      BY <3>1, <3>2 DEF Alone
  <2> QED
    BY <1>15, <1>18, <2>1, LessExclusive DEF ExitFills
<1>19. ASSUME NEW s \in Symbols, ExpireStaleOrders(s) PROVE Exclusive'
  <2>1. \A t \in Symbols : Alone(t)' <= Alone(t)
    <3> TAKE t \in Symbols
    <3>1. entry[t] \in Nat /\ legs[t] \in Nat /\ entry'[t] \in Nat /\ legs'[t] \in Nat
      BY DEF TypeOK
    <3>2. entry'[t] <= entry[t] /\ legs'[t] = legs[t] /\ (exit'[t] = exit[t] \/ exit'[t] = 0)
      <4>1. legs'[t] = legs[t]
        BY <1>19 DEF ExpireStaleOrders
      <4>2. CASE entry' = [entry EXCEPT ![s] = @ - 1] /\ UNCHANGED exit
        <5>1. entry'[t] = IF t = s THEN entry[t] - 1 ELSE entry[t]
          BY <4>2 DEF TypeOK
        <5> QED
          BY <3>1, <4>1, <4>2, <5>1
      <4>3. CASE exit' = [exit EXCEPT ![s] = 0] /\ UNCHANGED entry
        <5>1. exit'[t] = IF t = s THEN 0 ELSE exit[t]
          BY <4>3 DEF TypeOK
        <5> QED
          BY <3>1, <4>1, <4>3, <5>1
      <4> QED
        BY <1>19, <4>2, <4>3 DEF ExpireStaleOrders
    <3> QED
      BY <3>1, <3>2 DEF Alone
  <2> QED
    BY <1>15, <1>19, <2>1, LessExclusive DEF ExpireStaleOrders
<1>20. CASE ExpireStaleApprovals \/ SyncAccount \/ Tick
  BY <1>0, <1>20 DEF ExpireStaleApprovals, SyncAccount, Tick
<1>21. CASE Restart
  <2>1. \A w \in Workers : ~Busy(w)'
    BY <1>21 DEF Restart, Busy
  <2>2. \A s \in Symbols : Alone(s)' = Alone(s)
    BY <1>21 DEF Restart, Alone, brokerVars
  <2> QED
    BY <2>1, <2>2 DEF Exclusive
<1>22. CASE UNCHANGED vars
  BY <1>0, <1>22 DEF vars
<1> QED
  BY <1>1, <1>2, <1>4, <1>5, <1>6, <1>8, <1>9, <1>10, <1>12, <1>13, <1>14, <1>16, <1>17,
     <1>18, <1>19, <1>20, <1>21, <1>22 DEF Next

\* At most one coroutine can be waiting for a symbol.
LEMMA ExclusiveCounts == TypeOK /\ Exclusive => OneOrder
<1> SUFFICES ASSUME TypeOK, Exclusive, NEW s \in Symbols PROVE InHand(s) <= 1
  BY DEF OneOrder
<1> DEFINE W == {w \in Workers : job[w].sym = s}
<1>1. \A w \in W : Busy(w)
  BY SymbolAssumption, JobShape DEF TypeOK, Jobs, Idle, Busy
<1>2. CASE W = {}
  <2>1. Cardinality(W) = 0
    BY <1>2, FS_EmptySet
  <2>2. Alone(s) <= 1 /\ entry[s] \in Nat /\ legs[s] \in Nat
    BY DEF Exclusive, TypeOK
  <2> QED
    BY <2>1, <2>2 DEF InHand, Alone
<1>3. ASSUME NEW w \in W PROVE InHand(s) <= 1
  <2>1. W = {w}
    BY <1>1, <1>3 DEF Exclusive
  <2>2. Cardinality(W) = 1
    BY <2>1, FS_Singleton
  <2>3. Alone(s) = 0
    BY <1>1, <1>3 DEF Exclusive
  <2> QED
    BY <2>2, <2>3 DEF InHand, Alone, TypeOK
<1> QED
  BY <1>2, <1>3

\* Two dashboard requests and the decision cycle, in any interleaving, never put two
\* brackets, or a bracket and an exit, of one symbol to work: the rows submit and
\* close_position write before they wait are what the gate's check 20 sees.
THEOREM OneOrderHolds == Spec => []OneOrder
<1>1. Init => TypeOK /\ Exclusive
  BY TypeInit, ExclusiveInit
<1>2. TypeOK /\ Exclusive /\ [Next]_vars => (TypeOK /\ Exclusive)'
  BY TypeStep, ExclusiveStep
<1>3. TypeOK /\ Exclusive => OneOrder
  BY ExclusiveCounts
<1> QED
  BY <1>1, <1>2, <1>3, PTL DEF Spec

-----------------------------------------------------------------------------
(* The caps.                                                               *)

Queued == {w \in Workers : job[w].what = "entry"}

\* What is counted and what is going to be, against each cap.
Room ==
  /\ entries_this_cycle + Cardinality(Queued) <= MaxEntries + Cardinality(Approvers)
  /\ trades_today + Cardinality(Queued) <= MaxTrades + Cardinality(Approvers)
  /\ Len(orderAges) + Cardinality(Queued) <= MaxPerMinute + Cardinality(Approvers)

LEMMA WorkerCount ==
  /\ IsFiniteSet(Workers)
  /\ Cardinality(Approvers) \in Nat
  /\ Cardinality(Workers) = Cardinality(Approvers) + 1
<1>1. Workers = Approvers \cup {Cycle}
  BY DEF Workers
<1> QED
  BY <1>1, WorkerAssumption, FS_AddElement, FS_CardinalityType

LEMMA QueuedCount == Cardinality(Queued) \in Nat /\ IsFiniteSet(Queued)
<1>1. Queued \in SUBSET Workers
  BY DEF Queued
<1> QED
  BY <1>1, WorkerCount, FS_Subset, FS_CardinalityType

LEMMA QueuedCountNext == Cardinality(Queued') \in Nat /\ IsFiniteSet(Queued')
<1>1. Queued' \in SUBSET Workers
  BY DEF Queued
<1> QED
  BY <1>1, WorkerCount, FS_Subset, FS_CardinalityType

LEMMA RoomInit == Init => Room
<1> SUFFICES ASSUME Init PROVE Room
  OBVIOUS
<1>1. Queued = {}
  BY DEF Init, Queued, Idle
<1>2. Cardinality(Queued) = 0
  BY <1>1, FS_EmptySet
<1>3. Len(orderAges) = 0
  BY DEF Init
<1> QED
  BY <1>2, <1>3, WorkerCount, CapAssumption DEF Init, Room

\* The counters and caps are integers.
LEMMA CountTypes ==
  TypeOK => entries_this_cycle \in Int /\ trades_today \in Int /\ Len(orderAges) \in Int
BY DEF TypeOK

LEMMA CountTypesNext ==
  TypeOK' => entries_this_cycle' \in Int /\ trades_today' \in Int /\ Len(orderAges') \in Int
BY DEF TypeOK

LEMMA CapTypes ==
  /\ MaxEntries \in Int /\ MaxTrades \in Int /\ MaxPerMinute \in Int
  /\ Cardinality(Approvers) \in Int
BY WorkerCount, CapAssumption

\* Counters that do not grow, and no new order waiting.
LEMMA RoomKept ==
  ASSUME TypeOK, TypeOK', Room, Queued' \subseteq Queued,
         entries_this_cycle' <= entries_this_cycle, trades_today' <= trades_today,
         Len(orderAges') <= Len(orderAges)
  PROVE  Room'
<1>1. Cardinality(Queued') <= Cardinality(Queued)
  BY QueuedCount, FS_Subset
<1> DEFINE q == Cardinality(Queued)
           r == Cardinality(Queued')
           k == Cardinality(Approvers)
<1>2. q \in Int /\ r \in Int
  BY QueuedCount, QueuedCountNext
<1>3. /\ entries_this_cycle' + r <= entries_this_cycle + q
      /\ trades_today' + r <= trades_today + q
      /\ Len(orderAges') + r <= Len(orderAges) + q
  <2> HIDE DEF q, r
  <2>1. r <= q
    BY <1>1 DEF q, r
  <2> QED
    BY <1>2, <2>1, CountTypes, CountTypesNext
<1>4. /\ entries_this_cycle + q <= MaxEntries + k
      /\ trades_today + q <= MaxTrades + k
      /\ Len(orderAges) + q <= MaxPerMinute + k
  BY DEF Room
<1>5. /\ entries_this_cycle' + r <= MaxEntries + k
      /\ trades_today' + r <= MaxTrades + k
      /\ Len(orderAges') + r <= MaxPerMinute + k
  <2>1. k \in Int
    BY CapTypes
  <2> HIDE DEF q, r, k
  <2>2. entries_this_cycle' + r <= MaxEntries + k
    BY ONLY <1>2, <1>3, <1>4, <2>1, TypeOK, TypeOK', CountTypes, CountTypesNext, CapTypes
  <2>3. trades_today' + r <= MaxTrades + k
    BY ONLY <1>2, <1>3, <1>4, <2>1, TypeOK, TypeOK', CountTypes, CountTypesNext, CapTypes
  <2>4. Len(orderAges') + r <= MaxPerMinute + k
    BY ONLY <1>2, <1>3, <1>4, <2>1, TypeOK, TypeOK', CountTypes, CountTypesNext, CapTypes
  <2> QED
    BY ONLY <2>2, <2>3, <2>4
<1> QED
  BY <1>5 DEF Room

\* A cap that still has room takes what passes the gate, and all the others may be waiting.
LEMMA EnqueueRoom ==
  ASSUME TypeOK, NEW w \in Workers, ~Busy(w), NEW s \in Symbols, CountersAllow,
         Enqueue(w, "entry", s, 0), UNCHANGED countVars
  PROVE  Room'
<1>1. Queued \in SUBSET (Workers \ {w})
  BY DEF Queued, Busy, Idle
<1>2. Cardinality(Workers \ {w}) = Cardinality(Approvers) /\ IsFiniteSet(Workers \ {w})
  BY WorkerCount, FS_RemoveElement
<1>3. Cardinality(Queued) <= Cardinality(Approvers)
  BY <1>1, <1>2, FS_Subset
<1>4. Queued' = Queued \cup {w}
  BY DEF Enqueue, Queued, TypeOK
<1>5. Cardinality(Queued') = Cardinality(Queued) + 1
  BY <1>1, <1>4, QueuedCount, FS_AddElement
<1>6. Len(orderAges) \in Nat
  BY DEF TypeOK
<1> DEFINE q == Cardinality(Queued)
           r == Cardinality(Queued')
           k == Cardinality(Approvers)
<1>7. q \in Int /\ r = q + 1 /\ q <= k /\ k \in Int
  BY <1>3, <1>5, QueuedCount, CapTypes
<1>8. /\ entries_this_cycle' + r <= MaxEntries + k
      /\ trades_today' + r <= MaxTrades + k
      /\ Len(orderAges') + r <= MaxPerMinute + k
  <2>1. /\ entries_this_cycle' = entries_this_cycle /\ entries_this_cycle < MaxEntries
        /\ trades_today' = trades_today /\ trades_today < MaxTrades
        /\ Len(orderAges') = Len(orderAges) /\ Len(orderAges) < MaxPerMinute
    BY DEF CountersAllow, countVars
  <2> HIDE DEF q, r, k
  <2> QED
    BY <1>7, <2>1, CountTypes, CapTypes
<1> QED
  BY <1>8 DEF Room

LEMMA EnqueueCloseKeeps ==
  ASSUME TypeOK, NEW w \in Workers, ~Busy(w), NEW s \in Symbols, NEW qty \in Int,
         Enqueue(w, "close", s, qty)
  PROVE  Queued' \subseteq Queued
BY DEF Enqueue, Queued, TypeOK

LEMMA RoomStep == TypeOK /\ TypeOK' /\ Room /\ [Next]_vars => Room'
<1> SUFFICES ASSUME TypeOK, TypeOK', Room, [Next]_vars PROVE Room'
  OBVIOUS
<1>0. ASSUME UNCHANGED countVars, Queued' \subseteq Queued PROVE Room'
  <2>1. /\ entries_this_cycle' <= entries_this_cycle /\ trades_today' <= trades_today
        /\ Len(orderAges') <= Len(orderAges)
    BY <1>0 DEF countVars, TypeOK
  <2> QED
    BY <1>0, <2>1, RoomKept
<1>1. ASSUME UNCHANGED <<countVars, job>> PROVE Room'
  BY <1>0, <1>1 DEF Queued
<1>2. CASE StartCycle
  <2>1. entries_this_cycle' <= entries_this_cycle /\ Queued' = Queued
    BY <1>2 DEF StartCycle, Queued, TypeOK
  <2>2. trades_today' = trades_today /\ orderAges' = orderAges
    BY <1>2 DEF StartCycle
  <2>3. trades_today' <= trades_today /\ Len(orderAges') <= Len(orderAges)
    BY <2>2 DEF TypeOK
  <2> QED
    BY <2>1, <2>3, RoomKept
<1>3. CASE AccountArrives \/ Decide \/ EndCycle \/ TurnDown
  BY <1>1, <1>3 DEF AccountArrives, Decide, EndCycle, TurnDown, NextProposal
<1>4. ASSUME NextProposal
      PROVE  /\ Head(todo).sym \in Symbols /\ ~Busy(Cycle) /\ Cycle \in Workers
             /\ UNCHANGED countVars
  <2>1. Head(todo) \in Proposals
    BY <1>4, HeadTailProperties DEF NextProposal, TypeOK
  <2> QED
    BY <1>4, <2>1 DEF Proposals, NextProposal, Workers
<1>5. CASE ExecuteEntry
  <2>1. CASE AwaitApproval("entry", Head(todo).sym, 0)
    BY <1>1, <1>4, <1>5, <2>1 DEF ExecuteEntry, AwaitApproval
  <2>2. CASE Evaluate(Head(todo).sym, cycleAcct) /\ Enqueue(Cycle, "entry", Head(todo).sym, 0)
    BY <1>4, <1>5, <2>2, EnqueueRoom DEF ExecuteEntry, Evaluate
  <2> QED
    BY <1>5, <2>1, <2>2 DEF ExecuteEntry
<1>6. CASE HandleClose
  <2> DEFINE s == Head(todo).sym
  <2>1. CASE AwaitApproval("close", s, cycleAcct[s])
    BY <1>1, <1>4, <1>6, <2>1 DEF HandleClose, AwaitApproval
  <2>2. CASE Enqueue(Cycle, "close", s, cycleAcct[s])
    <3>1. cycleAcct[s] \in Int
      BY <1>4, <1>6 DEF HandleClose, TypeOK
    <3> QED
      BY <1>0, <1>4, <1>6, <2>2, <3>1, EnqueueCloseKeeps DEF HandleClose
  <2> QED
    BY <1>6, <2>1, <2>2 DEF HandleClose
<1>7. ASSUME NEW m \in {"auto", "manual"}, SetExecutionMode(m) PROVE Room'
  BY <1>1, <1>7 DEF SetExecutionMode
<1>8. ASSUME NEW w \in Approvers, NEW i \in 1..MaxPending, TakeOff(i)
      PROVE  /\ pending[i].sym \in Symbols /\ pending[i].qty \in Int /\ w \in Workers
             /\ UNCHANGED countVars
  <2>1. pending \in Seq(Approvals) /\ i \in 1..Len(pending)
    BY <1>8 DEF TakeOff, TypeOK, Approvals
  <2>2. pending[i] \in Approvals
    BY <2>1
  <2> QED
    BY <1>8, <2>2 DEF Approvals, TakeOff, Workers
<1>9. ASSUME NEW w \in Approvers, NEW i \in 1..MaxPending, ApproveEntry(w, i) PROVE Room'
  <2>1. TakeOff(i) /\ CountersAllow /\ ~Busy(w) /\ Enqueue(w, "entry", pending[i].sym, 0)
    BY <1>9 DEF ApproveEntry, Evaluate
  <2> QED
    BY <1>8, <2>1, EnqueueRoom
<1>10. ASSUME NEW w \in Approvers, NEW i \in 1..MaxPending, ApproveClose(w, i) PROVE Room'
  <2>1. TakeOff(i) /\ ~Busy(w) /\ Enqueue(w, "close", pending[i].sym, pending[i].qty)
    BY <1>10 DEF ApproveClose
  <2> QED
    BY <1>0, <1>8, <2>1, EnqueueCloseKeeps
<1>11. ASSUME NEW i \in 1..MaxPending, Reject(i) PROVE Room'
  BY <1>1, <1>11 DEF Reject, TakeOff
<1>12. ASSUME NEW w \in Workers, SendEntry(w) PROVE Room'
  <2>1. w \in Queued /\ Queued' = Queued \ {w}
    BY <1>12 DEF SendEntry, Queued, Idle, TypeOK
  <2>2. Cardinality(Queued') = Cardinality(Queued) - 1
    BY <2>1, QueuedCount, FS_RemoveElement
  <2>3. Len(orderAges) \in Nat /\ Len(orderAges') = Len(orderAges) + 1
    BY <1>12 DEF SendEntry, NoteEntry, TypeOK
  <2>4. trades_today' = trades_today + 1 /\ entries_this_cycle' = entries_this_cycle + 1
    BY <1>12 DEF SendEntry, NoteEntry
  <2> DEFINE q == Cardinality(Queued)
             r == Cardinality(Queued')
             k == Cardinality(Approvers)
  <2>5. q \in Int /\ r \in Int
    BY QueuedCount, QueuedCountNext
  <2>6. /\ entries_this_cycle' + r <= entries_this_cycle + q
        /\ trades_today' + r <= trades_today + q
        /\ Len(orderAges') + r <= Len(orderAges) + q
    <3>1. r = q - 1
      BY <2>2
    <3> HIDE DEF q, r
    <3> QED
      BY <2>3, <2>4, <2>5, <3>1, CountTypes
  <2>7. /\ entries_this_cycle + q <= MaxEntries + k
        /\ trades_today + q <= MaxTrades + k
        /\ Len(orderAges) + q <= MaxPerMinute + k
    BY DEF Room
  <2>8. /\ entries_this_cycle' + r <= MaxEntries + k
        /\ trades_today' + r <= MaxTrades + k
        /\ Len(orderAges') + r <= MaxPerMinute + k
    <3>1. k \in Int
      BY CapTypes
    <3> HIDE DEF q, r, k
    <3> QED
      BY <2>5, <2>6, <2>7, <3>1, CountTypes, CountTypesNext, CapTypes
  <2> QED
    BY <2>8 DEF Room
<1>13. ASSUME NEW w \in Workers, SendExit(w) \/ PlacementFails(w) PROVE Room'
  <2>1. Queued' \subseteq Queued /\ UNCHANGED countVars
    <3>1. job' = [job EXCEPT ![w] = Idle] /\ UNCHANGED countVars
      BY <1>13 DEF SendExit, PlacementFails
    <3> QED
      BY <3>1 DEF Queued, Idle, TypeOK
  <2> QED
    BY <1>0, <2>1
<1>14. ASSUME NEW s \in Symbols,
              EntryFills(s) \/ LegFires(s) \/ ExitFills(s) \/ ExpireStaleOrders(s)
       PROVE  Room'
  BY <1>1, <1>14 DEF EntryFills, LegFires, ExitFills, ExpireStaleOrders
<1>15. CASE ExpireStaleApprovals \/ SyncAccount
  BY <1>1, <1>15 DEF ExpireStaleApprovals, SyncAccount
<1>16. CASE Tick
  <2>1. Len(orderAges') <= Len(orderAges)
    BY <1>16, AgedType DEF Tick, TypeOK
  <2>2. /\ Queued' \subseteq Queued /\ entries_this_cycle' <= entries_this_cycle
        /\ trades_today' <= trades_today
    BY <1>16 DEF Tick, Queued, TypeOK
  <2> QED
    BY <2>1, <2>2, RoomKept
<1>17. CASE Restart
  <2>1. Queued' \subseteq Queued
    BY <1>17 DEF Restart, Queued, Idle
  <2>2. entries_this_cycle' <= entries_this_cycle /\ trades_today' <= trades_today
    BY <1>17 DEF Restart, TypeOK
  <2>3. Len(orderAges') <= Len(orderAges)
    BY <1>17 DEF Restart, TypeOK
  <2> QED
    BY <2>1, <2>2, <2>3, RoomKept
<1>18. CASE UNCHANGED vars
  BY <1>1, <1>18 DEF vars
<1> QED
  BY <1>2, <1>3, <1>5, <1>6, <1>7, <1>9, <1>10, <1>11, <1>12, <1>13, <1>14, <1>15, <1>16,
     <1>17, <1>18 DEF Next

LEMMA RoomBounds == TypeOK /\ Room => CapsBounded
<1> SUFFICES ASSUME TypeOK, Room PROVE CapsBounded
  OBVIOUS
<1>1. Len(orderAges) \in Nat
  BY DEF TypeOK
<1> QED
  <2>1. /\ entries_this_cycle \in Nat /\ trades_today \in Nat
        /\ Cardinality(Queued) \in Nat /\ Cardinality(Approvers) \in Nat
    BY QueuedCount, WorkerCount DEF TypeOK
  <2> QED
    BY ONLY <1>1, <2>1, CapAssumption, Room DEF Room, CapsBounded

\* For any limits and any number of dashboard requests at once, the entries of a cycle, the
\* trades and the orders of a minute that RiskEngine.submit lets through exceed their caps by
\* no more than the requests in flight; with nobody at the dashboard the caps are exact.
THEOREM CapsHold == Spec => []CapsBounded
<1>1. Init => TypeOK /\ Room
  BY TypeInit, RoomInit
<1>2. TypeOK /\ Room /\ [Next]_vars => (TypeOK /\ Room)'
  BY TypeStep, RoomStep
<1>3. TypeOK /\ Room => CapsBounded
  BY RoomBounds
<1> QED
  BY <1>1, <1>2, <1>3, PTL DEF Spec

-----------------------------------------------------------------------------
(* The cooldown.                                                           *)

\* The symbol of an entry that waits has cooled down, and stays so until it is sent.
Cool == \A w \in Workers : job[w].what = "entry" => sinceEntry[job[w].sym] = Cooldown

LEMMA CoolInit == Init => Cool
BY DEF Init, Cool, Idle

LEMMA EnqueueCool ==
  ASSUME TypeOK, Cool, NEW w \in Workers, NEW s \in Symbols, Cooled(s),
         Enqueue(w, "entry", s, 0), UNCHANGED countVars
  PROVE  Cool'
<1>1. sinceEntry[s] = Cooldown
  BY CapAssumption DEF Cooled, TypeOK
<1>2. \A v \in Workers : job'[v] = IF v = w THEN [what |-> "entry", sym |-> s, qty |-> 0] ELSE job[v]
  BY DEF Enqueue, TypeOK
<1> QED
  BY <1>1, <1>2 DEF Cool, countVars

LEMMA EnqueueCloseCool ==
  ASSUME TypeOK, Cool, NEW w \in Workers, NEW s \in Symbols, NEW qty \in Int,
         Enqueue(w, "close", s, qty), UNCHANGED countVars
  PROVE  Cool'
<1>1. \A v \in Workers : job'[v] = IF v = w THEN [what |-> "close", sym |-> s, qty |-> qty] ELSE job[v]
  BY DEF Enqueue, TypeOK
<1> QED
  BY <1>1 DEF Cool, countVars

LEMMA CoolStep == TypeOK /\ Exclusive /\ Cool /\ [Next]_vars => Cool'
<1> SUFFICES ASSUME TypeOK, Exclusive, Cool, [Next]_vars PROVE Cool'
  OBVIOUS
<1>1. ASSUME UNCHANGED <<sinceEntry, job>> PROVE Cool'
  BY <1>1 DEF Cool
<1>2. CASE StartCycle \/ AccountArrives \/ Decide \/ EndCycle \/ TurnDown
  BY <1>1, <1>2 DEF StartCycle, AccountArrives, Decide, EndCycle, TurnDown, NextProposal, countVars
<1>3. ASSUME NextProposal
      PROVE  Head(todo).sym \in Symbols /\ Cycle \in Workers /\ UNCHANGED countVars
  <2>1. Head(todo) \in Proposals
    BY <1>3, HeadTailProperties DEF NextProposal, TypeOK
  <2> QED
    BY <1>3, <2>1 DEF Proposals, NextProposal, Workers
<1>4. CASE ExecuteEntry
  <2>1. CASE AwaitApproval("entry", Head(todo).sym, 0)
    BY <1>1, <1>3, <1>4, <2>1 DEF ExecuteEntry, AwaitApproval, countVars
  <2>2. CASE Evaluate(Head(todo).sym, cycleAcct) /\ Enqueue(Cycle, "entry", Head(todo).sym, 0)
    BY <1>3, <1>4, <2>2, EnqueueCool DEF ExecuteEntry, Evaluate
  <2> QED
    BY <1>4, <2>1, <2>2 DEF ExecuteEntry
<1>5. CASE HandleClose
  <2> DEFINE s == Head(todo).sym
  <2>1. CASE AwaitApproval("close", s, cycleAcct[s])
    BY <1>1, <1>3, <1>5, <2>1 DEF HandleClose, AwaitApproval, countVars
  <2>2. CASE Enqueue(Cycle, "close", s, cycleAcct[s])
    <3>1. cycleAcct[s] \in Int
      BY <1>3, <1>5 DEF HandleClose, TypeOK
    <3> QED
      BY <1>3, <1>5, <2>2, <3>1, EnqueueCloseCool DEF HandleClose
  <2> QED
    BY <1>5, <2>1, <2>2 DEF HandleClose
<1>6. ASSUME NEW m \in {"auto", "manual"}, SetExecutionMode(m) PROVE Cool'
  BY <1>1, <1>6 DEF SetExecutionMode, countVars
<1>7. ASSUME NEW w \in Approvers, NEW i \in 1..MaxPending, TakeOff(i)
      PROVE  /\ pending[i].sym \in Symbols /\ pending[i].qty \in Int /\ w \in Workers
             /\ UNCHANGED countVars
  <2>1. pending \in Seq(Approvals) /\ i \in 1..Len(pending)
    BY <1>7 DEF TakeOff, TypeOK, Approvals
  <2>2. pending[i] \in Approvals
    BY <2>1
  <2> QED
    BY <1>7, <2>2 DEF Approvals, TakeOff, Workers
<1>8. ASSUME NEW w \in Approvers, NEW i \in 1..MaxPending, ApproveEntry(w, i) PROVE Cool'
  <2>1. TakeOff(i) /\ Cooled(pending[i].sym) /\ Enqueue(w, "entry", pending[i].sym, 0)
    BY <1>8 DEF ApproveEntry, Evaluate
  <2> QED
    BY <1>7, <2>1, EnqueueCool
<1>9. ASSUME NEW w \in Approvers, NEW i \in 1..MaxPending, ApproveClose(w, i) PROVE Cool'
  <2>1. TakeOff(i) /\ Enqueue(w, "close", pending[i].sym, pending[i].qty)
    BY <1>9 DEF ApproveClose
  <2> QED
    BY <1>7, <2>1, EnqueueCloseCool
<1>10. ASSUME NEW i \in 1..MaxPending, Reject(i) PROVE Cool'
  BY <1>1, <1>10 DEF Reject, TakeOff, countVars
\* Only the entry's own symbol starts to cool, and no other order of it waits.
<1>11. ASSUME NEW w \in Workers, SendEntry(w) PROVE Cool'
  <2>1. Busy(w) /\ job[w].sym \in Symbols
    BY <1>11, JobShape DEF SendEntry, TypeOK, Jobs
  <2>2. ASSUME NEW v \in Workers, job'[v].what = "entry"
        PROVE  job'[v] = job[v] /\ job[v].sym # job[w].sym /\ job[v].sym \in Symbols
    <3>1. v # w /\ job'[v] = job[v]
      BY <1>11, <2>2 DEF SendEntry, Idle, TypeOK
    <3>2. job[v].sym \in Symbols
      BY <2>2, <3>1, JobShape DEF TypeOK, Jobs
    <3> QED
      BY <2>1, <3>1, <3>2 DEF Exclusive
  <2>3. \A s \in Symbols : s # job[w].sym => sinceEntry'[s] = sinceEntry[s]
    BY <1>11 DEF SendEntry, NoteEntry, TypeOK
  <2> QED
    BY <2>2, <2>3 DEF Cool
<1>12. ASSUME NEW w \in Workers, SendExit(w) \/ PlacementFails(w) PROVE Cool'
  <2>1. job' = [job EXCEPT ![w] = Idle] /\ UNCHANGED countVars
    BY <1>12 DEF SendExit, PlacementFails
  <2> QED
    BY <2>1 DEF Cool, Idle, TypeOK, countVars
<1>13. ASSUME NEW s \in Symbols,
              EntryFills(s) \/ LegFires(s) \/ ExitFills(s) \/ ExpireStaleOrders(s)
       PROVE  Cool'
  BY <1>1, <1>13 DEF EntryFills, LegFires, ExitFills, ExpireStaleOrders, countVars
<1>14. CASE ExpireStaleApprovals \/ SyncAccount
  BY <1>1, <1>14 DEF ExpireStaleApprovals, SyncAccount, countVars
<1>15. CASE Tick
  <2>1. \A w \in Workers : job[w].what = "entry" => job[w].sym \in Symbols
    BY JobShape DEF TypeOK, Jobs
  <2>2. \A s \in Symbols : sinceEntry[s] = Cooldown => sinceEntry'[s] = Cooldown
    BY <1>15, CapAssumption DEF Tick, Older
  <2> QED
    BY <1>15, <2>1, <2>2 DEF Tick, Cool
<1>16. CASE Restart
  BY <1>16 DEF Restart, Cool, Idle
<1>17. CASE UNCHANGED vars
  BY <1>1, <1>17 DEF vars, countVars
<1> QED
  BY <1>2, <1>4, <1>5, <1>6, <1>8, <1>9, <1>10, <1>11, <1>12, <1>13, <1>14, <1>15, <1>16,
     <1>17 DEF Next

\* Only sending an entry adds one.
LEMMA CoolGuards ==
  TypeOK /\ Cool /\ [Next]_vars
    => \A s \in Symbols : entry'[s] > entry[s] => sinceEntry[s] >= Cooldown
<1> SUFFICES ASSUME TypeOK, Cool, [Next]_vars, NEW s \in Symbols, entry'[s] > entry[s]
             PROVE  sinceEntry[s] >= Cooldown
  OBVIOUS
<1>0. entry[s] \in Nat /\ entry' # entry
  BY DEF TypeOK
<1>1. ASSUME NEW w \in Workers, SendEntry(w) PROVE sinceEntry[s] >= Cooldown
  <2>1. s = job[w].sym
    BY <1>0, <1>1 DEF SendEntry, TypeOK
  <2> QED
    BY <1>1, <2>1, CapAssumption DEF Cool, SendEntry
<1>2. ASSUME NEW t \in Symbols, EntryFills(t) PROVE FALSE
  <2>1. entry'[s] = IF s = t THEN entry[s] - 1 ELSE entry[s]
    BY <1>2 DEF EntryFills, TypeOK
  <2> QED
    BY <1>0, <2>1
<1>3. ASSUME NEW t \in Symbols, ExpireStaleOrders(t) PROVE FALSE
  <2>1. entry' = [entry EXCEPT ![t] = @ - 1]
    BY <1>0, <1>3 DEF ExpireStaleOrders
  <2>2. entry'[s] = IF s = t THEN entry[s] - 1 ELSE entry[s]
    BY <2>1 DEF TypeOK
  <2> QED
    BY <1>0, <2>2
<1>4. CASE \/ StartCycle \/ AccountArrives \/ Decide \/ EndCycle \/ TurnDown \/ ExecuteEntry
           \/ HandleClose \/ ExpireStaleApprovals \/ SyncAccount \/ Tick \/ Restart
  BY <1>0, <1>4 DEF StartCycle, AccountArrives, Decide, EndCycle, TurnDown, ExecuteEntry,
     HandleClose, ExpireStaleApprovals, SyncAccount, Tick, Restart, NextProposal, brokerVars
<1>5. ASSUME NEW m \in {"auto", "manual"}, SetExecutionMode(m) PROVE FALSE
  BY <1>0, <1>5 DEF SetExecutionMode, brokerVars
<1>6. ASSUME NEW w \in Approvers, NEW i \in 1..MaxPending,
             ApproveEntry(w, i) \/ ApproveClose(w, i) \/ Reject(i)
      PROVE  FALSE
  BY <1>0, <1>6 DEF ApproveEntry, ApproveClose, Reject, TakeOff, brokerVars
<1>7. ASSUME NEW i \in 1..MaxPending, Reject(i) PROVE FALSE
  BY <1>0, <1>7 DEF Reject, TakeOff, brokerVars
<1>8. ASSUME NEW w \in Workers, SendExit(w) \/ PlacementFails(w) PROVE FALSE
  BY <1>0, <1>8 DEF SendExit, PlacementFails, brokerVars
<1>9. ASSUME NEW t \in Symbols, LegFires(t) \/ ExitFills(t) PROVE FALSE
  BY <1>0, <1>9 DEF LegFires, ExitFills
<1>10. CASE UNCHANGED vars
  BY <1>0, <1>10 DEF vars, brokerVars
<1> QED
  BY <1>1, <1>2, <1>3, <1>4, <1>5, <1>6, <1>7, <1>8, <1>9, <1>10 DEF Next

\* Check 21 holds to the moment of sending: within the life of a process no entry goes out
\* less than the cooldown after the last one of its symbol, although submit looks at the
\* clock before it waits for the pacer and note_entry sets it afterwards.
THEOREM CooldownHolds == Spec => CooldownKept
<1>1. Init => TypeOK /\ Exclusive /\ Cool
  BY TypeInit, ExclusiveInit, CoolInit
<1>2. TypeOK /\ Exclusive /\ Cool /\ [Next]_vars => (TypeOK /\ Exclusive /\ Cool)'
  BY TypeStep, ExclusiveStep, CoolStep
<1>3. TypeOK /\ Exclusive /\ Cool /\ [Next]_vars
        => [\A s \in Symbols : entry'[s] > entry[s] => sinceEntry[s] >= Cooldown]_vars
  BY CoolGuards
<1> QED
  BY <1>1, <1>2, <1>3, PTL DEF Spec, CooldownKept

-----------------------------------------------------------------------------
(* The person's mode.                                                      *)

\* The mode in force is the stored one: set_execution_mode writes both between two awaits,
\* and a new process begins with what is stored.
ModeStored == mode = savedMode

LEMMA ModeStep == ModeStored /\ [Next]_vars => ModeStored'
<1> SUFFICES ASSUME ModeStored, [Next]_vars PROVE ModeStored'
  OBVIOUS
<1>1. CASE UNCHANGED modeVars
  BY <1>1 DEF ModeStored, modeVars
<1>2. ASSUME NEW m \in {"auto", "manual"}, SetExecutionMode(m) PROVE ModeStored'
  BY <1>2 DEF SetExecutionMode, ModeStored
<1>3. CASE Restart
  BY <1>3 DEF Restart, RestoredMode, ModeStored
<1>4. UNCHANGED modeVars \/ (\E m \in {"auto", "manual"} : SetExecutionMode(m)) \/ Restart
  BY DEF Next, StartCycle, AccountArrives, Decide, EndCycle, TurnDown, ExecuteEntry, HandleClose,
     NextProposal, ApproveEntry, ApproveClose, Reject, TakeOff, SendEntry, SendExit,
     PlacementFails, EntryFills, LegFires, ExitFills, ExpireStaleOrders, ExpireStaleApprovals,
     SyncAccount, Tick, vars
<1> QED
  BY <1>1, <1>2, <1>3, <1>4

\* Only the cycle's own two ways of executing a proposal give it something to send.
LEMMA CycleQueuesInAuto ==
  ASSUME TypeOK, [Next]_vars, ~Busy(Cycle), Busy(Cycle)'
  PROVE  mode = "auto"
<1>1. job' # job /\ job[Cycle] = Idle /\ job'[Cycle] # Idle
  BY DEF Busy
<1>2. CASE ExecuteEntry \/ HandleClose
  BY <1>1, <1>2 DEF ExecuteEntry, HandleClose, AwaitApproval
<1>3. ASSUME NEW w \in Approvers, NEW i \in 1..MaxPending, ApproveEntry(w, i) \/ ApproveClose(w, i)
      PROVE  FALSE
  <2>1. \E j : job' = [job EXCEPT ![w] = j]
    BY <1>3 DEF ApproveEntry, ApproveClose, Enqueue
  <2>2. w # Cycle
    BY WorkerAssumption
  <2> QED
    BY <1>1, <2>1, <2>2 DEF TypeOK, Workers
<1>4. ASSUME NEW w \in Workers, SendEntry(w) \/ SendExit(w) \/ PlacementFails(w) PROVE FALSE
  <2>1. job' = [job EXCEPT ![w] = Idle]
    BY <1>4 DEF SendEntry, SendExit, PlacementFails
  <2> QED
    BY <1>1, <2>1 DEF TypeOK, Workers
<1>5. CASE Restart
  BY <1>1, <1>5 DEF Restart, Workers
<1>6. job' = job \/ ExecuteEntry \/ HandleClose \/ Restart
        \/ (\E w \in Approvers, i \in 1..MaxPending : ApproveEntry(w, i) \/ ApproveClose(w, i))
        \/ (\E w \in Workers : SendEntry(w) \/ SendExit(w) \/ PlacementFails(w))
  BY DEF Next, StartCycle, AccountArrives, Decide, EndCycle, TurnDown, SetExecutionMode, Reject,
     EntryFills, LegFires, ExitFills, ExpireStaleOrders, ExpireStaleApprovals, SyncAccount, Tick,
     vars
<1> QED
  BY <1>1, <1>2, <1>3, <1>4, <1>5, <1>6

\* While the stored mode is manual the cycle sends nothing of its own accord, across any
\* switching of modes by requests in flight and any number of restarts (_execute,
\* _handle_close, TradingEngine.__init__).
THEOREM ManualHoldsAlways == Spec => ManualHolds
<1>1. Init => TypeOK /\ ModeStored
  BY TypeInit DEF Init, ModeStored
<1>2. TypeOK /\ ModeStored /\ [Next]_vars => (TypeOK /\ ModeStored)'
  BY TypeStep, ModeStep
<1>3. TypeOK /\ ModeStored /\ [Next]_vars => [~Busy(Cycle) /\ Busy(Cycle)' => savedMode = "auto"]_vars
  BY CycleQueuesInAuto DEF ModeStored
<1> QED
  BY <1>1, <1>2, <1>3, PTL DEF Spec, ManualHolds
=============================================================================

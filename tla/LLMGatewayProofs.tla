-------------------------- MODULE LLMGatewayProofs --------------------------
(***************************************************************************)
(* For any tier, ladder, number of retries and number of proposals: the    *)
(* account's tier is respected, an entry of the cycle needs the valid word *)
(* of both the trader and the risk officer, and one that a person approves *)
(* the trader's.                                                           *)
(***************************************************************************)
EXTENDS LLMGateway, FiniteSetTheorems, TLAPS

Calls == [pc : {"idle", "strategy", "probe", "wait", "chat", "repair", "backoff", "done"},
          role : Roles, attempt : 0..MaxRetries,
          probe : Strategies \cup {0}, result : {"none", "yes", "no"}]

CallsTyped ==
  /\ call \in [Askers -> Calls]
  /\ strategy \in Strategies \cup {0} /\ row \in Strategies \cup {0}

LEMMA Bounds ==
  /\ Rungs \in Nat /\ Rungs >= 1 /\ MaxRetries \in Nat
  /\ MaxConcurrent \in Nat /\ MaxConcurrent >= 1
  /\ MaxSchemaFailures \in Nat /\ MaxSchemaFailures >= 1
  /\ MaxProposals \in Nat /\ MaxProposals >= 1
  /\ NotebookLimit \in Nat /\ KeepRecent \in Nat /\ KeepUnsummarized \in Nat
  /\ MaxRestarts \in Nat
  BY LLMAssumption

LEMMA BeginTyped ==
  /\ Idle \in Calls
  /\ [Idle EXCEPT !.pc = "strategy"] \in Calls
  /\ \A role \in Roles : Begin(role) \in Calls
<1>1. Idle \in Calls
  BY Bounds DEF Idle, Calls, Roles
<1>2. \A p \in {"strategy", "done"}, role \in Roles :
        [Idle EXCEPT !.pc = p, !.role = role] \in Calls
  BY <1>1 DEF Calls
<1>3. [Idle EXCEPT !.pc = "strategy"] \in Calls
  BY <1>1 DEF Calls
<1> QED
  BY <1>1, <1>2, <1>3 DEF Begin

\* A new question holds no slot and has no answer.
LEMMA BeginRests ==
  \A c \in {Idle} \cup {Begin(role) : role \in Roles} :
    c.pc \in {"idle", "strategy", "done"} /\ c.result = "none"
<1>1. Idle.pc = "idle" /\ Idle.result = "none"
  BY DEF Idle
<1>2. ASSUME NEW role \in Roles
      PROVE  Begin(role).pc \in {"strategy", "done"} /\ Begin(role).result = "none"
  <2>1. CASE deterministic_only
    BY <2>1 DEF Begin, Idle
  <2>2. CASE ~deterministic_only
    BY <2>2 DEF Begin, Idle
  <2> QED
    BY <2>1, <2>2
<1> QED
  BY <1>1, <1>2

LEMMA BeginRole == Idle.role = "startup" /\ \A role \in Roles : Begin(role).role = role
  BY DEF Idle, Begin

LEMMA CallsInit == Init => CallsTyped
  BY BeginTyped DEF Init, CallsTyped

LEMMA ResolvedTyped ==
  ASSUME NEW t \in Askers, NEW s \in Strategies \cup {0}, CallsTyped, Resolved(t, s)
  PROVE  /\ call' \in [Askers -> Calls] /\ strategy' \in Strategies \cup {0}
         /\ \A u \in Askers \ {t} : call'[u] = call[u]
<1>1. call[t] \in Calls
  BY DEF CallsTyped
<1>2. CASE call[t].role = "startup"
  BY <1>2, BeginTyped DEF Resolved, CallsTyped
<1>3. CASE call[t].role # "startup"
  <2>1. call' = [call EXCEPT ![t].pc = "wait", ![t].probe = 0] /\ strategy' = s
    BY <1>3 DEF Resolved
  <2>2. [call[t] EXCEPT !.pc = "wait", !.probe = 0] \in Calls
    BY <1>1 DEF Calls
  <2> QED
    BY <2>1, <2>2 DEF CallsTyped
<1> QED
  BY <1>2, <1>3

LEMMA ReturnsTyped ==
  ASSUME NEW t \in Askers, NEW result \in {"none", "yes", "no"}, CallsTyped, Returns(t, result)
  PROVE  call' \in [Askers -> Calls] /\ \A u \in Askers \ {t} : call'[u] = call[u]
<1>1. call[t] \in Calls /\ 0 \in 0..MaxRetries
  BY Bounds DEF CallsTyped
<1>2. [call[t] EXCEPT !.pc = "done", !.attempt = 0, !.result = result] \in Calls
  BY <1>1 DEF Calls
<1> QED
  BY <1>2 DEF Returns, CallsTyped

\* One step of a question leaves the other asker's call alone.
LEMMA AskedTyped ==
  ASSUME NEW t \in Askers, CallsTyped, Asked(t)
  PROVE  CallsTyped' /\ \A u \in Askers \ {t} : call'[u] = call[u]
<1> USE Bounds DEF CallsTyped
<1>1. call[t] \in Calls
  OBVIOUS
<1>2. CASE EnsureStrategy(t)
  <2>1. \/ \E s \in {strategy, row} : Resolved(t, s) /\ s # 0
        \/ /\ call' = [call EXCEPT ![t].pc = "probe", ![t].probe = 1]
           /\ strategy' = strategy
    BY <1>2 DEF EnsureStrategy
  <2>2. row' = row
    BY <1>2 DEF EnsureStrategy
  <2>3. 1 \in Strategies
    BY DEF Strategies
  <2>4. CASE \E s \in {strategy, row} : Resolved(t, s)
    BY <2>2, <2>4, ResolvedTyped
  <2>5. CASE call' = [call EXCEPT ![t].pc = "probe", ![t].probe = 1] /\ strategy' = strategy
    BY <1>1, <2>2, <2>3, <2>5 DEF Calls
  <2> QED
    BY <2>1, <2>4, <2>5
<1>3. CASE ProbeWorks(t)
  <2>1. Resolved(t, call[t].probe) /\ row' = call[t].probe
    BY <1>3 DEF ProbeWorks
  <2>2. call[t].probe \in Strategies \cup {0}
    BY <1>1 DEF Calls
  <2> QED
    BY <2>1, <2>2, ResolvedTyped
<1>4. CASE ProbeFails(t)
  BY <1>1, <1>4 DEF ProbeFails, TEXT_EXTRACT, Calls, Strategies, gateway
<1>5. CASE Acquire(t)
  BY <1>1, <1>5 DEF Acquire, Calls, gateway
<1>6. CASE Retry(t)
  BY <1>1, <1>6 DEF Retry, Calls, gateway
<1>7. CASE \E yesno \in {"yes", "no"} : AnswersValid(t, yesno)
  <2>1. PICK yesno \in {"yes", "no"} : AnswersValid(t, yesno)
    BY <1>7
  <2>2. Returns(t, yesno) /\ strategy' = strategy /\ row' = row
    BY <2>1 DEF AnswersValid
  <2> QED
    BY <2>2, ReturnsTyped
<1>8. CASE AnswersGarbage(t)
  <2>1. strategy' = strategy /\ row' = row
    BY <1>8 DEF AnswersGarbage
  <2>2. \/ Returns(t, "none") \/ call' = [call EXCEPT ![t].pc = "repair"]
    BY <1>8 DEF AnswersGarbage
  <2>3. [call[t] EXCEPT !.pc = "repair"] \in Calls
    BY <1>1 DEF Calls
  <2> QED
    BY <2>1, <2>2, <2>3, ReturnsTyped
<1>9. CASE QuotaExhausted(t)
  BY <1>9, ReturnsTyped DEF QuotaExhausted, gateway
<1>10. CASE AttemptFails(t)
  <2>1. strategy' = strategy /\ row' = row
    BY <1>10 DEF AttemptFails, gateway
  <2>2. CASE MayRetry(t)
    <3>1. call[t].attempt + 1 \in 0..MaxRetries
      BY <1>1, <2>2 DEF MayRetry, Calls
    <3>2. PICK a \in 0..MaxRetries :
            call' = [call EXCEPT ![t].pc = "backoff", ![t].attempt = a]
      BY <1>10, <2>2, <3>1 DEF AttemptFails, MayRetry
    <3>3. [call[t] EXCEPT !.pc = "backoff", !.attempt = a] \in Calls
      BY <1>1 DEF Calls
    <3> QED
      BY <2>1, <3>2, <3>3
  <2>3. CASE ~MayRetry(t)
    BY <1>10, <2>1, <2>3, ReturnsTyped DEF AttemptFails
  <2> QED
    BY <2>2, <2>3
<1> QED
  BY <1>2, <1>3, <1>4, <1>5, <1>6, <1>7, <1>8, <1>9, <1>10 DEF Asked

\* The steps of the loops: an asker comes to rest or begins a question.
Loops ==
  \/ \E t \in Askers : PlanSession(t) \/ PlanMade(t)
  \/ ReviewSession \/ SessionReviewed
  \/ Decide \/ Decided \/ Reviewed \/ Compacted

LEMMA LoopTyped ==
  ASSUME CallsTyped, Loops
  PROVE  /\ CallsTyped'
         /\ \E t \in Askers, c \in {Idle} \cup {Begin(role) : role \in Roles} :
              call' = [call EXCEPT ![t] = c]
<1> DEFINE Fresh == {Idle} \cup {Begin(role) : role \in Roles}
<1>1. \E t \in Askers, c \in Fresh : call' = [call EXCEPT ![t] = c]
  <2>1. CASE \E t \in Askers : PlanSession(t) \/ PlanMade(t)
    BY <2>1 DEF PlanSession, PlanMade, Asks, Rests, Roles
  <2>2. CASE ReviewSession \/ SessionReviewed \/ Decide \/ Compacted
    BY <2>2 DEF ReviewSession, SessionReviewed, Decide, Compacted, Asks, Rests, Roles, Askers
  <2>3. CASE Decided
    BY <2>3 DEF Decided, CycleOver, Asks, Rests, Roles, Askers
  <2>4. CASE Reviewed
    BY <2>4 DEF Reviewed, CycleOver, Asks, Rests, Roles, Askers
  <2> QED
    BY <2>1, <2>2, <2>3, <2>4 DEF Loops
<1>2. strategy' = strategy /\ row' = row
  BY DEF Loops, PlanSession, PlanMade, ReviewSession, SessionReviewed, Decide, Decided, Reviewed,
       Compacted, gateway
<1>3. Fresh \subseteq Calls
  BY BeginTyped
<1> QED
  BY <1>1, <1>2, <1>3 DEF CallsTyped

\* The steps of the dashboard, and of the list of ideas it works on.
Dashboard ==
  SetExecutionMode \/ \E idea \in pending : ApproveProposal(idea) \/ DropProposal(idea)

\* They leave the questions alone.
LEMMA DashboardApart ==
  ASSUME Dashboard
  PROVE  /\ UNCHANGED <<gateway, call, waiters, left, heard, restarts>>
         /\ pending' \subseteq pending
  BY DEF Dashboard, SetExecutionMode, ApproveProposal, DropProposal, Taken, cycle

LEMMA NextSplit ==
  ASSUME [Next]_vars
  PROVE  \/ (\E t \in Askers : Asked(t)) \/ Loops \/ Dashboard
         \/ RowExpires \/ Restart \/ UNCHANGED vars
  BY DEF Next, Loops, Dashboard

LEMMA CallsStep == CallsTyped /\ [Next]_vars => CallsTyped'
<1> SUFFICES ASSUME CallsTyped, [Next]_vars PROVE CallsTyped'
  OBVIOUS
<1>1. CASE \E t \in Askers : Asked(t)
  BY <1>1, AskedTyped
<1>2. CASE Loops
  BY <1>2, LoopTyped
<1>3. CASE Dashboard \/ RowExpires \/ UNCHANGED vars
  BY <1>3, DashboardApart DEF RowExpires, vars, gateway, CallsTyped
<1>4. CASE Restart
  BY <1>4, BeginTyped DEF Restart, CallsTyped
<1> QED
  BY <1>1, <1>2, <1>3, <1>4, NextSplit

-----------------------------------------------------------------------------
(* The slots of the semaphore. *)

SlotInv == CallsTyped /\ Cardinality(Holders) <= MaxConcurrent

LEMMA HoldersFinite == IsFiniteSet(Askers) /\ Holders \subseteq Askers /\ InFlight \subseteq Holders
<1>1. Askers = {"decision"} \cup {"schedule"}
  BY DEF Askers
<1>2. IsFiniteSet({"decision"}) /\ IsFiniteSet({"schedule"})
  BY FS_Singleton
<1> QED
  BY <1>1, <1>2, FS_Union DEF Holders, InFlight

LEMMA SlotInit == Init => SlotInv
<1> SUFFICES ASSUME Init PROVE Cardinality(Holders) <= MaxConcurrent
  BY CallsInit DEF SlotInv
<1>1. Holders = {}
  BY DEF Init, Holders, Idle
<1> QED
  BY <1>1, FS_EmptySet, Bounds

\* Only a call that is let in becomes a holder.
LEMMA SlotsFreed ==
  ASSUME CallsTyped, [Next]_vars, \A t \in Askers : ~Acquire(t)
  PROVE  Holders' \subseteq Holders
<1>1. CASE \E t \in Askers : Asked(t)
  <2>1. PICK t \in Askers : Asked(t)
    BY <1>1
  <2>2. /\ CallsTyped' /\ \A u \in Askers \ {t} : call'[u] = call[u]
    BY <2>1, AskedTyped
  <2>3. call'[t].pc \in {"chat", "repair", "backoff"} => call[t].pc \in {"chat", "repair", "backoff"}
    <3>1. CASE EnsureStrategy(t) \/ ProbeWorks(t) \/ ProbeFails(t)
      BY <3>1 DEF EnsureStrategy, ProbeWorks, ProbeFails, Resolved, Idle, CallsTyped, Calls
    <3>2. CASE Retry(t) \/ AnswersGarbage(t) \/ QuotaExhausted(t) \/ AttemptFails(t)
               \/ \E yesno \in {"yes", "no"} : AnswersValid(t, yesno)
      BY <3>2 DEF Retry, AnswersGarbage, QuotaExhausted, AttemptFails, AnswersValid, InFlight
    <3> QED
      BY <2>1, <3>1, <3>2 DEF Asked
  <2> QED
    BY <2>2, <2>3 DEF Holders
<1>2. CASE Loops
  <2>1. PICK t \in Askers, c \in {Idle} \cup {Begin(role) : role \in Roles} :
          call' = [call EXCEPT ![t] = c]
    BY <1>2, LoopTyped
  <2>2. c.pc \in {"idle", "strategy", "done"}
    BY BeginRests
  <2> QED
    BY <2>1, <2>2 DEF Holders, CallsTyped
<1>3. CASE Dashboard \/ RowExpires \/ UNCHANGED vars
  BY <1>3, DashboardApart DEF RowExpires, vars, Holders
<1>4. CASE Restart
  BY <1>4 DEF Restart, Holders, Idle
<1> QED
  BY <1>1, <1>2, <1>3, <1>4, NextSplit

LEMMA SlotStep == SlotInv /\ [Next]_vars => SlotInv'
<1> SUFFICES ASSUME SlotInv, [Next]_vars PROVE Cardinality(Holders') <= MaxConcurrent
  BY CallsStep DEF SlotInv
<1>1. IsFiniteSet(Holders) /\ Cardinality(Holders) \in Nat
  BY HoldersFinite, FS_Subset, FS_CardinalityType
<1>2. CASE \E t \in Askers : Acquire(t)
  <2>1. PICK t \in Askers : Acquire(t)
    BY <1>2
  <2>2. Cardinality(Holders) < MaxConcurrent /\ call' = [call EXCEPT ![t].pc = "chat"]
    BY <2>1 DEF Acquire
  <2>3. Holders' = Holders \cup {t}
    BY <2>2 DEF Holders, SlotInv, CallsTyped, Calls
  <2>4. Cardinality(Holders') \in {Cardinality(Holders), Cardinality(Holders) + 1}
    BY <1>1, <2>3, FS_AddElement
  <2> HIDE DEF Holders
  <2> QED
    BY <1>1, <2>2, <2>4, Bounds
<1>3. CASE \A t \in Askers : ~Acquire(t)
  <2>1. Holders' \subseteq Holders
    BY <1>3, SlotsFreed DEF SlotInv
  <2>2. Cardinality(Holders') <= Cardinality(Holders) /\ Cardinality(Holders') \in Nat
    BY <1>1, <2>1, FS_Subset, FS_CardinalityType
  <2> QED
    BY <1>1, <2>2, Bounds DEF SlotInv
<1> QED
  BY <1>2, <1>3

\* The questions in flight of all loops together never exceed the account's tier: a call
\* holds its slot from its first attempt to its last, the waits between included (the
\* semaphore around _complete_with_retry).
THEOREM TierRespectedAlways == Spec => []TierRespected
<1>1. SlotInv => TierRespected
  <2> SUFFICES ASSUME SlotInv PROVE Cardinality(InFlight) <= MaxConcurrent
    BY DEF TierRespected
  <2>1. IsFiniteSet(Holders) /\ Cardinality(Holders) \in Nat
    BY HoldersFinite, FS_Subset, FS_CardinalityType
  <2>2. Cardinality(InFlight) <= Cardinality(Holders) /\ Cardinality(InFlight) \in Nat
    BY <2>1, HoldersFinite, FS_Subset, FS_CardinalityType
  <2> QED
    BY <2>1, <2>2, Bounds DEF SlotInv
<1> QED
  BY <1>1, SlotInit, SlotStep, PTL DEF Spec

-----------------------------------------------------------------------------
(* Nobody enters unheard. *)

decision == call["decision"]

\* The history of valid answers covers what the cycle acts on: the risk officer is asked
\* after the trader's yes, and a yes that has been returned was heard.
WordsHeard ==
  /\ decision.role = "risk_officer" => "trader" \in heard
  /\ decision.result = "yes" /\ decision.role \in Voices => decision.role \in heard

\* An idea that waits was a trader's.
IdeasHeard == \A idea \in pending : "trader" \in idea

HeardInv == CallsTyped /\ entries_this_cycle \in Nat /\ WordsHeard /\ IdeasHeard

LEMMA HeardInit == Init => HeardInv
  BY CallsInit DEF Init, HeardInv, WordsHeard, IdeasHeard, decision, Askers, Voices, Idle

\* A step of a question keeps its role and what was heard, and a yes it returns is heard.
LEMMA AskedHeard ==
  ASSUME NEW t \in Askers, CallsTyped, Asked(t)
  PROVE  /\ call'[t].role = call[t].role
         /\ call'[t].result = "yes" =>
              call[t].result = "yes" \/ (call[t].role \in Voices => call[t].role \in heard')
         /\ heard \subseteq heard'
         /\ UNCHANGED <<left, entries_this_cycle, notebook, manual, restarts>>
<1> USE DEF CallsTyped, cycle
<1>1. call[t] \in Calls
  OBVIOUS
<1>2. CASE EnsureStrategy(t)
  BY <1>1, <1>2 DEF EnsureStrategy, Resolved, Calls, Idle
<1>3. CASE ProbeWorks(t) \/ ProbeFails(t)
  BY <1>1, <1>3 DEF ProbeWorks, ProbeFails, Resolved, Calls, Idle
<1>4. CASE Acquire(t) \/ Retry(t) \/ AnswersGarbage(t) \/ QuotaExhausted(t) \/ AttemptFails(t)
  BY <1>1, <1>4 DEF Acquire, Retry, AnswersGarbage, QuotaExhausted, AttemptFails, Returns, Calls
<1>5. CASE \E yesno \in {"yes", "no"} : AnswersValid(t, yesno)
  <2>1. PICK yesno \in {"yes", "no"} : AnswersValid(t, yesno)
    BY <1>5
  <2>2. /\ call' = [call EXCEPT ![t].pc = "done", ![t].attempt = 0, ![t].result = yesno]
        /\ heard' = IF yesno = "yes" THEN heard \cup ({call[t].role} \cap Voices) ELSE heard
        /\ UNCHANGED <<cycle, manual, restarts>>
    BY <2>1 DEF AnswersValid, Returns
  <2> QED
    BY <1>1, <2>2 DEF Calls
<1> QED
  BY <1>2, <1>3, <1>4, <1>5 DEF Asked

LEMMA HeardStep == HeardInv /\ [Next]_vars => HeardInv'
<1> SUFFICES ASSUME HeardInv, [Next]_vars
             PROVE  entries_this_cycle' \in Nat /\ WordsHeard' /\ IdeasHeard'
  BY CallsStep DEF HeardInv
<1> USE DEF HeardInv, IdeasHeard
<1>1. CASE \E t \in Askers : Asked(t)
  <2>1. PICK t \in Askers : Asked(t)
    BY <1>1
  <2>2. /\ \A u \in Askers \ {t} : call'[u] = call[u]
        /\ heard \subseteq heard' /\ entries_this_cycle' = entries_this_cycle
        /\ pending' = pending
    BY <2>1, AskedTyped, AskedHeard DEF manual
  <2>3. CASE t = "decision"
    BY <2>1, <2>2, <2>3, AskedHeard DEF WordsHeard, decision
  <2>4. CASE t # "decision"
    BY <2>2, <2>4 DEF WordsHeard, decision, Askers
  <2> QED
    BY <2>2, <2>3, <2>4
<1>2. CASE (\E t \in Askers : PlanSession(t) \/ PlanMade(t)) \/ ReviewSession \/ SessionReviewed
           \/ Compacted
  <2>1. /\ heard' = heard /\ entries_this_cycle' = entries_this_cycle /\ pending' = pending
        /\ \E t \in Askers, c \in {Idle, Begin("strategist"), Begin("reviewer")} :
             call' = [call EXCEPT ![t] = c]
    BY <1>2 DEF PlanSession, PlanMade, ReviewSession, SessionReviewed, Compacted, Asks, Rests,
         cycle, manual, Askers
  <2>2. \A c \in {Idle, Begin("strategist"), Begin("reviewer")} : c.role \notin Voices
    BY BeginRole DEF Voices, Roles
  <2> QED
    BY <2>1, <2>2 DEF WordsHeard, decision, Voices, Askers, CallsTyped
<1>3. CASE Decide
  <2>1. call'["decision"] = Begin("trader") /\ entries_this_cycle' = 0 /\ pending' = pending
    BY <1>3 DEF Decide, Asks, CallsTyped, Askers, manual
  <2> QED
    BY <2>1, BeginRole, BeginRests DEF WordsHeard, decision, Roles
<1>4. CASE Decided \/ Reviewed
  <2>1. \E c \in {Idle, Begin("risk_officer"), Begin("compaction")} :
          call' = [call EXCEPT !["decision"] = c]
    BY <1>4 DEF Decided, Reviewed, CycleOver, Asks, Rests
  <2>2. \/ decision'.role = "risk_officer" /\ decision'.result = "none"
        \/ decision'.role \notin Voices
    BY <2>1, BeginRole, BeginRests DEF decision, CallsTyped, Askers, Roles, Voices
  <2>3. entries_this_cycle' \in Nat
    BY <1>4 DEF Decided, Reviewed, Submitted
  <2>4. CASE Decided
    <3>1. decision.role = "trader" /\ heard' = heard /\ pending' = pending
      BY <2>4 DEF Decided, Answered, decision, manual
    <3>2. decision'.role = "risk_officer" => decision.result = "yes"
      <4>1. SUFFICES ASSUME decision.result # "yes" PROVE decision'.role # "risk_officer"
        OBVIOUS
      <4>2. \E c \in {Idle, Begin("compaction")} : call' = [call EXCEPT !["decision"] = c]
        BY <2>4, <4>1 DEF Decided, CycleOver, Asks, Rests, decision
      <4> QED
        BY <4>2, BeginRole DEF decision, CallsTyped, Askers, Roles
    <3> QED
      BY <2>2, <2>3, <3>1, <3>2 DEF WordsHeard, Voices
  <2>5. CASE Reviewed
    <3>1. /\ decision.role = "risk_officer"
          /\ pending' \in {pending, pending \cup {heard \ {"risk_officer"}}}
      BY <2>5 DEF Reviewed, Answered, decision
    <3>2. "trader" \in heard
      BY <3>1 DEF WordsHeard
    <3>3. IdeasHeard'
      BY <3>1, <3>2
    <3>4. CASE MoreToReview
      <4>1. heard' = heard \ {"risk_officer"}
        BY <2>5, <3>4 DEF Reviewed
      <4> QED
        BY <2>2, <2>3, <3>2, <3>3, <4>1 DEF WordsHeard, Voices
    <3>5. CASE ~MoreToReview
      <4>1. \E c \in {Idle, Begin("compaction")} : decision' = c
        BY <2>5, <3>5 DEF Reviewed, CycleOver, Asks, Rests, CallsTyped, Askers, decision
      <4>2. decision'.role \notin Voices
        BY <4>1, BeginRole DEF Roles, Voices
      <4> QED
        BY <2>3, <3>3, <4>2 DEF WordsHeard, Voices
    <3> QED
      BY <3>4, <3>5
  <2> QED
    BY <1>4, <2>4, <2>5
<1>5. CASE RowExpires \/ UNCHANGED vars
  BY <1>5 DEF RowExpires, vars, cycle, manual, WordsHeard, decision
<1>6. CASE Restart
  BY <1>6 DEF Restart, WordsHeard, decision, Idle, Voices, Askers
<1>7. CASE Dashboard
  <2>1. call' = call /\ heard' = heard /\ pending' \subseteq pending
    BY <1>7, DashboardApart
  <2>2. entries_this_cycle' \in Nat
    BY <1>7 DEF Dashboard, SetExecutionMode, ApproveProposal, DropProposal, Submitted, cycle
  <2> QED
    BY <2>1, <2>2 DEF WordsHeard, decision
<1> QED
  BY <1>1, <1>2, <1>3, <1>4, <1>5, <1>6, <1>7, NextSplit DEF Loops

\* The cycle enters nothing without the trader's valid decision and the risk officer's valid
\* approval of this proposal, whatever timed out or was garbage before and whenever the mode
\* is switched (the safe defaults of decide and review, and the reset of both words); and
\* what a person approves was proposed by a trader's valid decision (approve_proposal).
THEOREM FailsClosedAlways == Spec => FailsClosed
<1> DEFINE Both == Voices \subseteq heard
           Approved == left' = left /\ \E idea \in pending : "trader" \in idea
<1>1. HeardInv /\ [Next]_vars =>
        [entries_this_cycle' > entries_this_cycle => Both \/ Approved]_vars
  <2> SUFFICES ASSUME HeardInv, [Next]_vars, entries_this_cycle' > entries_this_cycle
               PROVE  Both \/ Approved
    OBVIOUS
  <2>1. entries_this_cycle \in Nat
    BY DEF HeardInv
  <2>2. CASE Reviewed
    <3>1. decision.role = "risk_officer" /\ decision.result = "yes"
      BY <2>1, <2>2 DEF Reviewed, Answered, Approves, decision
    <3> QED
      BY <3>1 DEF HeardInv, WordsHeard, Voices
  <2>3. CASE Dashboard
    <3>1. left' = left
      BY <2>3, DashboardApart
    <3>2. ~SetExecutionMode
      BY <2>1 DEF SetExecutionMode, cycle
    <3>3. \E idea \in pending : TRUE
      BY <2>3, <3>2 DEF Dashboard
    <3> QED
      BY <3>1, <3>3 DEF HeardInv, IdeasHeard
  <2>4. CASE ~Reviewed /\ ~Dashboard
    <3>1. entries_this_cycle' = entries_this_cycle \/ entries_this_cycle' = 0
      <4>1. CASE \E t \in Askers : Asked(t)
        BY <4>1, AskedHeard DEF HeardInv
      <4>2. CASE Loops
        BY <2>4, <4>2 DEF Loops, PlanSession, PlanMade, ReviewSession, SessionReviewed, Decide,
             Decided, Compacted, cycle
      <4>3. CASE RowExpires \/ Restart \/ UNCHANGED vars
        BY <4>3 DEF RowExpires, Restart, vars, cycle
      <4> QED
        BY <2>4, <4>1, <4>2, <4>3, NextSplit
    <3> QED
      BY <2>1, <3>1
  <2> QED
    BY <2>2, <2>3, <2>4
<1> QED
  BY <1>1, HeardInit, HeardStep, PTL DEF Spec, FailsClosed

-----------------------------------------------------------------------------
(* Types. *)

\* The semaphore's queue holds each waiting call once.
QueueInv ==
  /\ waiters \in Seq(Askers)
  /\ \A k \in DOMAIN waiters : call[waiters[k]].pc = "wait"
  /\ \A j, k \in DOMAIN waiters : waiters[j] = waiters[k] => j = k

\* While the risk officer is asked there is a proposal to review.
BudgetInv ==
  /\ left \in 0..MaxProposals /\ entries_this_cycle \in 0..MaxProposals
  /\ decision.role = "risk_officer" => left >= 1

Notes == notebook \in Nat /\ heard \subseteq Voices /\ restarts \in 0..MaxRestarts

\* The mode, and the ideas that wait.
Waiting == mode \in {"auto", "manual"} /\ pending \subseteq SUBSET Voices

Health == fresh \in BOOLEAN /\ deterministic_only \in BOOLEAN
Failures == schema_failures \in 0..MaxSchemaFailures

LLMInv == CallsTyped /\ QueueInv /\ BudgetInv /\ Notes /\ Waiting /\ Health /\ Failures

LEMMA QueueStep == CallsTyped /\ QueueInv /\ [Next]_vars => QueueInv'
<1> SUFFICES ASSUME CallsTyped, QueueInv, [Next]_vars PROVE QueueInv'
  OBVIOUS
<1> USE DEF CallsTyped
<1> DEFINE Others(t) == \A u \in Askers \ {t} : call'[u] = call[u]
<1>1. ASSUME NEW t \in Askers, waiters' = waiters, call[t].pc # "wait", Others(t)
      PROVE  QueueInv'
  <2>1. \A k \in DOMAIN waiters : waiters[k] \in Askers \ {t}
    BY <1>1 DEF QueueInv
  <2> QED
    BY <1>1, <2>1 DEF QueueInv
<1>2. ASSUME NEW t \in Askers, NEW s, Resolved(t, s), call[t].pc # "wait"
      PROVE  QueueInv'
  <2>1. CASE call[t].role = "startup"
    BY <1>1, <1>2, <2>1 DEF Resolved
  <2>2. CASE call[t].role # "startup"
    <3>1. waiters' = Append(waiters, t) /\ call' = [call EXCEPT ![t].pc = "wait"]
      BY <1>2, <2>2 DEF Resolved
    <3>2. \A k \in DOMAIN waiters : waiters[k] \in Askers \ {t}
      BY <1>2 DEF QueueInv
    <3>3. /\ waiters' \in Seq(Askers) /\ DOMAIN waiters' = DOMAIN waiters \cup {Len(waiters) + 1}
          /\ \A k \in DOMAIN waiters : waiters'[k] = waiters[k]
          /\ waiters'[Len(waiters) + 1] = t
      BY <3>1 DEF QueueInv
    <3>4. call'[t].pc = "wait" /\ Others(t)
      BY <3>1 DEF Calls
    <3> QED
      BY <3>2, <3>3, <3>4 DEF QueueInv
  <2> QED
    BY <2>1, <2>2
<1>3. CASE \E t \in Askers : Asked(t)
  <2>1. PICK t \in Askers : Asked(t)
    BY <1>3
  <2>2. Others(t)
    BY <2>1, AskedTyped
  <2>3. CASE EnsureStrategy(t)
    BY <1>1, <1>2, <2>2, <2>3 DEF EnsureStrategy
  <2>4. CASE ProbeWorks(t)
    BY <1>2, <2>4 DEF ProbeWorks
  <2>5. CASE Acquire(t)
    <3>1. waiters # <<>> /\ Head(waiters) = t /\ waiters' = Tail(waiters)
      BY <2>5 DEF Acquire
    <3>2. /\ waiters' \in Seq(Askers)
          /\ \A k \in DOMAIN waiters' : k + 1 \in DOMAIN waiters /\ waiters'[k] = waiters[k + 1]
                                       /\ k \in Nat /\ k # 0
      BY <3>1 DEF QueueInv
    <3>3. 1 \in DOMAIN waiters /\ waiters[1] = t
      BY <3>1 DEF QueueInv
    <3>4. \A k \in DOMAIN waiters' : waiters'[k] # t
      BY <3>2, <3>3 DEF QueueInv
    <3>5. \A k \in DOMAIN waiters' : waiters'[k] \in Askers \ {t} /\ call[waiters'[k]].pc = "wait"
      BY <3>2, <3>4 DEF QueueInv
    <3>6. \A j, k \in DOMAIN waiters' : waiters'[j] = waiters'[k] => j = k
      BY <3>2 DEF QueueInv
    <3> QED
      BY <2>2, <3>2, <3>5, <3>6 DEF QueueInv
  <2>6. CASE ProbeFails(t) \/ Retry(t) \/ AnswersGarbage(t) \/ QuotaExhausted(t) \/ AttemptFails(t)
             \/ \E yesno \in {"yes", "no"} : AnswersValid(t, yesno)
    <3>1. waiters' = waiters /\ call[t].pc # "wait"
      BY <2>6 DEF ProbeFails, Retry, AnswersGarbage, QuotaExhausted, AttemptFails, AnswersValid,
           InFlight
    <3> QED
      BY <1>1, <2>2, <3>1
  <2> QED
    BY <2>1, <2>3, <2>4, <2>5, <2>6 DEF Asked
<1>4. CASE Loops
  <2>1. waiters' = waiters
    BY <1>4 DEF Loops, PlanSession, PlanMade, ReviewSession, SessionReviewed, Decide, Decided,
         Reviewed, Compacted
  <2>2. \E t \in Askers : call[t].pc # "wait" /\ Others(t)
    <3>1. CASE \E t \in Askers : PlanSession(t) \/ PlanMade(t)
      BY <3>1 DEF PlanSession, PlanMade, Asks, Rests, Answered
    <3>2. CASE ReviewSession \/ SessionReviewed
      BY <3>2 DEF ReviewSession, SessionReviewed, Asks, Rests, Answered, Askers
    <3>3. CASE Decide \/ Decided \/ Reviewed \/ Compacted
      <4>1. call["decision"].pc # "wait"
        BY <3>3 DEF Decide, Decided, Reviewed, Compacted, Answered
      <4>2. \E c : call' = [call EXCEPT !["decision"] = c]
        BY <3>3 DEF Decide, Decided, Reviewed, Compacted, CycleOver, Asks, Rests
      <4> QED
        BY <4>1, <4>2 DEF Askers
    <3> QED
      BY <1>4, <3>1, <3>2, <3>3 DEF Loops
  <2> QED
    BY <1>1, <2>1, <2>2
<1>5. CASE Dashboard \/ RowExpires \/ UNCHANGED vars
  BY <1>5, DashboardApart DEF RowExpires, vars, QueueInv
<1>6. CASE Restart
  BY <1>6 DEF Restart, QueueInv
<1> QED
  BY <1>3, <1>4, <1>5, <1>6, NextSplit

LEMMA BudgetStep == CallsTyped /\ BudgetInv /\ [Next]_vars => BudgetInv'
<1> SUFFICES ASSUME CallsTyped, BudgetInv, [Next]_vars PROVE BudgetInv'
  OBVIOUS
<1> USE Bounds DEF BudgetInv
<1>1. CASE \E t \in Askers : Asked(t)
  <2>1. PICK t \in Askers : Asked(t)
    BY <1>1
  <2>2. /\ \A u \in Askers \ {t} : call'[u] = call[u]
        /\ call'[t].role = call[t].role
        /\ left' = left /\ entries_this_cycle' = entries_this_cycle
    BY <2>1, AskedTyped, AskedHeard
  <2>3. decision'.role = decision.role
    BY <2>2 DEF decision, Askers
  <2> QED
    BY <2>2, <2>3
<1>2. CASE (\E t \in Askers : PlanSession(t) \/ PlanMade(t)) \/ ReviewSession \/ SessionReviewed
           \/ Compacted
  <2>1. /\ left' = left /\ entries_this_cycle' = entries_this_cycle
        /\ \E t \in Askers, c \in {Idle, Begin("strategist"), Begin("reviewer")} :
             call' = [call EXCEPT ![t] = c]
    BY <1>2 DEF PlanSession, PlanMade, ReviewSession, SessionReviewed, Compacted, Asks, Rests,
         cycle, Askers
  <2>2. \A c \in {Idle, Begin("strategist"), Begin("reviewer")} : c.role \notin Voices
    BY BeginRole DEF Voices, Roles
  <2>3. decision'.role = decision.role \/ decision'.role \notin Voices
    BY <2>1, <2>2 DEF decision, Askers, CallsTyped
  <2> QED
    BY <2>1, <2>3 DEF Voices
<1>3. CASE Decide
  <2>1. call'["decision"] = Begin("trader") /\ entries_this_cycle' = 0 /\ left' = left
    BY <1>3 DEF Decide, Asks, CallsTyped, Askers
  <2> QED
    BY <2>1, BeginRole DEF decision, Roles
<1>4. CASE Decided
  <2>1. entries_this_cycle' = entries_this_cycle
    BY <1>4 DEF Decided
  <2>2. CASE call["decision"].result = "yes"
    <3>1. left' \in 1..MaxProposals
      BY <1>4, <2>2 DEF Decided
    <3> QED
      BY <2>1, <3>1
  <2>3. CASE call["decision"].result # "yes"
    <3>1. left' = 0 /\ \E c \in {Idle, Begin("compaction")} : decision' = c
      BY <1>4, <2>3 DEF Decided, CycleOver, Asks, Rests, CallsTyped, Askers, decision
    <3>2. decision'.role \in {"startup", "compaction"}
      BY <3>1, BeginRole DEF Roles
    <3> QED
      BY <2>1, <3>1, <3>2
  <2> QED
    BY <2>2, <2>3
<1>5. CASE Reviewed
  <2>1. decision.role = "risk_officer" /\ left' = left - 1
    BY <1>5 DEF Reviewed, Answered, decision
  <2>2. entries_this_cycle' \in 0..MaxProposals
    BY <1>5 DEF Reviewed, Submitted
  <2>3. left \in Nat /\ left >= 1 /\ left' \in 0..MaxProposals
    BY <2>1
  <2>4. CASE left > 1
    BY <2>1, <2>2, <2>3, <2>4
  <2>5. CASE ~(left > 1)
    <3>1. \E c \in {Idle, Begin("compaction")} : decision' = c
      BY <1>5, <2>5 DEF Reviewed, MoreToReview, CycleOver, Asks, Rests, CallsTyped, Askers, decision
    <3>2. decision'.role \in {"startup", "compaction"}
      BY <3>1, BeginRole DEF Roles
    <3> QED
      BY <2>2, <2>3, <3>2
  <2> QED
    BY <2>4, <2>5
<1>6. CASE RowExpires \/ UNCHANGED vars
  BY <1>6 DEF RowExpires, vars, cycle, decision
<1>7. CASE Restart
  BY <1>7 DEF Restart, decision, Idle, Askers
<1>8. CASE Dashboard
  <2>1. call' = call /\ left' = left
    BY <1>8, DashboardApart
  <2>2. entries_this_cycle' \in 0..MaxProposals
    BY <1>8 DEF Dashboard, SetExecutionMode, ApproveProposal, DropProposal, Submitted, cycle
  <2> QED
    BY <2>1, <2>2 DEF decision
<1> QED
  BY <1>1, <1>2, <1>3, <1>4, <1>5, <1>6, <1>7, <1>8, NextSplit DEF Loops

LEMMA NotesStep == CallsTyped /\ Notes /\ [Next]_vars => Notes'
<1> SUFFICES ASSUME CallsTyped, Notes, [Next]_vars PROVE Notes'
  OBVIOUS
<1> USE Bounds DEF Notes
<1>1. CASE \E t \in Askers : Asked(t)
  <2>1. PICK t \in Askers : Asked(t)
    BY <1>1
  <2>2. notebook' = notebook /\ restarts' = restarts
    BY <2>1, AskedHeard
  <2>3. heard' \subseteq heard \cup Voices
    BY <2>1 DEF Asked, EnsureStrategy, ProbeWorks, ProbeFails, Acquire, Retry, AnswersValid,
         AnswersGarbage, QuotaExhausted, AttemptFails
  <2> QED
    BY <2>2, <2>3
<1>2. CASE Loops
  <2>1. heard' \subseteq heard /\ restarts' = restarts
    BY <1>2 DEF Loops, PlanSession, PlanMade, ReviewSession, SessionReviewed, Decide, Decided,
         Reviewed, Compacted
  <2>2. notebook' \in Nat
    <3>1. CASE Compacted
      <4>1. PICK keep \in {KeepRecent, KeepUnsummarized} :
              notebook' = 1 + (IF notebook < keep THEN notebook ELSE keep)
        BY <3>1 DEF Compacted, Keep
      <4> QED
        BY <4>1
    <3>2. CASE ~Compacted
      BY <1>2, <3>2 DEF Loops, PlanSession, PlanMade, Noted, ReviewSession, SessionReviewed,
           Decide, Decided, Reviewed, cycle
    <3> QED
      BY <3>1, <3>2
  <2> QED
    BY <2>1, <2>2
<1>3. CASE RowExpires \/ Restart \/ UNCHANGED vars
  BY <1>3 DEF RowExpires, Restart, vars, cycle
<1>4. CASE Dashboard
  <2>1. heard' = heard /\ restarts' = restarts
    BY <1>4, DashboardApart
  <2>2. notebook' \in {notebook, Noted}
    BY <1>4 DEF Dashboard, SetExecutionMode, ApproveProposal, DropProposal, cycle
  <2> QED
    BY <2>1, <2>2 DEF Noted
<1> QED
  BY <1>1, <1>2, <1>3, <1>4, NextSplit

LEMMA WaitingStep == Notes /\ Waiting /\ [Next]_vars => Waiting'
<1> SUFFICES ASSUME Notes, Waiting, [Next]_vars PROVE Waiting'
  OBVIOUS
<1> USE DEF Waiting
<1>1. CASE (\E t \in Askers : Asked(t)) \/ RowExpires \/ UNCHANGED vars
  <2>1. UNCHANGED manual
    BY <1>1 DEF Asked, EnsureStrategy, ProbeWorks, ProbeFails, Acquire, Retry, AnswersValid,
       AnswersGarbage, QuotaExhausted, AttemptFails, RowExpires, vars
  <2> QED
    BY <2>1 DEF manual
<1>2. CASE Loops
  <2>1. mode' = mode /\ pending' \in {pending, pending \cup {heard \ {"risk_officer"}}}
    BY <1>2 DEF Loops, PlanSession, PlanMade, ReviewSession, SessionReviewed, Decide, Decided,
         Reviewed, Compacted, manual
  <2> QED
    BY <2>1 DEF Notes
<1>3. CASE Dashboard
  <2>1. pending' \subseteq pending
    BY <1>3, DashboardApart
  <2>2. mode' \in {"auto", "manual"}
    BY <1>3 DEF Dashboard, SetExecutionMode, ApproveProposal, DropProposal
  <2> QED
    BY <2>1, <2>2
<1>4. CASE Restart
  BY <1>4 DEF Restart
<1> QED
  BY <1>1, <1>2, <1>3, <1>4, NextSplit

LEMMA HealthStep == Health /\ Failures /\ [Next]_vars => Health' /\ Failures'
<1> SUFFICES ASSUME Health, Failures, [Next]_vars PROVE Health' /\ Failures'
  OBVIOUS
<1>1. Failures'
  <2>1. schema_failures' \in {schema_failures, 0}
          \/ (schema_failures < MaxSchemaFailures /\ schema_failures' = schema_failures + 1)
    BY DEF Next, Asked, EnsureStrategy, ProbeWorks, ProbeFails, Acquire, Retry, AnswersValid,
       AnswersGarbage, QuotaExhausted, AttemptFails, PlanSession, PlanMade, ReviewSession,
       SessionReviewed, Decide, Decided, Reviewed, Compacted, RowExpires, Restart,
       SetExecutionMode,
       ApproveProposal, DropProposal, gateway, vars
  <2> QED
    BY <2>1, Bounds DEF Failures
<1>2. Health'
  BY ZenonT(60) DEF Next, Asked, EnsureStrategy, ProbeWorks, ProbeFails, Acquire, Retry,
     AnswersValid, AnswersGarbage, QuotaExhausted, AttemptFails, PlanSession, PlanMade,
     ReviewSession, SessionReviewed, Decide, Decided, Reviewed, Compacted, RowExpires, Restart,
     SetExecutionMode, ApproveProposal, DropProposal, gateway, vars, Health
<1> QED
  BY <1>1, <1>2

LEMMA LLMInit == Init => LLMInv
<1> SUFFICES ASSUME Init PROVE QueueInv /\ BudgetInv /\ Notes /\ Waiting /\ Health /\ Failures
  BY CallsInit DEF LLMInv
<1>1. QueueInv
  BY DEF Init, QueueInv
<1>2. decision.role = "startup"
  BY DEF Init, decision, Askers, Idle
<1>3. BudgetInv /\ Notes /\ Waiting /\ Failures
  BY <1>2, Bounds DEF Init, BudgetInv, Notes, Waiting, Failures
<1>4. Health
  BY Zenon DEF Init, Health
<1> QED
  BY <1>1, <1>3, <1>4

LEMMA LLMStep == LLMInv /\ [Next]_vars => LLMInv'
  BY CallsStep, QueueStep, BudgetStep, NotesStep, WaitingStep, HealthStep DEF LLMInv

\* Every variable keeps its type: what the semaphore queues waits, each call once, and the
\* risk officer is asked no more often than there are proposals (complete, DecisionCycle).
THEOREM TypeCorrect == Spec => []TypeOK
<1>1. LLMInv => TypeOK
  BY DEF LLMInv, CallsTyped, Calls, QueueInv, BudgetInv, Notes, Waiting, Health, Failures,
       TypeOK
<1> QED
  BY <1>1, LLMInit, LLMStep, PTL DEF Spec

-----------------------------------------------------------------------------
(* The notebook. *)

\* What the loop does with an answer, when it is done with asking: only a plan is noted
\* without a look at the length.
LEMMA RestsOnlyShort ==
  ASSUME LLMInv, Next, decision.pc = "done", decision'.pc = "idle", decision.role # "strategist"
  PROVE  \/ Compacted
         \/ notebook' <= NotebookLimit
<1>1. call \in [Askers -> Calls] /\ "decision" \in Askers  BY DEF LLMInv, CallsTyped, Askers
<1>2. CASE Decided \/ Reviewed
  <2>1. PICK role \in {"risk_officer", "compaction"} :
          Asks("decision", role) \/ (notebook' <= NotebookLimit /\ Rests("decision"))
    <3>1. notebook \in Nat /\ notebook' \in Nat
      BY LLMStep DEF LLMInv, Notes
    <3> QED  BY <1>2, <3>1, Bounds DEF Decided, Reviewed, CycleOver
  <2>2. role \in Roles  BY DEF Roles
  <2>3. ~Asks("decision", role)
    <3>1. ASSUME Asks("decision", role) PROVE FALSE
      <4>1. decision' = Begin(role)  BY <1>1, <3>1 DEF Asks, decision
      <4>2. Begin(role).pc \in {"strategy", "done"}  BY <2>2 DEF Begin, Idle
      <4> QED  BY <4>1, <4>2
    <3> QED  BY <3>1
  <2> QED  BY <2>1, <2>3
<1>3. CASE \E t \in Askers : Asked(t)
  <2>1. PICK t \in Askers : Asked(t)  BY <1>3
  <2>2. t = "decision"
    <3>1. t # "decision" => decision' = decision
      BY <1>1, <2>1, AskedTyped DEF LLMInv, decision
    <3> QED  BY <3>1
  <2>3. FALSE
    BY <1>1, <2>1, <2>2 DEF Asked, EnsureStrategy, ProbeWorks, ProbeFails, Acquire, Retry,
       AnswersValid, AnswersGarbage, QuotaExhausted, AttemptFails, InFlight, decision
  <2> QED  BY <2>3
<1>4. CASE \E t \in Askers : PlanSession(t) \/ PlanMade(t)
  <2>1. PICK t \in Askers : PlanSession(t) \/ PlanMade(t)  BY <1>4
  <2>2. CASE t = "decision"
    BY <2>1, <2>2 DEF PlanSession, PlanMade, Answered, decision
  <2>3. CASE t # "decision"
    <3>1. decision' = decision
      BY <1>1, <2>1, <2>3 DEF PlanSession, PlanMade, Asks, Rests, decision
    <3> QED  BY <3>1
  <2> QED  BY <2>2, <2>3
<1>5. CASE ReviewSession \/ SessionReviewed \/ Decide \/ Dashboard \/ RowExpires \/ Restart
  <2>1. CASE Decide  BY <2>1 DEF Decide, decision
  <2>2. CASE RowExpires \/ Dashboard
    <3>1. decision' = decision  BY <2>2, DashboardApart DEF RowExpires, decision
    <3> QED  BY <3>1
  <2>3. CASE Restart
    <3>1. decision'.pc = "strategy"  BY <1>1, <2>3 DEF Restart, decision, Idle
    <3> QED  BY <3>1
  <2>4. CASE ReviewSession \/ SessionReviewed
    <3>1. decision' = decision
      BY <1>1, <2>4 DEF ReviewSession, SessionReviewed, Asks, Rests, decision
    <3> QED  BY <3>1
  <2> QED  BY <1>5, <2>1, <2>2, <2>3, <2>4
<1> QED  BY <1>2, <1>3, <1>4, <1>5 DEF Next, Dashboard

\* compact_if_needed: whatever the model says, a cycle that ends leaves the notebook within
\* narrative_max_chars, or with its summary and the lines a compaction keeps.
THEOREM NotebookBoundedAlways == Spec => NotebookBounded
<1> DEFINE Short == notebook' <= NotebookLimit \/ notebook' <= 1 + KeepUnsummarized
<1>1. LLMInv /\ [Next]_vars =>
        [call["decision"].pc = "done" /\ call'["decision"].pc = "idle"
           /\ call["decision"].role # "strategist" => Short]_vars
  <2> SUFFICES ASSUME LLMInv, Next, decision.pc = "done", decision'.pc = "idle",
                      decision.role # "strategist"
               PROVE  Short
    BY DEF decision
  <2>1. CASE Compacted
    <3>1. PICK keep \in {KeepRecent, KeepUnsummarized} :
            notebook' = 1 + (IF notebook < keep THEN notebook ELSE keep)
      BY <2>1 DEF Compacted, Keep
    <3>2. notebook \in Nat  BY DEF LLMInv, Notes
    <3>3. KeepRecent <= KeepUnsummarized  BY LLMAssumption
    <3> QED  BY <3>1, <3>2, <3>3, Bounds
  <2> QED  BY <2>1, RestsOnlyShort
<1> QED
  BY <1>1, LLMInit, LLMStep, PTL DEF Spec, NotebookBounded
=============================================================================

------------------------------ MODULE LLMGateway ------------------------------
(***************************************************************************)
(* Every question to the model: LLMGateway.complete with its negotiation,  *)
(* semaphore, retries and repair, the roles that fall back to doing        *)
(* nothing, and the cycle that turns a decision and its reviews into       *)
(* entries, or in manual mode into ideas that wait for a person's approval.*)
(* The decision and the schedule loop are the two askers.                  *)
(*                                                                         *)
(* One model serves all roles, as configured.  An answer is garbage, or a  *)
(* valid yes or no (proposals or none, approval or veto).  The entries     *)
(* pass a gate that may refuse them (RiskGate).  `available` and the       *)
(* counters beside it are left out: nothing but the dashboard reads them;  *)
(* so is the replay cache, which a running engine never reads.             *)
(***************************************************************************)
EXTENDS Integers, Sequences, FiniteSets

CONSTANTS
  Rungs,              \* the strategies there are for structured output (four)
  MaxConcurrent,      \* the account's tier
  MaxRetries,
  MaxSchemaFailures,
  MaxProposals,       \* bound: what a decision proposes, and entries of a cycle
  NotebookLimit,      \* narrative_max_chars, in lines
  KeepRecent, KeepUnsummarized,  \* lines a compaction keeps (10, 15)
  MaxRestarts         \* bound

ASSUME LLMAssumption ==
  /\ {Rungs, MaxConcurrent, MaxSchemaFailures, MaxProposals, NotebookLimit} \subseteq Nat \ {0}
  /\ {MaxRetries, KeepRecent, KeepUnsummarized, MaxRestarts} \subseteq Nat
  /\ KeepRecent <= KeepUnsummarized

Askers == {"decision", "schedule"}
Voices == {"trader", "risk_officer"}   \* whose word an entry needs
Roles  == {"startup", "strategist", "trader", "risk_officer", "compaction", "reviewer"}

\* STRATEGY_ORDER, of which the last is TEXT_EXTRACT.
Strategies   == 1..Rungs
TEXT_EXTRACT == Rungs

VARIABLES
  strategy,            \* LLMGateway._strategies of the model, 0: none
  row, fresh,          \* its row of llm_capabilities, 0: none; younger than its TTL
  schema_failures,     \* consecutive_schema_failures
  deterministic_only,
  call,                \* the coroutines
  waiters,             \* the semaphore's queue
  left,                \* proposals of the cycle not yet reviewed
  entries_this_cycle,
  notebook,            \* lines of the narrative
  heard,               \* history: roles of this cycle whose answer was a valid yes
  mode, pending,       \* execution_mode; pending_approvals, each idea by who was heard for it
  restarts

gateway == <<strategy, row, fresh, schema_failures, deterministic_only>>
cycle   == <<left, entries_this_cycle, notebook>>
manual  == <<mode, pending>>
vars    == <<gateway, call, waiters, cycle, heard, manual, restarts>>

Idle == [pc |-> "idle", role |-> "startup", attempt |-> 0, probe |-> 0, result |-> "none"]

\* Mutant: only the cycle looks whether the model is disabled.
BeginAnyway(role) == [Idle EXCEPT !.pc = "strategy", !.role = role]

\* complete, up to its first await.
Begin(role) ==
  [Idle EXCEPT !.pc = IF deterministic_only THEN "done" ELSE "strategy", !.role = role]

Init ==
  /\ strategy = 0 /\ row = 0 /\ fresh = FALSE
  /\ schema_failures = 0 /\ deterministic_only = FALSE
  /\ call = [t \in Askers |-> IF t = "decision" THEN [Idle EXCEPT !.pc = "strategy"] ELSE Idle]
  /\ waiters = <<>>
  /\ left = 0 /\ entries_this_cycle = 0 /\ notebook = 0
  /\ heard = {} /\ restarts = 0 /\ mode = "auto" /\ pending = {}

Started == call["decision"].pc = "idle" \/ call["decision"].role # "startup"

-----------------------------------------------------------------------------
(* ensure_strategy. *)

\* The strategy is resolved to s: the start is over, or the call queues for a slot.
Resolved(t, s) ==
  /\ strategy' = s
  /\ IF call[t].role = "startup"
     THEN call' = [call EXCEPT ![t] = Idle] /\ UNCHANGED waiters
     ELSE call' = [call EXCEPT ![t].pc = "wait", ![t].probe = 0] /\ waiters' = Append(waiters, t)

\* Known in memory, or from a row that is not too old; else the ladder is walked.
EnsureStrategy(t) ==
  /\ call[t].pc = "strategy"
  /\ IF strategy # 0 THEN Resolved(t, strategy)
     ELSE IF row # 0 /\ fresh THEN Resolved(t, row)
     ELSE /\ call' = [call EXCEPT ![t].pc = "probe", ![t].probe = 1]
          /\ UNCHANGED <<strategy, waiters>>
  /\ UNCHANGED <<row, fresh, schema_failures, deterministic_only, cycle, heard, manual, restarts>>

\* A probe, outside the semaphore, brings JSON; the last is taken whatever it brings.
ProbeWorks(t) ==
  /\ call[t].pc = "probe"
  /\ Resolved(t, call[t].probe)
  /\ row' = call[t].probe /\ fresh' = TRUE
  /\ UNCHANGED <<schema_failures, deterministic_only, cycle, heard, manual, restarts>>

\* It raises, brings none, or is skipped for want of tools.
ProbeFails(t) ==
  /\ call[t].pc = "probe" /\ call[t].probe # TEXT_EXTRACT
  /\ call' = [call EXCEPT ![t].probe = @ + 1]
  /\ UNCHANGED <<gateway, waiters, cycle, heard, manual, restarts>>

\* A row is as good as young while the strategy is in memory: its age is not looked at.
RowExpires ==
  /\ strategy = 0 /\ fresh /\ fresh' = FALSE
  /\ UNCHANGED <<strategy, row, schema_failures, deterministic_only, call, waiters, cycle, heard,
                 manual, restarts>>

-----------------------------------------------------------------------------
(* complete: the semaphore, the attempts, the verdict on the answer. *)

InFlight == {t \in Askers : call[t].pc \in {"chat", "repair"}}

\* Mutant: the slot is free again while a call backs off.
HoldersInFlight == InFlight

Holders == {t \in Askers : call[t].pc \in {"chat", "repair", "backoff"}}

Acquire(t) ==
  /\ call[t].pc = "wait" /\ waiters # <<>> /\ Head(waiters) = t
  /\ Cardinality(Holders) < MaxConcurrent
  /\ waiters' = Tail(waiters)
  /\ call' = [call EXCEPT ![t].pc = "chat"]
  /\ UNCHANGED <<gateway, cycle, heard, manual, restarts>>

Returns(t, result) ==
  call' = [call EXCEPT ![t].pc = "done", ![t].attempt = 0, ![t].result = result]

\* A valid object, at once or after the repair; a plan or a summary of the day is a yes.
AnswersValid(t, yesno) ==
  /\ t \in InFlight
  /\ call[t].role \in {"strategist", "reviewer"} => yesno = "yes"
  /\ Returns(t, yesno)
  /\ schema_failures' = 0
  /\ heard' = IF yesno = "yes" THEN heard \cup ({call[t].role} \cap Voices) ELSE heard
  /\ UNCHANGED <<strategy, row, fresh, deterministic_only, waiters, cycle, manual, restarts>>

\* No valid object: one repair, then a schema failure.
AnswersGarbage(t) ==
  /\ t \in InFlight
  /\ IF call[t].pc = "chat"
     THEN /\ call' = [call EXCEPT ![t].pc = "repair"]
          /\ UNCHANGED <<schema_failures, deterministic_only>>
     ELSE /\ Returns(t, "none")
          /\ schema_failures' = IF schema_failures < MaxSchemaFailures
                                THEN schema_failures + 1 ELSE schema_failures
          /\ deterministic_only' = (deterministic_only
                                      \/ schema_failures + 1 >= MaxSchemaFailures)
  /\ UNCHANGED <<strategy, row, fresh, waiters, cycle, heard, manual, restarts>>

QuotaExhausted(t) ==
  /\ t \in InFlight
  /\ Returns(t, "none")
  /\ UNCHANGED <<gateway, waiters, cycle, heard, manual, restarts>>

\* Mutant: a call is tried until it is answered.
TryAgain(t) == TRUE

MayRetry(t) == call[t].attempt < MaxRetries

\* A timeout of the whole attempt or an error of the provider; the backoff keeps the slot.
AttemptFails(t) ==
  /\ t \in InFlight
  /\ IF MayRetry(t)
     THEN call' = [call EXCEPT ![t].pc = "backoff",
                               ![t].attempt = IF @ < MaxRetries THEN @ + 1 ELSE @]
     ELSE Returns(t, "none")
  /\ UNCHANGED <<gateway, waiters, cycle, heard, manual, restarts>>

Retry(t) ==
  /\ call[t].pc = "backoff"
  /\ call' = [call EXCEPT ![t].pc = "chat"]
  /\ UNCHANGED <<gateway, waiters, cycle, heard, manual, restarts>>

-----------------------------------------------------------------------------
(* The roles, and the cycle. *)

Asks(t, role) == call' = [call EXCEPT ![t] = Begin(role)]
Rests(t)      == call' = [call EXCEPT ![t] = Idle]

Answered(t, role) == call[t].pc = "done" /\ call[t].role = role

\* plan_session from either loop; review_session.
PlanSession(t) ==
  /\ Started /\ call[t].pc = "idle"
  /\ Asks(t, "strategist")
  /\ UNCHANGED <<gateway, waiters, cycle, heard, manual, restarts>>

ReviewSession ==
  /\ Started /\ call["schedule"].pc = "idle"
  /\ Asks("schedule", "reviewer")
  /\ UNCHANGED <<gateway, waiters, cycle, heard, manual, restarts>>

\* A line more; bound: outside a cycle, up to one over the limit.
Noted == IF notebook <= NotebookLimit THEN notebook + 1 ELSE notebook

\* The plan, the model's or the defensive default, is noted.
PlanMade(t) ==
  /\ Answered(t, "strategist")
  /\ notebook' = Noted
  /\ Rests(t)
  /\ UNCHANGED <<gateway, waiters, left, entries_this_cycle, heard, manual, restarts>>

SessionReviewed ==
  /\ Answered("schedule", "reviewer")
  /\ Rests("schedule")
  /\ UNCHANGED <<gateway, waiters, cycle, heard, manual, restarts>>

\* A cycle asks its trader, unless the model is disabled.
Decide ==
  /\ Started /\ call["decision"].pc = "idle"
  /\ ~deterministic_only
  /\ Asks("decision", "trader")
  /\ entries_this_cycle' = 0 /\ heard' = {}
  /\ UNCHANGED <<gateway, waiters, left, notebook, manual, restarts>>

\* The end of a cycle: a notebook that has grown too long is compacted.
CycleOver == IF notebook' > NotebookLimit THEN Asks("decision", "compaction") ELSE Rests("decision")

\* Each proposal goes to the risk officer; no proposals, no decision: nothing is done.
Decided ==
  /\ Answered("decision", "trader")
  /\ notebook' = IF call["decision"].result = "none" THEN notebook ELSE notebook + 1
  /\ IF call["decision"].result = "yes"
     THEN left' \in 1..MaxProposals /\ Asks("decision", "risk_officer")
     ELSE left' = 0 /\ CycleOver
  /\ UNCHANGED <<gateway, waiters, entries_this_cycle, heard, manual, restarts>>

\* Mutant: only a veto stops an entry.
ApprovesUnlessVetoed(result) == result # "no"

\* RiskCritique, with its safe default.
Approves(result) == result = "yes"

\* Mutant: one review too many.
MoreToReviewToo == left >= 1

MoreToReview == left > 1

\* The gate approves and counts an entry, or refuses.  Bound: entries of a cycle.
Submitted ==
  \/ UNCHANGED entries_this_cycle
  \/ entries_this_cycle < MaxProposals /\ entries_this_cycle' = entries_this_cycle + 1

\* In automatic mode what is approved and passes the gate is entered.  In manual mode every
\* idea waits for a person, and what the risk officer said of it is kept nowhere.  It is
\* noted either way, and the next proposal is reviewed.
Reviewed ==
  /\ Answered("decision", "risk_officer")
  /\ heard' = IF MoreToReview THEN heard \ {"risk_officer"} ELSE {}
  /\ IF mode = "manual"
     THEN pending' = pending \cup {heard \ {"risk_officer"}} /\ UNCHANGED entries_this_cycle
     ELSE /\ IF Approves(call["decision"].result) THEN Submitted ELSE UNCHANGED entries_this_cycle
          /\ UNCHANGED pending
  /\ notebook' = notebook + 1
  /\ left' = left - 1
  /\ IF MoreToReview THEN Asks("decision", "risk_officer") ELSE CycleOver
  /\ UNCHANGED <<gateway, waiters, mode, restarts>>

\* Mutant: nothing is dropped when there is no summary.
KeepWithoutSummary(result) == IF result = "none" THEN notebook - 1 ELSE KeepRecent

\* A summary line, and the most recent ones: more when the model gave no summary.
Keep(result) == IF result = "yes" THEN KeepRecent ELSE KeepUnsummarized

Compacted ==
  /\ Answered("decision", "compaction")
  /\ LET keep == Keep(call["decision"].result)
     IN  notebook' = 1 + (IF notebook < keep THEN notebook ELSE keep)
  /\ Rests("decision")
  /\ UNCHANGED <<gateway, waiters, left, entries_this_cycle, heard, manual, restarts>>

-----------------------------------------------------------------------------
(* The dashboard, at any await of the loops. *)

SetExecutionMode ==
  /\ mode' \in {"auto", "manual"} \ {mode}
  /\ UNCHANGED <<gateway, call, waiters, cycle, heard, pending, restarts>>

\* An idea leaves the list; another that looks like it may stay.
Taken(idea) == idea \in pending /\ pending' \in {pending, pending \ {idea}}

\* approve_proposal: the idea is priced anew and goes to the gate as if the risk officer had
\* approved it; without data it is dropped unnoted.
ApproveProposal(idea) ==
  /\ Taken(idea)
  /\ \/ Submitted /\ notebook' = Noted
     \/ UNCHANGED <<entries_this_cycle, notebook>>
  /\ UNCHANGED <<gateway, call, waiters, left, heard, mode, restarts>>

\* reject_proposal, or _expire_stale_approvals.
DropProposal(idea) ==
  /\ Taken(idea)
  /\ notebook' = Noted
  /\ UNCHANGED <<gateway, call, waiters, left, entries_this_cycle, heard, mode, restarts>>

\* The process dies and starts again; the capability row, the notebook and the mode are kept.
Restart ==
  /\ restarts < MaxRestarts
  /\ restarts' = restarts + 1
  /\ strategy' = 0 /\ schema_failures' = 0 /\ deterministic_only' = FALSE
  /\ call' = [t \in Askers |-> IF t = "decision" THEN [Idle EXCEPT !.pc = "strategy"] ELSE Idle]
  /\ waiters' = <<>>
  /\ left' = 0 /\ entries_this_cycle' = 0 /\ heard' = {} /\ pending' = {}
  /\ UNCHANGED <<row, fresh, notebook, mode>>

-----------------------------------------------------------------------------
Asked(t) ==
  \/ EnsureStrategy(t) \/ ProbeWorks(t) \/ ProbeFails(t)
  \/ Acquire(t) \/ Retry(t)
  \/ \E yesno \in {"yes", "no"} : AnswersValid(t, yesno)
  \/ AnswersGarbage(t) \/ QuotaExhausted(t) \/ AttemptFails(t)

Next ==
  \/ \E t \in Askers : Asked(t) \/ PlanSession(t) \/ PlanMade(t)
  \/ ReviewSession \/ SessionReviewed
  \/ Decide \/ Decided \/ Reviewed \/ Compacted
  \/ SetExecutionMode
  \/ \E idea \in pending : ApproveProposal(idea) \/ DropProposal(idea)
  \/ RowExpires \/ Restart

Spec == Init /\ [][Next]_vars

\* A call goes on: asyncio.timeout and the client's own timeout end every wait for the
\* provider, a backoff is a sleep, and the semaphore serves in order.  The loop takes what
\* a call returned.  Nothing is assumed of what the provider answers, of new questions, nor
\* of the person at the dashboard.
Fairness ==
  /\ \A t \in Askers : WF_vars(Asked(t)) /\ WF_vars(PlanMade(t))
  /\ WF_vars(SessionReviewed) /\ WF_vars(Decided) /\ WF_vars(Reviewed) /\ WF_vars(Compacted)

FairSpec == Spec /\ Fairness

-----------------------------------------------------------------------------
\* Every variable keeps its type.
TypeOK ==
  /\ strategy \in Strategies \cup {0} /\ row \in Strategies \cup {0} /\ fresh \in BOOLEAN
  /\ schema_failures \in 0..MaxSchemaFailures /\ deterministic_only \in BOOLEAN
  /\ call \in [Askers -> [pc : {"idle", "strategy", "probe", "wait", "chat", "repair", "backoff",
                                "done"},
                          role : Roles, attempt : 0..MaxRetries,
                          probe : Strategies \cup {0}, result : {"none", "yes", "no"}]]
  /\ \A k \in DOMAIN waiters : call[waiters[k]].pc = "wait"
  /\ left \in 0..MaxProposals /\ entries_this_cycle \in 0..MaxProposals
  /\ mode \in {"auto", "manual"} /\ pending \subseteq SUBSET Voices
  /\ notebook \in Nat /\ heard \subseteq Voices /\ restarts \in 0..MaxRestarts

\* Questions in flight, their repairs and retries included, never exceed the account's
\* tier, whichever loops ask ("serialize calls to the account's concurrency tier"); the
\* probes of a negotiation are outside the semaphore.
TierRespected == Cardinality(InFlight) <= MaxConcurrent

\* The cycle enters nothing without a trader's valid decision of this cycle and the risk
\* officer's valid approval of this very proposal, whatever timed out, was garbage, ran out
\* of quota or was never asked, and whenever the mode is switched: "if the reviewer cannot
\* answer, the trade does not happen".  A person's approval, which leaves the cycle's
\* proposals alone, enters what a trader's valid decision proposed; there the risk officer
\* may have refused it or not have answered (manual mode queues the idea all the same).
FailsClosed ==
  [][entries_this_cycle' > entries_this_cycle
       => \/ Voices \subseteq heard
          \/ left' = left /\ \E idea \in pending : "trader" \in idea]_vars

\* Every question comes to an end, although the slots are shared and each failure is
\* followed by a wait that keeps its slot.
CallEnds == \A t \in Askers : (call[t].pc # "idle") ~> (call[t].pc = "idle")

\* A model disabled for good is left alone: calls that had begun end, and no loop asks
\* again.
DisabledGoesQuiet ==
  (<>[]deterministic_only) => <>[](\A t \in Askers : call[t].pc \notin {"probe", "chat", "repair"})

\* "The notebook must not grow without bound": a cycle that is over leaves it short, or
\* just compacted, with the model's help or without.
NotebookBounded ==
  [][call["decision"].pc = "done" /\ call'["decision"].pc = "idle"
       /\ call["decision"].role # "strategist"
     => notebook' <= NotebookLimit \/ notebook' <= 1 + KeepUnsummarized]_vars
=============================================================================

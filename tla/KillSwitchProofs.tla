-------------------------- MODULE KillSwitchProofs --------------------------
(***************************************************************************)
(* Types, and that a requested halt holds, for every bound on crashes, for *)
(* either action of the configuration, and when one of the two durable     *)
(* copies of the request could not be written.                             *)
(***************************************************************************)
EXTENDS KillSwitch, TLAPS

\* TypeOK in three parts: the provers do Booleans, numbers and records best apart.
Flags ==
  /\ up \in BOOLEAN /\ event \in BOOLEAN /\ lossFlag \in BOOLEAN
  /\ planned \in BOOLEAN /\ queued \in BOOLEAN
  /\ sentinel \in BOOLEAN /\ row \in BOOLEAN /\ open \in BOOLEAN /\ held \in BOOLEAN
  /\ exit \in BOOLEAN /\ dying \in BOOLEAN /\ killed \in BOOLEAN

Amounts ==
  /\ action \in Modes
  /\ start \in 0..MaxEquity /\ savedStart \in 0..MaxEquity /\ equity \in 1..MaxEquity
  /\ crashes \in 0..MaxCrashes /\ writeFails \in 0..MaxWriteFails
  /\ closeFails \in 0..MaxCloseFails

Snapshot == account \in [equity : 0..MaxEquity, held : BOOLEAN]

LEMMA TypeParts == TypeOK <=> Flags /\ Amounts /\ Snapshot
  BY DEF TypeOK, Flags, Amounts, Snapshot

LEMMA TypeInit == Init => TypeOK
<1> SUFFICES ASSUME Init PROVE Flags /\ Amounts /\ Snapshot
  BY TypeParts
<1>1. Flags
  BY ZenonT(30) DEF Init, Flags
<1>2. Amounts
  <2>1. /\ action = CfgAction /\ start = 0 /\ savedStart = 0 /\ equity = MaxEquity
        /\ crashes = 0 /\ writeFails = 0 /\ closeFails = 0
    BY Zenon DEF Init
  <2> QED
    BY <2>1, EquityAssumption, ModeAssumption, CrashAssumption, WriteAssumption,
       CloseAssumption DEF Amounts
<1>3. Snapshot
  <2>1. account = [equity |-> 0, held |-> FALSE]
    BY Zenon DEF Init, NoAccount
  <2> QED
    BY <2>1, EquityAssumption DEF Snapshot
<1> QED
  BY <1>1, <1>2, <1>3

\* What a loop has fetched is the account of that moment.
LEMMA SnapshotStep == Flags /\ Amounts /\ Snapshot /\ [Next]_vars => Snapshot'
<1> SUFFICES ASSUME Flags, Amounts, Snapshot, [Next]_vars PROVE Snapshot'
  OBVIOUS
<1>1. ASSUME Fetched PROVE Snapshot'
  <2>1. equity \in 0..MaxEquity /\ held \in BOOLEAN
    BY EquityAssumption DEF Flags, Amounts
  <2> QED
    BY <1>1, <2>1 DEF Fetched, Snapshot
<1>2. ASSUME account' = NoAccount PROVE Snapshot'
  BY <1>2, EquityAssumption DEF NoAccount, Snapshot
<1>3. ASSUME account' = account PROVE Snapshot'
  BY <1>3 DEF Snapshot
<1>4. Fetched \/ account' = NoAccount \/ account' = account
  <2>1. CASE Start \/ SyncAccount \/ RunPremarket
    BY <2>1, Zenon DEF Start, SyncAccount, RunPremarket
  <2>2. CASE Crash
    BY <2>2, Zenon DEF Crash
  <2>3. CASE Submit \/ Send \/ FastTick \/ Kill \/ ResetKill
    BY <2>3, Zenon DEF Submit, Send, FastTick, TickKeeps, Kill, ResetKill, procVars
  <2>4. ASSUME NEW mode \in Modes, TripKillSwitch(mode) PROVE account' = account
    BY <2>4, Zenon DEF TripKillSwitch, KillKeeps
  <2>5. CASE MarketOpens \/ EquityMoves \/ PositionCloses \/ ExitFills \/ ExitCancelled
    BY <2>5, Zenon DEF MarketOpens, EquityMoves, PositionCloses, ExitFills, ExitCancelled,
                       procVars
  <2>6. CASE UNCHANGED vars
    BY <2>6, Zenon DEF vars, procVars
  <2> QED
    BY <2>1, <2>2, <2>3, <2>4, <2>5, <2>6 DEF Next
<1> QED
  BY <1>1, <1>2, <1>3, <1>4

\* The types of what trip() writes.
WrittenTypes ==
  /\ event \in BOOLEAN /\ sentinel \in BOOLEAN /\ row \in BOOLEAN /\ killed \in BOOLEAN
  /\ writeFails \in 0..MaxWriteFails

\* The writes of trip() and of reset() that fail stay within their bound.
LEMMA TripTypes ==
  ASSUME TypeOK, Trip
  PROVE  WrittenTypes'
<1>1. PICK fileOk \in BOOLEAN, rowOk \in BOOLEAN :
        /\ writeFails' = writeFails + (IF fileOk THEN 0 ELSE 1) + (IF rowOk THEN 0 ELSE 1)
        /\ writeFails' <= MaxWriteFails
        /\ sentinel' = (sentinel \/ fileOk)
        /\ row' = (row \/ rowOk)
  BY DEF Trip
<1>2. writeFails' \in 0..MaxWriteFails
  BY <1>1, WriteAssumption DEF TypeOK
<1>3. sentinel' \in BOOLEAN /\ row' \in BOOLEAN
  BY <1>1
<1>4. event' \in BOOLEAN /\ killed' \in BOOLEAN
  BY DEF Trip
<1> QED
  BY <1>2, <1>3, <1>4 DEF WrittenTypes

\* The types of the exits and of the placements that failed.
ExitTypes ==
  exit \in BOOLEAN /\ dying \in BOOLEAN /\ closeFails \in 0..MaxCloseFails

\* A flatten, the watch over old orders, or neither.
LEMMA FlattenTypes ==
  ASSUME ExitTypes, account.held \in BOOLEAN,
         FlattenAll \/ ExpireExit \/ UNCHANGED <<exitVars, closeFails>>
  PROVE  ExitTypes'
<1>1. CASE FlattenAll
  <2>1. dying' \in BOOLEAN
    BY <1>1, Zenon DEF FlattenAll, ExitTypes
  <2>2. exit' \in BOOLEAN
    BY <1>1 DEF FlattenAll
  <2>3. closeFails' \in 0..MaxCloseFails
    BY <1>1, CloseAssumption DEF FlattenAll, ExitTypes
  <2> QED
    BY <2>1, <2>2, <2>3 DEF ExitTypes
<1>2. CASE ExpireExit
  <2>1. exit' \in BOOLEAN /\ dying' \in BOOLEAN
    BY <1>2, Zenon DEF ExpireExit, ExitTypes
  <2> QED
    BY <1>2, <2>1 DEF ExpireExit, ExitTypes
<1>3. CASE UNCHANGED <<exitVars, closeFails>>
  BY <1>3 DEF exitVars, ExitTypes
<1> QED
  BY <1>1, <1>2, <1>3

LEMMA TypeStep == TypeOK /\ [Next]_vars => TypeOK'
<1> SUFFICES ASSUME Flags, Amounts, Snapshot, [Next]_vars PROVE Flags' /\ Amounts'
  BY TypeParts, SnapshotStep DEF TypeOK, Flags, Amounts, Snapshot
<1>a. TypeOK
  BY TypeParts
<1>b. ExitTypes
  BY <1>a DEF TypeOK, ExitTypes
<1>c. account.held \in BOOLEAN
  BY DEF Snapshot
<1> USE DEF Flags, Amounts, WrittenTypes
<1>1. CASE Start
  <2>1. Flags'
    <3>1. event' \in BOOLEAN
      BY <1>1 DEF Start, Restored
    <3> QED
      BY <1>1, <3>1, Zenon DEF Start, acctVars, exitVars, histVars
  <2>2. Amounts'
    <3>1. /\ action' = CfgAction /\ savedStart' = start'
          /\ start' = IF savedStart # 0 THEN savedStart ELSE equity
          /\ equity' = equity
          /\ UNCHANGED <<crashes, writeFails, closeFails>>
      BY <1>1, Zenon DEF Start, acctVars, histVars
    <3>2. start' \in 0..MaxEquity
      BY <3>1, EquityAssumption
    <3> QED
      BY <3>1, <3>2, ModeAssumption
  <2> QED
    BY <2>1, <2>2
<1>2. CASE Crash
  <2>1. Flags'
    BY <1>2, Zenon DEF Crash, diskVars, acctVars, exitVars
  <2>2. Amounts'
    <3>1. /\ action' = CfgAction /\ start' = 0 /\ savedStart' = savedStart
          /\ equity' = equity /\ crashes' = crashes + 1
          /\ UNCHANGED <<writeFails, closeFails>>
          /\ crashes < MaxCrashes
      BY <1>2, Zenon DEF Crash, diskVars, acctVars
    <3> QED
      BY <3>1, ModeAssumption, CrashAssumption, EquityAssumption
  <2> QED
    BY <2>1, <2>2
<1>3. CASE RunPremarket
  <2>1. Flags'
    BY <1>3, Zenon DEF RunPremarket, ResetForNewSession, diskVars, acctVars, exitVars, histVars
  <2>2. Amounts'
    <3>1. /\ action' = action /\ start' = equity /\ savedStart' = savedStart
          /\ equity' = equity
          /\ UNCHANGED <<crashes, writeFails, closeFails>>
      BY <1>3, Zenon DEF RunPremarket, ResetForNewSession, diskVars, acctVars, histVars
    <3> QED
      BY <3>1, EquityAssumption
  <2> QED
    BY <2>1, <2>2
<1>4. CASE Submit
  BY <1>4 DEF Submit, is_tripped, diskVars, acctVars, exitVars, histVars
<1>5. CASE Send
  BY <1>5 DEF Send, diskVars, exitVars, histVars
<1>6. CASE FastTick
  <2>1. WrittenTypes'
    <3>1. CASE Trip
      BY <1>a, <3>1, TripTypes
    <3>2. CASE event' = is_tripped /\ UNCHANGED <<sentinel, row, killed, writeFails>>
      BY <3>2 DEF is_tripped
    <3> QED
      BY <1>6, <3>1, <3>2 DEF FastTick, CheckDailyLoss
  <2>2. lossFlag' \in BOOLEAN
    BY <1>6 DEF FastTick, CheckDailyLoss
  <2>3. ExitTypes'
    <3>1. FlattenAll \/ ExpireExit
      BY <1>6 DEF FastTick
    <3> QED
      BY <1>b, <1>c, <3>1, FlattenTypes
  <2> QED
    BY <1>6, <2>1, <2>2, <2>3 DEF FastTick, TickKeeps, ExitTypes
<1>7. ASSUME NEW mode \in Modes, TripKillSwitch(mode) PROVE Flags' /\ Amounts'
  <2>1. WrittenTypes'
    BY <1>a, <1>7, TripTypes DEF TripKillSwitch
  <2>2. ExitTypes'
    <3>1. FlattenAll \/ UNCHANGED <<exitVars, closeFails>>
      BY <1>7 DEF TripKillSwitch
    <3> QED
      BY <1>b, <1>c, <3>1, FlattenTypes
  <2> QED
    BY <1>7, <2>1, <2>2 DEF TripKillSwitch, KillKeeps, ExitTypes
<1>8. CASE Kill
  BY <1>8 DEF Kill, procVars, acctVars, exitVars
<1>9. CASE ResetKill
  <2>1. PICK fileOk \in BOOLEAN, rowOk \in BOOLEAN :
          /\ writeFails' = writeFails + (IF fileOk THEN 0 ELSE 1) + (IF rowOk THEN 0 ELSE 1)
          /\ writeFails' <= MaxWriteFails
          /\ sentinel' = (sentinel /\ ~fileOk)
          /\ row' = (row /\ ~rowOk)
    BY <1>9 DEF ResetKill
  <2>2. writeFails' \in 0..MaxWriteFails
    BY <2>1, WriteAssumption
  <2>3. sentinel' \in BOOLEAN /\ row' \in BOOLEAN
    BY <2>1
  <2> QED
    BY <1>9, <2>2, <2>3 DEF ResetKill, acctVars, exitVars
<1>10. CASE MarketOpens
  <2>1. Flags'
    BY <1>10, Zenon DEF MarketOpens, procVars, diskVars, exitVars, histVars
  <2>2. Amounts'
    BY <1>10, SMTT(30) DEF MarketOpens, procVars, diskVars, exitVars, histVars
  <2> QED
    BY <2>1, <2>2
<1>11. CASE EquityMoves
  BY <1>11 DEF EquityMoves, procVars, diskVars, exitVars, histVars
<1>12. CASE PositionCloses
  <2>1. Flags'
    BY <1>12, Zenon DEF PositionCloses, procVars, diskVars, exitVars, histVars
  <2>2. Amounts'
    BY <1>12, SMTT(30) DEF PositionCloses, procVars, diskVars, exitVars, histVars
  <2> QED
    BY <2>1, <2>2
<1>13. CASE ExitFills
  <2>1. Flags'
    BY <1>13, Zenon DEF ExitFills, procVars, diskVars, histVars
  <2>2. Amounts'
    BY <1>13, SMTT(30) DEF ExitFills, procVars, diskVars, histVars
  <2> QED
    BY <2>1, <2>2
<1>14. CASE ExitCancelled
  <2>1. Flags'
    BY <1>14, Zenon DEF ExitCancelled, procVars, diskVars, histVars
  <2>2. Amounts'
    BY <1>14, SMTT(30) DEF ExitCancelled, procVars, diskVars, histVars
  <2> QED
    BY <2>1, <2>2
<1>15. CASE SyncAccount
  BY <1>15 DEF SyncAccount, diskVars, acctVars, exitVars, histVars
<1>16. CASE UNCHANGED vars
  BY <1>16 DEF vars, procVars, diskVars, acctVars, exitVars, histVars
<1> QED
  BY <1>1, <1>2, <1>3, <1>4, <1>5, <1>6, <1>7, <1>8, <1>9, <1>10, <1>11, <1>12, <1>13,
     <1>14, <1>15, <1>16 DEF Next

\* Every variable of the process, the disk and the account keeps its type, the two copies
\* of a trip and the count of their failed writes included (trip, reset, __post_init__).
THEOREM TypeCorrect == Spec => []TypeOK
  BY TypeInit, TypeStep, PTL DEF Spec

\* The part of the type invariant that the failed writes are counted with.
CountersTyped == writeFails \in Nat /\ MaxWriteFails \in {0, 1}

\* A halt is on disk, and in the memory of a running process or in the file that the
\* process looks at: of the two writes of trip() at most one has ever failed.
HaltKept ==
  killed => /\ sentinel \/ row
            /\ up => event \/ sentinel

\* Nothing waits for the pacer in a process that is not there.
QueueNeedsProcess == queued => up

HaltInv == CountersTyped /\ HaltKept /\ QueueNeedsProcess

LEMMA HaltInit == Init => HaltInv
  BY WriteAssumption DEF Init, HaltInv, CountersTyped, HaltKept, QueueNeedsProcess

\* Of the two copies trip() writes, at least one is there afterwards.
LEMMA TripKeepsACopy ==
  ASSUME CountersTyped, Trip
  PROVE  writeFails' \in Nat /\ (sentinel' \/ row') /\ event'
<1>1. PICK fileOk \in BOOLEAN, rowOk \in BOOLEAN :
        /\ writeFails' = writeFails + (IF fileOk THEN 0 ELSE 1) + (IF rowOk THEN 0 ELSE 1)
        /\ writeFails' <= MaxWriteFails
        /\ sentinel' = (sentinel \/ fileOk)
        /\ row' = (row \/ rowOk)
  BY DEF Trip
<1>2. writeFails' \in Nat
  BY <1>1 DEF CountersTyped
<1>3. fileOk \/ rowOk
  BY <1>1 DEF CountersTyped
<1>4. sentinel' \/ row'
  BY <1>1, <1>3, Zenon
<1> QED
  BY <1>2, <1>4 DEF Trip

LEMMA HaltStep == HaltInv /\ [Next]_vars => HaltInv'
<1> SUFFICES ASSUME HaltInv, [Next]_vars PROVE HaltInv'
  OBVIOUS
<1> USE DEF HaltInv, CountersTyped, HaltKept, QueueNeedsProcess
<1>1. CASE Start
  BY <1>1 DEF Start, Restored, histVars
<1>2. CASE Crash
  BY <1>2 DEF Crash, diskVars
<1>3. CASE RunPremarket
  BY <1>3 DEF RunPremarket, diskVars, histVars
<1>4. CASE Submit
  BY <1>4 DEF Submit, is_tripped, diskVars, histVars
<1>5. CASE Send
  BY <1>5 DEF Send, diskVars, histVars
<1>6. CASE FastTick
  <2>1. CASE Trip
    BY <1>6, <2>1, TripKeepsACopy DEF FastTick, TickKeeps, CheckDailyLoss
  <2>2. CASE event' = is_tripped /\ UNCHANGED <<sentinel, row, killed, writeFails>>
    BY <1>6, <2>2 DEF FastTick, TickKeeps, is_tripped
  <2> QED
    BY <1>6, <2>1, <2>2 DEF FastTick, CheckDailyLoss
<1>7. ASSUME NEW mode \in Modes, TripKillSwitch(mode) PROVE HaltInv'
  BY <1>7, TripKeepsACopy DEF TripKillSwitch, KillKeeps
<1>8. CASE Kill
  BY <1>8 DEF Kill, procVars
<1>9. CASE ResetKill
  BY <1>9 DEF ResetKill
<1>10. CASE MarketOpens
  BY <1>10 DEF MarketOpens, procVars, diskVars, histVars
<1>11. CASE EquityMoves
  BY <1>11 DEF EquityMoves, procVars, diskVars, histVars
<1>12. CASE PositionCloses
  BY <1>12 DEF PositionCloses, procVars, diskVars, histVars
<1>13. CASE ExitFills \/ ExitCancelled
  <2>1. UNCHANGED <<procVars, diskVars, histVars>>
    BY <1>13, Zenon DEF ExitFills, ExitCancelled
  <2> QED
    BY <2>1 DEF procVars, diskVars, histVars
<1>14. CASE SyncAccount
  BY <1>14 DEF SyncAccount, diskVars, histVars
<1>15. CASE UNCHANGED vars
  BY <1>15 DEF vars, procVars, diskVars, histVars
<1> QED
  BY <1>1, <1>2, <1>3, <1>4, <1>5, <1>6, <1>7, <1>8, <1>9, <1>10, <1>11, <1>12, <1>13,
     <1>14, <1>15 DEF Next

\* Only Submit queues a bracket, and it looks at the event and at the file.
LEMMA HaltGuards == HaltInv /\ [Next]_vars => (queued' /\ ~queued => ~killed)
<1> SUFFICES ASSUME HaltInv, [Next]_vars, queued', ~queued PROVE ~killed
  OBVIOUS
<1>1. CASE Submit
  BY <1>1 DEF Submit, is_tripped, HaltInv, HaltKept
<1>2. CASE Start \/ Crash \/ Send
  BY <1>2 DEF Start, Crash, Send
<1>3. CASE \/ SyncAccount \/ RunPremarket \/ FastTick \/ ResetKill \/ MarketOpens
           \/ EquityMoves \/ PositionCloses \/ ExitFills \/ ExitCancelled
  BY <1>3 DEF SyncAccount, RunPremarket, FastTick, TickKeeps, ResetKill, MarketOpens,
              EquityMoves, PositionCloses, ExitFills, ExitCancelled, procVars
<1>4. ASSUME NEW mode \in Modes, TripKillSwitch(mode) PROVE FALSE
  BY <1>4 DEF TripKillSwitch, KillKeeps
<1>5. CASE Kill
  BY <1>5 DEF Kill, procVars
<1>6. CASE UNCHANGED vars
  BY <1>6 DEF vars, procVars
<1> QED
  BY <1>1, <1>2, <1>3, <1>4, <1>5, <1>6 DEF Next

\* Once a halt is asked for (dashboard, command line, sentinel file or loss limit), no
\* bracket passes RiskEngine.submit until a person resets the switch, through any number
\* of restarts and with one of the two durable copies missing.
THEOREM HaltHoldsAlways == Spec => HaltHolds
<1>1. Init => HaltInv
  BY HaltInit
<1>2. HaltInv /\ [Next]_vars => HaltInv'
  BY HaltStep
<1>3. HaltInv /\ [Next]_vars => [queued' /\ ~queued => ~killed]_vars
  BY HaltGuards
<1> QED
  BY <1>1, <1>2, <1>3, PTL DEF Spec, HaltHolds
=============================================================================

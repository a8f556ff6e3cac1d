--------------------------- MODULE GatewayProofs ---------------------------
(***************************************************************************)
(* The gate of the decision loop, for any number of faults.                *)
(***************************************************************************)
EXTENDS Gateway, TLAPS

\* What start() and the watchdog know at each point: ready is clear while a connection
\* is being made, the 2FA flag while the hook runs, and CONNECTED implies a socket.
GateInv ==
  /\ twofa => ~ready
  /\ pc \in {"off", "backoff", "dial", "auth"} => ~ready
  /\ pc \in {"hook", "startup"} \cup Unbounded => ~twofa
  /\ health = "CONNECTED" => socket
  /\ twofa => health # "CONNECTED"

LEMMA GateInit == Init => GateInv
  BY DEF Init, GateInv

LEMMA GateStep == GateInv /\ [Next]_vars => GateInv'
<1> SUFFICES ASSUME GateInv, [Next]_vars PROVE GateInv'
  OBVIOUS
<1> USE DEF GateInv, Unbounded
<1>1. CASE Boot
  BY <1>1 DEF Boot
<1>2. CASE DialOk
  BY <1>2 DEF DialOk
<1>3. CASE DialFails
  BY <1>3 DEF DialFails, Raised
<1>4. CASE AuthOk
  BY <1>4 DEF AuthOk, is_authenticated
<1>5. CASE AuthFails
  BY <1>5 DEF AuthFails, Raised
<1>6. CASE StartupAccount \/ StartupReconciles
  BY <1>6 DEF StartupAccount, StartupReconciles
<1>7. CASE SpawnLoops
  BY <1>7 DEF SpawnLoops
<1>8. CASE StartupFails
  BY <1>8 DEF StartupFails, Gone
<1>9. CASE CheckOnce
  BY <1>9 DEF CheckOnce
<1>10. CASE Redial
  BY <1>10 DEF Redial
<1>11. CASE ProbeOk
  BY <1>11 DEF ProbeOk, is_authenticated
<1>12. CASE ProbeFails
  BY <1>12 DEF ProbeFails
<1>13. CASE HookAccount \/ HookReconciles
  BY <1>13 DEF HookAccount, HookReconciles
<1>14. CASE HookOk
  BY <1>14 DEF HookOk
<1>15. CASE HookFails
  BY <1>15 DEF HookFails
<1>16. CASE MaybeRunCycle \/ CycleEnds
  BY <1>16 DEF MaybeRunCycle, CycleEnds
<1>17. CASE SocketDrops
  BY <1>17 DEF SocketDrops, handle_disconnect
<1>18. CASE SessionDies \/ SessionReturns
  BY <1>18 DEF SessionDies, SessionReturns
<1>19. CASE Crash
  BY <1>19 DEF Crash, Gone
<1>20. CASE UNCHANGED vars
  BY <1>20 DEF vars
<1> QED
  BY <1>1, <1>2, <1>3, <1>4, <1>5, <1>6, <1>7, <1>8, <1>9, <1>10, <1>11, <1>12, <1>13,
     <1>14, <1>15, <1>16, <1>17, <1>18, <1>19, <1>20 DEF Next

\* While IBKR waits for its interactive login, GatewayService.ready is clear.
THEOREM GateShut == Spec => []GateShutFor2FA
<1>1. GateInv => GateShutFor2FA
  BY DEF GateInv, GateShutFor2FA
<1> QED
  BY <1>1, GateInit, GateStep, PTL DEF Spec

\* The system never becomes tradeable without a socket, however the loss of a connection
\* falls between a probe or the reconciliation hook and its result.
THEOREM ResumesOnlyConnected == Spec => ResumesConnected
<1>1. GateInv => (is_tradeable => socket)
  BY DEF GateInv, is_tradeable
<1>2. GateInv /\ [Next]_vars => [~is_tradeable /\ is_tradeable' => socket']_vars
  BY <1>1, GateStep DEF GateInv, is_tradeable
<1> QED
  BY <1>2, GateInit, GateStep, PTL DEF Spec, ResumesConnected

-----------------------------------------------------------------------------
(* Types.                                                                  *)

Flags ==
  /\ started \in BOOLEAN /\ twofa \in BOOLEAN /\ ready \in BOOLEAN
  /\ cycle \in BOOLEAN /\ socket \in BOOLEAN /\ session \in BOOLEAN

Points ==
  /\ pc \in {"off", "dial", "auth", "startup", "sleep", "probe", "backoff", "hook"}
           \cup Unbounded
  /\ health \in {"DISCONNECTED", "CONNECTING", "UNAUTHENTICATED", "CONNECTED"}

LEMMA TypeParts == TypeOK <=> Flags /\ Points /\ faults \in 0..MaxFaults
  BY DEF TypeOK, Flags, Points

LEMMA TypeInit == Init => TypeOK
<1> SUFFICES ASSUME Init PROVE Flags /\ Points /\ faults \in 0..MaxFaults
  BY TypeParts
<1>1. Flags /\ Points
  BY ZenonT(30) DEF Init, Flags, Points, Unbounded
<1>2. faults \in 0..MaxFaults
  BY MaxFaultsAssumption DEF Init
<1> QED
  BY <1>1, <1>2

LEMMA TypeStep == TypeOK /\ [Next]_vars => TypeOK'
<1> SUFFICES ASSUME TypeOK, [Next]_vars PROVE Flags' /\ Points' /\ (faults \in 0..MaxFaults)'
  BY DEF TypeOK, Flags, Points
<1> USE DEF TypeOK
<1>1. Flags'
  BY ZenonT(60) DEF Flags, Next, Boot, DialOk, DialFails, AuthOk, AuthFails, StartupAccount, StartupReconciles, SpawnLoops,
     StartupFails, CheckOnce, Redial, ProbeOk, ProbeFails, HookAccount, HookReconciles, HookOk, HookFails,
     MaybeRunCycle, CycleEnds, SocketDrops, SessionDies, SessionReturns, Crash, Raised, Gone,
     handle_disconnect, Fault, vars
<1>2. Points'
  BY DEF Points, Unbounded, Next, Boot, DialOk, DialFails, AuthOk, AuthFails, StartupAccount, StartupReconciles, SpawnLoops,
     StartupFails, CheckOnce, Redial, ProbeOk, ProbeFails, HookAccount, HookReconciles, HookOk, HookFails,
     MaybeRunCycle, CycleEnds, SocketDrops, SessionDies, SessionReturns, Crash, Raised, Gone,
     handle_disconnect, Fault, vars
<1>3. faults' = faults \/ (faults < MaxFaults /\ faults' = faults + 1)
  BY ZenonT(60) DEF Next, Boot, DialOk, DialFails, AuthOk, AuthFails, StartupAccount, StartupReconciles, SpawnLoops,
     StartupFails, CheckOnce, Redial, ProbeOk, ProbeFails, HookAccount, HookReconciles, HookOk, HookFails,
     MaybeRunCycle, CycleEnds, SocketDrops, SessionDies, SessionReturns, Crash, Raised, Gone,
     handle_disconnect, Fault, vars
<1>4. faults' \in 0..MaxFaults
  BY <1>3, MaxFaultsAssumption
<1> QED
  BY <1>1, <1>2, <1>4

\* The fields keep their types: health is one of ConnectionState's values at every await
\* of start(), the watchdog and its hook, and the faults stay within their bound.
THEOREM TypeCorrect == Spec => []TypeOK
  BY TypeInit, TypeStep, PTL DEF Spec
=============================================================================

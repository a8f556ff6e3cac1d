------------------------------ MODULE Gateway ------------------------------
(***************************************************************************)
(* The connection lifecycle of broker/gateway.py: start()'s first connect, *)
(* the watchdog with its probes, reconnects and reconciliation hook, and   *)
(* the decision loop that is gated on is_tradeable.                        *)
(*                                                                         *)
(* start() and the watchdog never overlap (the watchdog is spawned when    *)
(* start() is done), so pc is the one point they have reached.  The socket *)
(* and the IBKR session behind it are external.  Backoff delays are finite *)
(* and left out, so reconnect_attempts is too.  An answer of the broker    *)
(* may fail at any time (a timeout); such failures, lost sockets, ended    *)
(* sessions and deaths of the process are the faults that MaxFaults bounds.*)
(* The account summary has a time-out of its own; the other requests have  *)
(* none, so on a socket whose session is dead they may wait for ever.      *)
(***************************************************************************)
EXTENDS Naturals

CONSTANT MaxFaults    \* bound: faults of the environment

ASSUME MaxFaultsAssumption == MaxFaults \in Nat

VARIABLES
  pc,          \* where start() or the watchdog is
  started,     \* start() is over and the loops are spawned
  health,      \* ConnectionHealth.state
  twofa,       \* ConnectionHealth.needs_manual_2fa
  ready,       \* GatewayService.ready
  cycle,       \* whether a decision cycle is running
  socket,      \* BrokerPort.is_connected
  session,     \* whether IBKR answers on it (the security token is valid)
  faults       \* the faults so far

vars == <<pc, started, health, twofa, ready, cycle, socket, session, faults>>

\* The account summary is answered; an answer can also fail, a fault.
is_authenticated == socket /\ session

is_tradeable == health = "CONNECTED" /\ ~twofa /\ ready

Fault == faults < MaxFaults /\ faults' = faults + 1

Init ==
  /\ pc = "off" /\ started = FALSE
  /\ health = "DISCONNECTED" /\ twofa = FALSE /\ ready = FALSE
  /\ cycle = FALSE
  /\ socket = FALSE /\ session = TRUE
  /\ faults = 0

\* The process is gone and with it its socket.
Gone ==
  /\ pc' = "off" /\ started' = FALSE
  /\ health' = "DISCONNECTED" /\ twofa' = FALSE /\ ready' = FALSE
  /\ cycle' = FALSE
  /\ socket' = FALSE

\* connect() has raised: start() gives up, the watchdog goes back to sleep.
Raised(state, needs2fa) ==
  IF started
  THEN /\ pc' = "sleep"
       /\ health' = state /\ twofa' = needs2fa
       /\ UNCHANGED <<started, ready, cycle>>
  ELSE /\ pc' = "off" /\ started' = FALSE
       /\ health' = "DISCONNECTED" /\ twofa' = FALSE /\ ready' = FALSE /\ cycle' = FALSE

-----------------------------------------------------------------------------
(* connect().                                                              *)

Boot ==
  /\ pc = "off"
  /\ pc' = "dial"
  /\ health' = "CONNECTING"
  /\ UNCHANGED <<started, twofa, ready, cycle, socket, session, faults>>

\* The socket connects happily, whether or not the session behind it is alive.
DialOk ==
  /\ pc = "dial"
  /\ pc' = "auth"
  /\ socket' = TRUE
  /\ UNCHANGED <<started, health, twofa, ready, cycle, session, faults>>

\* No socket, or one with no managed accounts behind it.
DialFails ==
  /\ pc = "dial"
  /\ \/ session /\ Fault /\ socket' = FALSE
     \/ ~session /\ UNCHANGED faults /\ socket' \in IF started THEN BOOLEAN ELSE {FALSE}
  /\ Raised("DISCONNECTED", twofa)
  /\ UNCHANGED session

\* The probe answers: connect() sets ready itself, for start() as for _reconnect.
AuthOk ==
  /\ pc = "auth"
  /\ is_authenticated
  /\ health' = "CONNECTED" /\ twofa' = FALSE /\ ready' = TRUE
  /\ pc' = IF started THEN "hook" ELSE "startup"
  /\ UNCHANGED <<started, cycle, socket, session, faults>>

AuthFails ==
  /\ pc = "auth"
  /\ IF is_authenticated THEN Fault ELSE UNCHANGED faults
  /\ Raised("UNAUTHENTICATED", TRUE)
  /\ socket' = (socket /\ started)
  /\ UNCHANGED session

-----------------------------------------------------------------------------
(* start() after its connect().                                            *)

\* _account(), before the reconciliation.
StartupAccount ==
  /\ pc = "startup"
  /\ is_authenticated
  /\ pc' = "reconciling"
  /\ UNCHANGED <<started, health, twofa, ready, cycle, socket, session, faults>>

\* open_orders() answers; what is asked after it may be lost with the socket, which
\* reconcile() takes for an empty answer.
Reconciled == is_authenticated \/ ~socket

StartupReconciles ==
  /\ pc = "reconciling"
  /\ Reconciled
  /\ pc' = "spawn"
  /\ UNCHANGED <<started, health, twofa, ready, cycle, socket, session, faults>>

SpawnLoops ==
  /\ pc = "spawn"
  /\ started' = TRUE
  /\ pc' = "sleep"
  /\ UNCHANGED <<health, twofa, ready, cycle, socket, session, faults>>

\* The interlock, the account, the reconciliation or a request after it raises.
StartupFails ==
  /\ pc \in {"startup", "reconciling", "spawn"}
  /\ IF is_authenticated THEN Fault ELSE UNCHANGED faults
  /\ Gone
  /\ UNCHANGED session

-----------------------------------------------------------------------------
(* The watchdog.                                                           *)

\* Mutant: a connected socket is taken for a live session.
TrustSocket ==
  /\ pc = "sleep"
  /\ IF socket
     THEN UNCHANGED <<pc, ready>>
     ELSE pc' = "backoff" /\ ready' = FALSE
  /\ UNCHANGED <<started, health, twofa, cycle, socket, session, faults>>

\* _check_once up to its first await.
CheckOnce ==
  /\ pc = "sleep"
  /\ IF socket
     THEN pc' = "probe" /\ UNCHANGED ready
     ELSE pc' = "backoff" /\ ready' = FALSE
  /\ UNCHANGED <<started, health, twofa, cycle, socket, session, faults>>

\* _reconnect after its backoff: connect() begins.
Redial ==
  /\ pc = "backoff"
  /\ health' = "CONNECTING"
  /\ pc' = "dial"
  /\ UNCHANGED <<started, twofa, ready, cycle, socket, session, faults>>

\* A session found alive again is reconciled like a reconnect.
ProbeOk ==
  /\ pc = "probe"
  /\ is_authenticated
  /\ health' = "CONNECTED"
  /\ twofa' = IF health = "CONNECTED" THEN twofa ELSE FALSE
  /\ pc' = IF health = "CONNECTED" THEN "sleep" ELSE "hook"
  /\ UNCHANGED <<started, ready, cycle, socket, session, faults>>

\* Mutant: the gate stays open while IBKR wants the 2FA login.
ProbeFailsSilently ==
  /\ pc = "probe"
  /\ IF is_authenticated THEN Fault ELSE UNCHANGED faults
  /\ health' = "UNAUTHENTICATED" /\ twofa' = TRUE
  /\ pc' = "sleep"
  /\ UNCHANGED <<started, ready, cycle, socket, session>>

ProbeFails ==
  /\ pc = "probe"
  /\ IF is_authenticated THEN Fault ELSE UNCHANGED faults
  /\ health' = "UNAUTHENTICATED" /\ twofa' = TRUE /\ ready' = FALSE
  /\ pc' = "sleep"
  /\ UNCHANGED <<started, cycle, socket, session>>

\* _after_connect: on_reconnect fetches the account, reconciles, and subscribes again.
HookAccount ==
  /\ pc = "hook"
  /\ is_authenticated
  /\ pc' = "reconcile"
  /\ UNCHANGED <<started, health, twofa, ready, cycle, socket, session, faults>>

HookReconciles ==
  /\ pc = "reconcile"
  /\ Reconciled
  /\ pc' = "resubscribe"
  /\ UNCHANGED <<started, health, twofa, ready, cycle, socket, session, faults>>

\* With nothing to subscribe to, this part succeeds on a dead socket too.
HookOk ==
  /\ pc = "resubscribe"
  /\ ready' = TRUE
  /\ pc' = "sleep"
  /\ UNCHANGED <<started, health, twofa, cycle, socket, session, faults>>

\* The exception is logged and _after_connect returns.
HookFails ==
  /\ pc \in {"hook", "reconcile", "resubscribe"}
  /\ IF is_authenticated THEN Fault ELSE UNCHANGED faults
  /\ pc' = "sleep"
  /\ UNCHANGED <<started, health, twofa, ready, cycle, socket, session>>

-----------------------------------------------------------------------------
(* The decision loop and the environment.                                  *)

MaybeRunCycle ==
  /\ started
  /\ is_tradeable
  /\ ~cycle
  /\ cycle' = TRUE
  /\ UNCHANGED <<pc, started, health, twofa, ready, socket, session, faults>>

CycleEnds ==
  /\ cycle
  /\ cycle' = FALSE
  /\ UNCHANGED <<pc, started, health, twofa, ready, socket, session, faults>>

\* Mutant: a lost socket only clears ready.
LostOnlyReady == ready' = FALSE /\ UNCHANGED health

\* Mutant: a lost socket leaves no state at all.
LostForgetsState == ready' = FALSE /\ health' = "NONE"

handle_disconnect ==
  /\ ready' = FALSE
  /\ health' = IF health = "CONNECTED" THEN "DISCONNECTED" ELSE health

SocketDrops ==
  /\ socket
  /\ Fault
  /\ socket' = FALSE
  /\ handle_disconnect
  /\ UNCHANGED <<pc, started, twofa, cycle, session>>

\* The weekly token reset, and the IB Key tap that ends it.
SessionDies ==
  /\ session
  /\ Fault
  /\ session' = FALSE
  /\ UNCHANGED <<pc, started, health, twofa, ready, cycle, socket>>

SessionReturns ==
  /\ ~session
  /\ session' = TRUE
  /\ UNCHANGED <<pc, started, health, twofa, ready, cycle, socket, faults>>

Crash ==
  /\ pc # "off"
  /\ Fault
  /\ Gone
  /\ UNCHANGED session

Next ==
  \/ Boot \/ DialOk \/ DialFails \/ AuthOk \/ AuthFails
  \/ StartupAccount \/ StartupReconciles \/ SpawnLoops \/ StartupFails
  \/ CheckOnce \/ Redial \/ ProbeOk \/ ProbeFails
  \/ HookAccount \/ HookReconciles \/ HookOk \/ HookFails
  \/ MaybeRunCycle \/ CycleEnds
  \/ SocketDrops \/ SessionDies \/ SessionReturns \/ Crash

Spec == Init /\ [][Next]_vars

\* Where a request without a time-out is out: open_orders() and the rest of the
\* reconciliation, qualify() and the subscriptions after it.
Unbounded == {"reconciling", "spawn", "reconcile", "resubscribe"}

\* The event loop runs start() and the watchdog on, a dial, a probe and an account
\* request end by their time-out, and the container is restarted.  A request without
\* a time-out only has to end when its socket is lost: nothing says that IBKR answers
\* it.  Nor need the operator ever tap the push.
Fairness ==
  /\ WF_vars(Boot)
  /\ WF_vars(DialOk \/ DialFails)
  /\ WF_vars(AuthOk \/ AuthFails)
  /\ WF_vars(pc \notin Unbounded /\ (StartupAccount \/ StartupFails))
  /\ WF_vars(CheckOnce) /\ WF_vars(Redial)
  /\ WF_vars(ProbeOk \/ ProbeFails)
  /\ WF_vars(pc \notin Unbounded /\ (HookAccount \/ HookFails))
  /\ WF_vars(~socket /\ pc \in Unbounded /\ (StartupFails \/ HookFails))

FairSpec == Spec /\ Fairness

-----------------------------------------------------------------------------
\* The fields keep their types, and health stays one of ConnectionState's values.
TypeOK ==
  /\ pc \in {"off", "dial", "auth", "startup", "sleep", "probe", "backoff", "hook"}
           \cup Unbounded
  /\ health \in {"DISCONNECTED", "CONNECTING", "UNAUTHENTICATED", "CONNECTED"}
  /\ started \in BOOLEAN /\ twofa \in BOOLEAN /\ ready \in BOOLEAN
  /\ cycle \in BOOLEAN /\ socket \in BOOLEAN /\ session \in BOOLEAN
  /\ faults \in 0..MaxFaults

\* While IBKR wants its interactive login, the gate the decision loop waits on is
\* shut, whatever the reconciliation hook and the lost-connection handler did meanwhile.
GateShutFor2FA == twofa => ~ready

\* Trading resumes only on a live socket: a connection lost during a probe or during
\* the reconciliation hook does not leave the system tradeable when they end.
ResumesConnected == [][~is_tradeable /\ is_tradeable' => socket']_vars

\* A session that has died behind its healthy socket is noticed, and trading halts:
\* also when it dies during a probe, a login, or the hook's account request.  In the
\* rest of the hook it need not be noticed: connect() has set ready before the hook, and
\* no probe runs while the watchdog waits there for an answer that does not come.
DeadSessionHalts ==
  started /\ ~session /\ pc \notin Unbounded ~> session \/ ~is_tradeable

\* However often connecting, probing or reconciling fails, the watchdog (or a restart)
\* gets back to a connected, authenticated state, once the operator has logged in.
Reconnects == []<>session => []<>(socket /\ health = "CONNECTED")
=============================================================================

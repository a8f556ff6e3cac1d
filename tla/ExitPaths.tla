------------------------------- MODULE ExitPaths -------------------------------
(***************************************************************************)
(* The ways out of a position: the flattens of the fast loop and of the    *)
(* dashboard's kill button, the close the model or a person asks for, the  *)
(* expiry of stale orders, and the graceful shutdown, all on one symbol    *)
(* with one bracket resting at IBKR.                                       *)
(*                                                                         *)
(* Each task is a coroutine; what runs between two awaits is one action.   *)
(* The connection stays up (OrderManager has its loss), so no request      *)
(* raises.  Broker orders carry their order id: two rows cannot be told    *)
(* apart by a ref made of the second of the clock.  Simplifications: the   *)
(* entry is a long that fills share by share, an exit fills whole; the     *)
(* cancels of one pass go out together, oldest order first, for in between *)
(* rows only stop working; a request already under way is not repeated; a  *)
(* close takes the account of the moment it is judged (RiskGate has older  *)
(* ones).                                                                  *)
(***************************************************************************)
EXTENDS Integers, Sequences, FiniteSets

CONSTANTS
  Qty,         \* shares of the bracket
  Flatteners,  \* the tasks that flatten: the fast loop, a dashboard request
  Closers,     \* the tasks that close at the model's or a person's wish
  LastSecond,  \* bound: readings of the clock that names the exits
  MaxExits     \* bound: exits placed

ASSUME QtyAssumption == Qty \in Nat \ {0}
ASSUME TasksAssumption == IsFiniteSet(Flatteners) /\ IsFiniteSet(Closers)
ASSUME BoundAssumption == MaxExits \in Nat \ {0} /\ LastSecond \in Nat \ {0}

Tasks   == Flatteners \cup Closers
ENTRY   == 1
STOP    == 2
TARGET  == 3
Legs    == {STOP, TARGET}
Bracket == {ENTRY} \cup Legs
Ids     == 1..(3 + MaxExits)
Exits   == Ids \ Bracket

\* A bracket's order is named by its id, an exit by the second it was made in.
Seconds     == 1..LastSecond
exit_ref(t) == 3 + t
Refs        == Bracket \cup {exit_ref(t) : t \in Seconds}

VARIABLES
  phase,     \* "up", "stopping", "down"
  rows,      \* OrderManager.orders of the symbol, ref -> row
  account,   \* AppState.account: shares held at the last sync
  task,      \* the coroutines on a way out
  flatten,   \* why everything is to be closed: "no", "eod" (the minutes before the
             \* close) or "kill" (the kill switch, in flatten mode)
  second,    \* the clock that names exits
  pipe,      \* requests on the socket in order, each for a placement or a pass of cancels
  book,      \* the broker's orders
  position,  \* the broker's position
  nextId,    \* next order id
  taken      \* history: some exit path has begun

process == <<phase, rows, account, task, flatten, second>>
broker  == <<pipe, book, position, nextId>>
vars    == <<process, broker, taken>>

-----------------------------------------------------------------------------
NoRow      == [state |-> "NONE", id |-> 0, filled |-> 0]
PendingRow == [NoRow EXCEPT !.state = "PENDING"]

WorkingState    == {"PENDING", "SUBMITTED", "PARTIAL"}
working_orders  == {r \in Refs : rows[r].state \in WorkingState}
parent_ref(r)   == r \in Legs

NoOrder   == [ref |-> 0, st |-> "None", qty |-> 0, filled |-> 0]

\* Nobody has asked the broker to cancel order i; it may execute, the cancel of which
\* may be on its way through the exchange.
Resting(i) == book[i].st = "Submitted"
Live(i)    == Resting(i) \/ book[i].st = "PendingCancel"

\* A request for order i is on the socket.
Requested(kind, i) == \E k \in DOMAIN pipe : pipe[k].kind = kind /\ i \in pipe[k].ids

\* Mutant: the broker's status word is kept as the state.
RawReported(i) == [state |-> book[i].st, id |-> i, filled |-> book[i].filled]

\* _apply_status through _STATUS_MAP.
Reported(i) ==
  [state |-> IF book[i].filled > 0 /\ Live(i) THEN "PARTIAL"
             ELSE [Submitted |-> "SUBMITTED", PendingCancel |-> "SUBMITTED",
                   Filled |-> "FILLED", Cancelled |-> "CANCELLED"][book[i].st],
   id |-> i, filled |-> book[i].filled]

Idle == [pc |-> "idle", qty |-> 0, ref |-> 0]

\* Mutant: only orders that have not begun to fill are cancelled.
CancellableUnfilled(R) ==
  {rows[r].id : r \in {x \in R \cap working_orders : rows[x].id # 0 /\ rows[x].filled = 0}}

\* Orders of R that are working and whose order id is known.
Cancellable(R) == {rows[r].id : r \in {x \in R \cap working_orders : rows[x].id # 0}}

\* cancel_order of each id of I: looked up among the open trades, then sent.
cancel_order(I) ==
  LET wanted == {i \in I : (Resting(i) \/ Requested("place", i)) /\ ~Requested("cancel", i)}
  IN  IF wanted = {} THEN pipe ELSE Append(pipe, [kind |-> "cancel", ids |-> wanted])

-----------------------------------------------------------------------------
Init ==
  /\ phase = "up"
  /\ rows = [r \in Refs |-> IF r \in Bracket
                            THEN [state |-> "SUBMITTED", id |-> r, filled |-> 0] ELSE NoRow]
  /\ account = 0
  /\ task = [t \in Tasks |-> Idle]
  /\ flatten = "no"
  /\ second = 1
  /\ pipe = <<>>
  /\ book = [i \in Ids |-> IF i \in Bracket
                           THEN [ref |-> i, st |-> "Submitted", filled |-> 0,
                                 qty |-> IF i = ENTRY THEN Qty ELSE -Qty]
                           ELSE NoOrder]
  /\ position = 0
  /\ nextId = 4
  /\ taken = FALSE

(* The broker.                                                             *)

\* One share of the entry is bought.
BrokerFillEntry ==
  /\ Live(ENTRY)
  /\ book' = [book EXCEPT ![ENTRY].filled = @ + 1,
                          ![ENTRY].st = IF book[ENTRY].filled + 1 = Qty
                                        THEN "Filled" ELSE @]
  /\ position' = position + 1
  /\ UNCHANGED <<process, pipe, nextId, taken>>

\* A leg executes for what its parent bought, and the other is cancelled (OCA).
BrokerFillLeg(i) ==
  /\ Live(i) /\ ~Live(ENTRY) /\ book[ENTRY].filled > 0
  /\ book' = [j \in Ids |-> IF j = i THEN [book[j] EXCEPT !.st = "Filled",
                                                          !.filled = book[ENTRY].filled]
                            ELSE IF j \in Legs /\ Live(j) THEN [book[j] EXCEPT !.st = "Cancelled"]
                            ELSE book[j]]
  /\ position' = position - book[ENTRY].filled
  /\ UNCHANGED <<process, pipe, nextId, taken>>

BrokerFillExit(i) ==
  /\ Live(i)
  /\ book' = [book EXCEPT ![i].st = "Filled", ![i].filled = 1]
  /\ position' = position + book[i].qty
  /\ UNCHANGED <<process, pipe, nextId, taken>>

\* The next request arrives, for its oldest order.  A cancel is only accepted: until it
\* is done the order may execute.
BrokerReceive ==
  /\ pipe # <<>>
  /\ \E i \in Head(pipe).ids :
       /\ \A j \in Head(pipe).ids : i <= j
       /\ book' = IF Head(pipe).kind = "place" THEN [book EXCEPT ![i].st = "Submitted"]
                  ELSE IF Resting(i)           THEN [book EXCEPT ![i].st = "PendingCancel"]
                  ELSE book
       /\ pipe' = IF Head(pipe).ids = {i} THEN Tail(pipe)
                  ELSE [pipe EXCEPT ![1].ids = @ \ {i}]
  /\ UNCHANGED <<process, position, nextId, taken>>

\* A cancel is done; that of an unfilled parent takes its children with it.
BrokerCancel(i) ==
  /\ book[i].st = "PendingCancel"
  /\ book' = [j \in Ids |->
       IF Live(j) /\ (j = i \/ (i = ENTRY /\ j \in Legs /\ book[ENTRY].filled = 0))
       THEN [book[j] EXCEPT !.st = "Cancelled"] ELSE book[j]]
  /\ UNCHANGED <<process, pipe, position, nextId, taken>>

on_order_status(i) ==
  /\ phase # "down"
  /\ book[i].st \notin {"None", "Sent"}
  /\ rows[book[i].ref] # Reported(i)
  /\ rows' = [rows EXCEPT ![book[i].ref] = Reported(i)]
  /\ UNCHANGED <<phase, account, task, flatten, second, broker, taken>>

-----------------------------------------------------------------------------
(* The account, the clock and the switch.                                  *)

\* The account loop, or a cycle that begins.
SyncAccount ==
  /\ phase # "down" /\ account # position
  /\ account' = position
  /\ UNCHANGED <<phase, rows, task, flatten, second, broker, taken>>

WindowOpens ==
  /\ flatten = "no"
  /\ flatten' = "eod"
  /\ UNCHANGED <<phase, rows, account, task, second, broker, taken>>

Trip ==
  /\ phase # "down" /\ flatten # "kill"
  /\ flatten' = "kill"
  /\ UNCHANGED <<phase, rows, account, task, second, broker, taken>>

-----------------------------------------------------------------------------
(* The ways out.                                                           *)

Busy == {t \in Tasks : task[t].pc # "idle"}
ExitsLeft == nextId + Cardinality(Busy) <= 3 + MaxExits

\* _flatten_all: cancel_all_working, then close_position with the account's figure.
FlattenAll(t) ==
  /\ phase # "down" /\ task[t].pc = "idle" /\ ExitsLeft
  /\ flatten # "no"
  /\ account # 0
  /\ pipe' = cancel_order(Cancellable(Refs))
  /\ task' = [task EXCEPT ![t] = [Idle EXCEPT !.pc = "close", !.qty = account]]
  /\ taken' = TRUE
  /\ UNCHANGED <<phase, rows, account, flatten, second, book, position,
                 nextId>>

\* What evaluate_close reads besides the session and the quote.
EvaluateClose == flatten # "kill" /\ working_orders = {}

\* A close of the model's, or one a person approved, is let through.
HandleClose(t) ==
  /\ phase # "down" /\ task[t].pc = "idle" /\ ExitsLeft
  /\ account # 0
  /\ EvaluateClose
  /\ task' = [task EXCEPT ![t] = [Idle EXCEPT !.pc = "close", !.qty = account]]
  /\ taken' = TRUE
  /\ UNCHANGED <<phase, rows, account, flatten, second, broker>>

\* close_position up to its placement: cancel_symbol_orders, then a row whose ref
\* is made of the second.
ClosePosition(t) ==
  /\ task[t].pc = "close"
  /\ pipe' = cancel_order(Cancellable(Refs))
  /\ \E now \in {n \in Seconds : n >= second} :
       /\ second' = now
       /\ rows' = [rows EXCEPT ![exit_ref(now)] = PendingRow]
       /\ task' = [task EXCEPT ![t].pc = "send", ![t].ref = exit_ref(now)]
  /\ UNCHANGED <<phase, account, flatten, book, position, nextId, taken>>

\* place_single, and the status its caller applies.
SendExit(t) ==
  /\ task[t].pc = "send"
  /\ book' = [book EXCEPT ![nextId] = [ref |-> task[t].ref, st |-> "Sent",
                                       qty |-> -task[t].qty, filled |-> 0]]
  /\ pipe' = Append(pipe, [kind |-> "place", ids |-> {nextId}])
  /\ rows' = [rows EXCEPT ![task[t].ref] = [PendingRow EXCEPT !.id = nextId]]
  /\ nextId' = nextId + 1
  /\ task' = [task EXCEPT ![t] = Idle]
  /\ UNCHANGED <<phase, account, flatten, second, position, taken>>

\* Mutant: every working order that has not filled is stale.
StaleAnyOrder(r) == rows[r].filled = 0 /\ rows[r].id # 0

\* Mutant: an order is stale once the broker has confirmed nothing of it.
StaleUnconfirmed(r) == ~parent_ref(r) /\ rows[r].state = "PENDING" /\ rows[r].id # 0

Stale(r) == ~parent_ref(r) /\ rows[r].filled = 0 /\ rows[r].id # 0

\* _expire_stale_orders, between two flattens of the fast loop, on an order whose
\* time is up.
ExpireStale(r) ==
  /\ phase # "down"
  /\ \A t \in Flatteners \cap Busy : t # "fast"
  /\ r \in working_orders /\ Stale(r)
  /\ pipe' = cancel_order({rows[r].id})
  /\ pipe' # pipe
  /\ UNCHANGED <<process, book, position, nextId, taken>>

\* What shutdown_gracefully cancels.
Leaving == {rows[r].id : r \in {x \in working_orders : ~parent_ref(x) /\ rows[x].id # 0}}

ShutdownGracefully ==
  /\ phase = "up"
  /\ phase' = "stopping"
  /\ pipe' = cancel_order(Leaving)
  /\ UNCHANGED <<rows, account, task, flatten, second, book, position, nextId,
                 taken>>

\* stop(): the tasks are cancelled where they wait, and the socket is closed once
\* what was written to it is out.
Stop ==
  /\ phase = "stopping"
  /\ phase' = "down"
  /\ task' = [t \in Tasks |-> Idle]
  /\ UNCHANGED <<rows, account, flatten, second, broker, taken>>

-----------------------------------------------------------------------------
Next ==
  \/ BrokerFillEntry \/ BrokerReceive
  \/ \E i \in Legs : BrokerFillLeg(i)
  \/ \E i \in Exits : BrokerFillExit(i)
  \/ \E i \in Ids : BrokerCancel(i) \/ on_order_status(i)
  \/ SyncAccount \/ WindowOpens \/ Trip
  \/ \E t \in Flatteners : FlattenAll(t)
  \/ \E t \in Closers : HandleClose(t)
  \/ \E t \in Tasks : ClosePosition(t) \/ SendExit(t)
  \/ \E r \in Refs : ExpireStale(r)
  \/ ShutdownGracefully \/ Stop

Spec == Init /\ [][Next]_vars

\* The fast loop's coroutine goes on and its ticks come round, and the broker carries
\* out what it is asked.  Nothing is assumed of fills, events, syncs, trips or closes.
Fairness ==
  /\ WF_vars(BrokerReceive) /\ WF_vars(BrokerCancel(ENTRY))
  /\ WF_vars(\E t \in Flatteners : ClosePosition(t) \/ SendExit(t))
  /\ WF_vars(ExpireStale(ENTRY))

FairSpec == Spec /\ Fairness

-----------------------------------------------------------------------------
\* Every variable keeps its type.
TypeOK ==
  /\ phase \in {"up", "stopping", "down"}
  /\ rows \in [Refs -> [state : WorkingState \cup {"NONE", "FILLED", "CANCELLED"},
                        id : Ids \cup {0}, filled : 0..Qty]]
  /\ account \in Int /\ position \in Int
  /\ task \in [Tasks -> [pc : {"idle", "close", "send"}, qty : Int, ref : Refs \cup {0}]]
  /\ flatten \in {"no", "eod", "kill"} /\ taken \in BOOLEAN
  /\ second \in Seconds
  /\ pipe \in Seq([kind : {"place", "cancel"}, ids : SUBSET Ids])
  /\ book \in [Ids -> [ref : Refs \cup {0}, qty : Int, filled : 0..Qty,
                       st : {"None", "Sent", "Submitted", "PendingCancel", "Filled",
                             "Cancelled"}]]
  /\ nextId \in 4..(4 + MaxExits)

\* An exit comes to work only behind the cancels of the bracket: whichever tasks run,
\* however far the entry has filled and however late the rows are, close_position leaves
\* no order of the bracket at work that the broker has not been asked to cancel.  Until
\* it has done so, such an order and the exit may both execute.
CancelsComeFirst == (\E i \in Exits : Live(i)) => \A i \in Bracket : ~Resting(i)

\* While no exit path has begun, what was bought keeps its stop at the broker, and nobody
\* has asked for its cancel: the expiry and the shutdown take entries away, filled in part
\* or not, also when a fill overtakes the cancel, and never the legs of what they bought
\* ("protective legs stay until the position closes").
StopStays == position > 0 /\ ~taken => Resting(STOP)

\* An entry nobody fills does not outlive its timeout or its process: the expiry or
\* the shutdown gets it cancelled, unless it begins to fill (_expire_stale_orders,
\* shutdown_gracefully).
EntryExpires ==
  (Live(ENTRY) /\ book[ENTRY].filled = 0) ~> (~Live(ENTRY) \/ book[ENTRY].filled > 0)

Size(n) == IF n < 0 THEN -n ELSE n

\* The claim of evaluate_close, "closing risk isn't new risk": an exit that executes
\* leaves the account with less of the symbol than before.
ClosingIsNotNewRisk ==
  [][(\E i \in Exits : Live(i) /\ book'[i].st = "Filled") => Size(position') < Size(position)]_vars
=============================================================================

---------------------------- MODULE OrderManager ----------------------------
(***************************************************************************)
(* The order ledger of broker/orders.py: every order this system places,   *)
(* written ahead to the store, sent to IBKR, updated by its events, and    *)
(* rebuilt by reconcile() after a restart or a reconnect.                  *)
(*                                                                         *)
(* The program is one asyncio process: what runs between two awaits is one *)
(* action here, and every await is a point where any other action may      *)
(* happen.  The broker (book, wire, execs, position) is external, modelled *)
(* from how broker/ib_adapter.py uses it.                                  *)
(*                                                                         *)
(* Simplifications: entries are longs (shorts mirror them); an entry fills *)
(* share by share, an exit in one go; the legs of a bracket can execute    *)
(* once their parent has stopped filling; prices are left out.  The order  *)
(* id is reduced to whether the row knows it, and the 600s expiry of a     *)
(* symbol's block to a choice made whenever the code looks at the clock.   *)
(* The store does not fail, so no row of ours is ever unknown to it.       *)
(***************************************************************************)
EXTENDS Integers, Sequences, FiniteSets

CONSTANTS
  Symbols,        \* the symbols traded
  Cycles,         \* cycle ids of the brackets
  ProtectTags,    \* the "protect-<timestamp>" ids of recovered stops
  Qty,            \* shares of a bracket
  MaxCrashes,     \* bound: process deaths
  MaxDisconnects  \* bound: lost connections

ASSUME QtyAssumption == Qty \in Nat \ {0}
ASSUME TagsAssumption == Cycles \cap ProtectTags = {}
ASSUME BoundsAssumption == MaxCrashes \in Nat /\ MaxDisconnects \in Nat

VARIABLES
  \* the process
  phase,        \* "down", "starting" (start() has not spawned its loops), "running"
  orders,       \* OrderManager.orders: ref -> row
  blocked,      \* OrderManager.blocked_symbols
  calls,        \* place_bracket calls awaiting the adapter's pacer
  rec,          \* the reconcile() call in progress
  snap,         \* the positions in the account the decision at hand was given
  seen,         \* OrderManager._seen_exec_ids
  fills,        \* OrderManager.fills, as the number of entries per exec id
  \* durable
  store,        \* the orders table
  \* the connection and the broker
  conn,         \* the socket to IB Gateway
  wire,         \* order messages sent and not yet received by the broker
  cancels,      \* cancel requests sent and not yet processed
  book,         \* the broker's order book
  position,     \* the broker's positions
  execs,        \* the executions the broker has recorded
  \* bounds and history
  crashes, disconnects,
  sent          \* how often each ref was put on the wire

procVars   == <<phase, orders, blocked, calls, rec, snap, seen, fills>>
brokerVars == <<wire, cancels, book, position, execs>>
vars == <<procVars, store, conn, brokerVars, crashes, disconnects, sent>>

-----------------------------------------------------------------------------
(* References and rows.                                                    *)

make_ref(tag, s, kind) == <<tag, s, kind>>

BracketRefs == Cycles \X Symbols \X {"ENTRY", "STOP", "TARGET"}
ProtectRefs == ProtectTags \X Symbols \X {"STOP"}
Refs        == BracketRefs \cup ProtectRefs

Sym(r)    == r[2]
IsEntry(r) == r[3] = "ENTRY"
IsStop(r)  == r[3] = "STOP"
Legs(c, s) == {make_ref(c, s, k) : k \in {"ENTRY", "STOP", "TARGET"}}
Group(r)   == Legs(r[1], r[2])
Parent(r)  == make_ref(r[1], r[2], "ENTRY")
IsChild(r) == r \in BracketRefs /\ ~IsEntry(r)

OrderState   == {"PENDING", "SUBMITTED", "PARTIAL", "FILLED", "CANCELLED", "REJECTED"}
WorkingState == {"PENDING", "SUBMITTED", "PARTIAL"}

\* A row keeps its state, whether its ib_order_id is known, whether stop_price
\* and parent_ref are set, and filled_quantity.
NoRow == [state |-> "NONE", ib |-> FALSE, stop |-> FALSE, parent |-> FALSE, filled |-> 0]
Row   == [state : OrderState, ib : BOOLEAN, stop : BOOLEAN, parent : BOOLEAN,
          filled : Nat]

ManagedOrder(hasStop, hasParent) ==
  [state |-> "PENDING", ib |-> FALSE, stop |-> hasStop, parent |-> hasParent, filled |-> 0]

is_working(row) == row.state \in WorkingState

\* The entry row carries the bracket's stop price too.
BracketRow(r) == ManagedOrder(r[3] # "TARGET", ~IsEntry(r))

working_symbols == {Sym(r) : r \in {x \in Refs : is_working(orders[x])}}

(* The broker's book. *)

ExecIds == Refs \X (1..Qty)

Abs(n) == IF n < 0 THEN -n ELSE n

Absent == [st |-> "Absent", qty |-> 0, filled |-> 0]
BrokerOrder ==
  [st : {"Absent", "Held", "Submitted", "Filled", "Cancelled", "Inactive"},
   qty : Int, filled : Nat]

Live(r)      == book[r].st = "Submitted"
Completed(r) == book[r].st \in {"Filled", "Cancelled", "Inactive"}
OnWire(r)    == \E i \in DOMAIN wire : wire[i].ref = r

STATUS_MAP(status) ==
  CASE status \in {"PendingSubmit", "ApiPending"}                   -> "PENDING"
    [] status \in {"PendingCancel", "PreSubmitted", "Submitted"}    -> "SUBMITTED"
    [] status \in {"ApiCancelled", "Cancelled"}                     -> "CANCELLED"
    [] status = "Filled"                                            -> "FILLED"
    [] status = "Inactive"                                          -> "REJECTED"

\* Mutant: the broker's status string is stored without going through _STATUS_MAP.
ApplyRawStatus(row, status, filled) ==
  [row EXCEPT !.state = status, !.ib = TRUE, !.filled = filled]

\* _apply_status: an unknown ref of ours is adopted as a bare row; there is no
\* guard on the row's current state.
ApplyStatus(row, status, filled) ==
  LET mapped == STATUS_MAP(status)
      known  == IF row = NoRow THEN ManagedOrder(FALSE, FALSE) ELSE row
  IN  [known EXCEPT !.state = IF filled > 0 /\ mapped \notin {"FILLED", "CANCELLED"}
                              THEN "PARTIAL" ELSE mapped,
                    !.ib = TRUE,
                    !.filled = filled]

PlacedRow(row)      == ApplyStatus(row, "PendingSubmit", 0)
ReportedRow(row, o) == ApplyStatus(row, o.st, o.filled)

\* Mutant: the upsert only updates.
PersistUpdates(touched) ==
  store' = [r \in Refs |-> IF r \in touched /\ store[r] # NoRow THEN orders'[r] ELSE store[r]]

\* Mutant: only working rows are saved.
PersistWorking(touched) ==
  store' = [r \in Refs |-> IF r \in touched /\ is_working(orders'[r])
                           THEN orders'[r] ELSE store[r]]

\* _persist of the touched rows: an upsert by order_ref.
Persist(touched) ==
  store' = [r \in Refs |-> IF r \in touched THEN orders'[r] ELSE store[r]]

(* What the adapter answers; completed_orders() and executions() swallow a  *)
(* failure and answer nothing.                                             *)

account_snapshot == position

open_orders == [r \in Refs |-> IF Live(r) THEN book[r] ELSE Absent]

completed_orders(answered) == {r \in Refs : answered /\ Completed(r)}

executions(answered) == {e \in execs : answered}

\* cancel_order for each order of R; on a dead connection the errors are logged.
cancel_order(R) == cancels' = {r \in Refs : r \in cancels \/ (conn /\ r \in R)}

Idle == [pc |-> "idle", acct |-> [s \in Symbols |-> 0],
         open |-> [r \in Refs |-> Absent], todo |-> {}, ref |-> <<>>,
         unresolved |-> {}]

-----------------------------------------------------------------------------
Init ==
  /\ phase = "down"
  /\ orders = [r \in Refs |-> NoRow]
  /\ blocked = {}
  /\ calls = {}
  /\ rec = Idle
  /\ snap = [s \in Symbols |-> 0]
  /\ seen = {}
  /\ fills = [e \in ExecIds |-> 0]
  /\ store = [r \in Refs |-> NoRow]
  /\ conn = FALSE
  /\ wire = <<>>
  /\ cancels = {}
  /\ book = [r \in Refs |-> Absent]
  /\ position = [s \in Symbols |-> 0]
  /\ execs = {}
  /\ crashes = 0
  /\ disconnects = 0
  /\ sent = [r \in Refs |-> 0]

-----------------------------------------------------------------------------
(* Placement.                                                              *)

\* Mutant: check 20 looks at the account only.
NoPositionOnly(s) == snap[s] <= 0

\* Gate check 20: no working order of the symbol, no position to add to.
NotDuplicate(s) == s \notin working_symbols /\ snap[s] <= 0

\* Mutant: no idempotency check.
NeverPlaced(ref) == FALSE

\* The ref is known, in memory or in the store.
AlreadyPlaced(ref) == orders[ref] # NoRow \/ store[ref] # NoRow

\* The part of place_bracket before its first await, as RiskEngine.submit reaches
\* it: an expired block is lifted, a blocked symbol or a known ref is turned down.
place_bracket(c, s) ==
  /\ phase = "running"
  /\ NotDuplicate(s)
  /\ \E unexpired \in SUBSET blocked :
       /\ blocked' = unexpired
       /\ \/ /\ s \in unexpired \/ AlreadyPlaced(make_ref(c, s, "ENTRY"))
             /\ UNCHANGED <<orders, store, calls>>
          \/ /\ s \notin unexpired
             /\ ~AlreadyPlaced(make_ref(c, s, "ENTRY"))
             /\ orders' = [r \in Refs |-> IF r \in Legs(c, s) THEN BracketRow(r) ELSE orders[r]]
             /\ Persist(Legs(c, s))
             /\ calls' = calls \cup {<<c, s>>}
  /\ UNCHANGED <<phase, rec, snap, seen, fills, conn, brokerVars, crashes, disconnects, sent>>

\* _apply_common runs last and copies spec.transmit, which is TRUE for every leg.
Transmit(kind) == TRUE

Message(r, q) == [ref |-> r, qty |-> q, transmit |-> Transmit(r[3])]

\* The adapter's place_bracket after its pacer, back to back in one step with
\* the _apply_status calls of its caller: parent, target, stop.
SendBracket(c, s) ==
  /\ <<c, s>> \in calls
  /\ conn
  /\ calls' = calls \ {<<c, s>>}
  /\ wire' = wire \o <<Message(make_ref(c, s, "ENTRY"), Qty),
                       Message(make_ref(c, s, "TARGET"), -Qty),
                       Message(make_ref(c, s, "STOP"), -Qty)>>
  /\ sent' = [r \in Refs |-> IF r \in Legs(c, s) THEN sent[r] + 1 ELSE sent[r]]
  /\ orders' = [r \in Refs |-> IF r \in Legs(c, s) THEN PlacedRow(orders[r]) ELSE orders[r]]
  /\ Persist(Legs(c, s))
  /\ UNCHANGED <<phase, blocked, rec, snap, seen, fills, conn, cancels, book, position,
                 execs, crashes, disconnects>>

\* The adapter raises: the rows stay PENDING and the symbol is blocked.
SendBracketFails(c, s) ==
  /\ <<c, s>> \in calls
  /\ calls' = calls \ {<<c, s>>}
  /\ blocked' = blocked \cup {s}
  /\ UNCHANGED <<phase, orders, rec, snap, seen, fills, store, conn, brokerVars, crashes,
                 disconnects, sent>>

-----------------------------------------------------------------------------
(* The broker.                                                             *)

\* An order is accepted.  One that is not to be transmitted is held until a
\* transmitted one of its bracket arrives.
BrokerReceive ==
  /\ wire # <<>>
  /\ LET m == Head(wire)
     IN /\ IsChild(m.ref) => book[Parent(m.ref)].st \in {"Held", "Submitted", "Filled"}
        /\ book' = [r \in Refs |->
                      IF r = m.ref
                      THEN [st |-> IF m.transmit THEN "Submitted" ELSE "Held",
                            qty |-> m.qty, filled |-> 0]
                      ELSE IF m.transmit /\ r \in Group(m.ref) /\ book[r].st = "Held"
                      THEN [book[r] EXCEPT !.st = "Submitted"]
                      ELSE book[r]]
  /\ wire' = Tail(wire)
  /\ UNCHANGED <<procVars, store, conn, cancels, position, execs, crashes, disconnects, sent>>

\* An entry is refused, or a child whose parent was.
BrokerRefuse ==
  /\ wire # <<>>
  /\ LET m == Head(wire)
     IN /\ \/ IsEntry(m.ref)
           \/ IsChild(m.ref) /\ book[Parent(m.ref)].st \in {"Absent", "Cancelled", "Inactive"}
        /\ book' = [book EXCEPT ![m.ref] = [st |-> "Inactive", qty |-> m.qty, filled |-> 0]]
  /\ wire' = Tail(wire)
  /\ UNCHANGED <<procVars, store, conn, cancels, position, execs, crashes, disconnects, sent>>

\* One share of an entry is bought.
BrokerFillEntry(r) ==
  /\ IsEntry(r)
  /\ Live(r)
  /\ book' = [book EXCEPT ![r].filled = @ + 1,
                          ![r].st = IF book[r].filled + 1 = book[r].qty
                                    THEN "Filled" ELSE "Submitted"]
  /\ position' = [position EXCEPT ![Sym(r)] = @ + 1]
  /\ execs' = execs \cup {<<r, book[r].filled + 1>>}
  /\ UNCHANGED <<procVars, store, conn, wire, cancels, crashes, disconnects, sent>>

\* An exit executes whole; the other leg of its bracket is cancelled (OCA).
BrokerFillExit(r) ==
  /\ ~IsEntry(r)
  /\ Live(r)
  /\ IsChild(r) => /\ ~Live(Parent(r))
                   /\ book[Parent(r)].filled > 0
  /\ LET q == IF IsChild(r) THEN -book[Parent(r)].filled ELSE book[r].qty
     IN /\ book' = [x \in Refs |->
                      IF x = r THEN [book[r] EXCEPT !.st = "Filled", !.filled = Abs(q)]
                      ELSE IF IsChild(r) /\ IsChild(x) /\ x \in Group(r) /\ Live(x)
                      THEN [book[x] EXCEPT !.st = "Cancelled"]
                      ELSE book[x]]
        /\ position' = [position EXCEPT ![Sym(r)] = @ + q]
        /\ execs' = execs \cup {<<r, 1>>}
  /\ UNCHANGED <<procVars, store, conn, wire, cancels, crashes, disconnects, sent>>

\* A cancel request is processed; cancelling an unfilled parent takes its
\* children with it.
BrokerCancel(r) ==
  /\ r \in cancels
  /\ cancels' = cancels \ {r}
  /\ book' = [x \in Refs |->
                IF /\ Live(r) /\ Live(x)
                   /\ x = r \/ (IsEntry(r) /\ book[r].filled = 0 /\ x \in Group(r))
                THEN [book[x] EXCEPT !.st = "Cancelled"]
                ELSE book[x]]
  /\ UNCHANGED <<procVars, store, conn, wire, position, execs, crashes, disconnects, sent>>

-----------------------------------------------------------------------------
(* Events of the broker.                                                   *)

\* on_order_status
on_order_status(r) ==
  /\ phase # "down"
  /\ conn
  /\ Live(r) \/ Completed(r)
  /\ orders[r] # ReportedRow(orders[r], book[r])
  /\ orders' = [orders EXCEPT ![r] = ReportedRow(@, book[r])]
  /\ Persist({r})
  /\ UNCHANGED <<phase, blocked, calls, rec, snap, seen, fills, conn, brokerVars, crashes,
                 disconnects, sent>>

\* Mutant: no deduplication.
RecordedAgain(E) ==
  /\ seen' = seen \cup E
  /\ fills' = [e \in ExecIds |-> IF e \in E THEN fills[e] + 1 ELSE fills[e]]

\* on_execution for every execution of E, deduplicated by exec id.
Recorded(E) ==
  /\ seen' = seen \cup E
  /\ fills' = [e \in ExecIds |-> IF e \in E \ seen THEN fills[e] + 1 ELSE fills[e]]

on_execution(e) ==
  /\ phase # "down"
  /\ conn
  /\ e \in execs
  /\ Recorded({e})
  /\ UNCHANGED <<phase, orders, blocked, calls, rec, snap, store, conn, brokerVars, crashes,
                 disconnects, sent>>

\* The account a decision cycle fetches when it begins, and uses to the end.
FetchAccount ==
  /\ phase = "running"
  /\ conn
  /\ snap # account_snapshot
  /\ snap' = account_snapshot
  /\ UNCHANGED <<phase, orders, blocked, calls, rec, seen, fills, store, conn, brokerVars,
                 crashes, disconnects, sent>>

-----------------------------------------------------------------------------
(* Connection and process.                                                 *)

Disconnect ==
  /\ conn
  /\ disconnects < MaxDisconnects
  /\ disconnects' = disconnects + 1
  /\ conn' = FALSE
  /\ wire' = <<>>
  /\ cancels' = {}
  /\ UNCHANGED <<procVars, store, book, position, execs, crashes, sent>>

\* What dies with the process: its memory, its socket, what was still on it.
ProcessGone ==
  /\ phase' = "down"
  /\ orders' = [r \in Refs |-> NoRow]
  /\ blocked' = {}
  /\ calls' = {}
  /\ rec' = Idle
  /\ snap' = [s \in Symbols |-> 0]
  /\ seen' = {}
  /\ fills' = [e \in ExecIds |-> 0]
  /\ conn' = FALSE
  /\ wire' = <<>>
  /\ cancels' = {}

Crash ==
  /\ phase # "down"
  /\ crashes < MaxCrashes
  /\ crashes' = crashes + 1
  /\ ProcessGone
  /\ UNCHANGED <<store, book, position, execs, disconnects, sent>>

\* _reconcile() fetches the account first and hands it to reconcile().
BeginReconcile == rec' = [Idle EXCEPT !.pc = "open", !.acct = account_snapshot]

load_from_store == store

\* start(): connect, load_from_store, then the first reconciliation; the loops
\* are spawned when it is over.
Start ==
  /\ phase = "down"
  /\ phase' = "starting"
  /\ conn' = TRUE
  /\ orders' = load_from_store
  /\ snap' = account_snapshot
  /\ BeginReconcile
  /\ UNCHANGED <<blocked, calls, seen, fills, store, brokerVars, crashes, disconnects, sent>>

\* The watchdog reconnects and runs on_reconnect, while every loop goes on.  Its
\* backoff of seconds outlasts any wait for the pacer, so no call is left over.
Reconnect ==
  /\ phase = "running"
  /\ ~conn
  /\ rec.pc = "idle"
  /\ calls = {}
  /\ conn' = TRUE
  /\ BeginReconcile
  /\ UNCHANGED <<phase, orders, blocked, calls, snap, seen, fills, store, brokerVars, crashes,
                 disconnects, sent>>

-----------------------------------------------------------------------------
(* reconcile(), one action per stretch between two awaits.  Requests and   *)
(* orders share the socket, so an answer reflects every order sent before. *)

\* open_orders() answers.
ReconcileOpen ==
  /\ rec.pc = "open"
  /\ conn
  /\ wire = <<>>
  /\ \E unexpired \in SUBSET blocked : blocked' = unexpired
  /\ rec' = [rec EXCEPT !.pc = "completed", !.open = open_orders]
  /\ UNCHANGED <<phase, orders, calls, snap, seen, fills, store, conn, brokerVars, crashes,
                 disconnects, sent>>

\* open_orders() raises: the reconnect hook gives up, start() exits.
ReconcileOpenFails ==
  /\ rec.pc = "open"
  /\ IF phase = "starting"
     THEN ProcessGone
     ELSE /\ rec' = Idle
          /\ UNCHANGED <<phase, orders, blocked, calls, snap, seen, fills, conn, wire, cancels>>
  /\ UNCHANGED <<store, book, position, execs, crashes, disconnects, sent>>

\* Mutant: step 2 looks for the row among the completed orders only.
ResolvedByCompleted(r, completed) ==
  IF is_working(orders[r]) /\ r \notin completed
  THEN [orders[r] EXCEPT !.state = "CANCELLED"] ELSE orders[r]

\* Steps 1 and 2 on one row: absorb the open orders, then the completed ones we
\* know, then mark CANCELLED what is working and in neither answer.
Resolved(r, completed) ==
  LET isOpen   == rec.open[r] # Absent
      absorbed == IF isOpen THEN ReportedRow(orders[r], rec.open[r]) ELSE orders[r]
      row      == IF r \in completed /\ absorbed # NoRow
                  THEN ReportedRow(absorbed, book[r]) ELSE absorbed
  IN  IF is_working(row) /\ ~isOpen /\ r \notin completed
      THEN [row EXCEPT !.state = "CANCELLED"]
      ELSE row

\* completed_orders() answers; steps 1 and 2.
ReconcileResolve ==
  /\ rec.pc = "completed"
  /\ \E answered \in BOOLEAN :
       /\ answered => conn /\ wire = <<>>
       /\ orders' = [r \in Refs |-> Resolved(r, completed_orders(answered))]
  /\ Persist({r \in Refs : orders'[r] # orders[r]})
  /\ rec' = [rec EXCEPT !.pc = "exec"]
  /\ UNCHANGED <<phase, blocked, calls, snap, seen, fills, conn, brokerVars, crashes,
                 disconnects, sent>>

\* Mutant: a row protects its symbol whatever became of it.
EverProtected == {Sym(r) : r \in {x \in Refs : orders[x] # NoRow /\ orders[x].stop}}

protected == {Sym(r) : r \in {x \in Refs : is_working(orders[x]) /\ orders[x].stop}}

\* executions() answers; step 4 then lists the positions of
\* the account that no working row with a stop price protects.
ReconcileExecutions ==
  /\ rec.pc = "exec"
  /\ \E answered \in BOOLEAN :
       /\ answered => conn
       /\ Recorded(executions(answered))
  /\ rec' = [rec EXCEPT !.pc = "protect",
                        !.todo = {s \in Symbols : rec.acct[s] # 0 /\ s \notin protected}]
  /\ UNCHANGED <<phase, orders, blocked, calls, snap, store, conn, brokerVars, crashes,
                 disconnects, sent>>

\* _emit_protective_stop up to its await: the row is written ahead.
EmitProtectiveStop(s) ==
  /\ rec.pc = "protect"
  /\ s \in rec.todo
  /\ \E p \in ProtectTags :
       LET ref == make_ref(p, s, "STOP")
       IN /\ orders[ref] = NoRow /\ store[ref] = NoRow
          /\ orders' = [orders EXCEPT ![ref] = ManagedOrder(TRUE, TRUE)]
          /\ Persist({ref})
          /\ rec' = [rec EXCEPT !.pc = "send", !.ref = ref]
  /\ UNCHANGED <<phase, blocked, calls, snap, seen, fills, conn, brokerVars, crashes,
                 disconnects, sent>>

\* There is no reference price to place the stop at.
NoReferencePrice(s) ==
  /\ rec.pc = "protect"
  /\ s \in rec.todo
  /\ blocked' = blocked \cup {s}
  /\ rec' = [rec EXCEPT !.todo = @ \ {s}, !.unresolved = @ \cup {s}]
  /\ UNCHANGED <<phase, orders, calls, snap, seen, fills, store, conn, brokerVars, crashes,
                 disconnects, sent>>

\* _emit_protective_stop after its await: place_single and _apply_status.
SendProtectiveStop ==
  /\ rec.pc = "send"
  /\ conn
  /\ wire' = Append(wire, Message(rec.ref, -rec.acct[Sym(rec.ref)]))
  /\ sent' = [sent EXCEPT ![rec.ref] = @ + 1]
  /\ orders' = [orders EXCEPT ![rec.ref] = PlacedRow(@)]
  /\ Persist({rec.ref})
  /\ rec' = [rec EXCEPT !.pc = "protect", !.todo = @ \ {Sym(rec.ref)}, !.ref = <<>>]
  /\ UNCHANGED <<phase, blocked, calls, snap, seen, fills, conn, cancels, book, position,
                 execs, crashes, disconnects>>

\* place_single raises: the symbol is blocked, the row stays PENDING.
SendProtectiveStopFails ==
  /\ rec.pc = "send"
  /\ blocked' = blocked \cup {Sym(rec.ref)}
  /\ rec' = [rec EXCEPT !.pc = "protect", !.todo = @ \ {Sym(rec.ref)}, !.ref = <<>>,
                        !.unresolved = @ \cup {Sym(rec.ref)}]
  /\ UNCHANGED <<phase, orders, calls, snap, seen, fills, store, conn, brokerVars, crashes,
                 disconnects, sent>>

\* Step 5: working rows with a parent are cancelled for every symbol the account
\* does not hold.  Reconciliation is over, and start() spawns its loops.
Orphans == {r \in Refs : /\ is_working(orders[r])
                         /\ orders[r].parent
                         /\ rec.acct[Sym(r)] = 0
                         /\ orders[r].ib}

\* Mutant: the report must be clean before the loops may run.
ReconcileFinishClean ==
  /\ rec.pc = "protect"
  /\ rec.todo = {}
  /\ blocked = {}
  /\ rec' = Idle
  /\ phase' = "running"
  /\ UNCHANGED <<orders, blocked, calls, snap, seen, fills, store, conn, brokerVars,
                 crashes, disconnects, sent>>

ReconcileFinish ==
  /\ rec.pc = "protect"
  /\ rec.todo = {}
  /\ cancel_order(Orphans)
  /\ rec' = Idle
  /\ phase' = "running"
  /\ UNCHANGED <<orders, blocked, calls, snap, seen, fills, store, conn, wire, book, position,
                 execs, crashes, disconnects, sent>>

-----------------------------------------------------------------------------
Next ==
  \/ \E c \in Cycles, s \in Symbols :
       place_bracket(c, s) \/ SendBracket(c, s) \/ SendBracketFails(c, s)
  \/ BrokerReceive \/ BrokerRefuse
  \/ \E r \in Refs : \/ BrokerFillEntry(r) \/ BrokerFillExit(r) \/ BrokerCancel(r)
                     \/ on_order_status(r)
  \/ \E e \in ExecIds : on_execution(e)
  \/ FetchAccount
  \/ Disconnect \/ Reconnect \/ Crash \/ Start
  \/ ReconcileOpen \/ ReconcileOpenFails \/ ReconcileResolve \/ ReconcileExecutions
  \/ \E s \in Symbols : EmitProtectiveStop(s) \/ NoReferencePrice(s)
  \/ SendProtectiveStop \/ SendProtectiveStopFails
  \/ ReconcileFinish

Spec == Init /\ [][Next]_vars

-----------------------------------------------------------------------------
WireMessage == [ref : Refs, qty : Int, transmit : BOOLEAN]

RecType ==
  [pc : {"idle", "open", "completed", "exec", "protect", "send"},
   acct : [Symbols -> Int],
   open : [Refs -> BrokerOrder],
   todo : SUBSET Symbols,
   ref : Refs \cup {<<>>},
   unresolved : SUBSET Symbols]

\* Every variable keeps its type: in particular a row only ever holds a state of
\* the OrderState enum, which load_from_store needs to read it back.
TypeOK ==
  /\ phase \in {"down", "starting", "running"}
  /\ orders \in [Refs -> Row \cup {NoRow}]
  /\ blocked \subseteq Symbols
  /\ calls \subseteq Cycles \X Symbols
  /\ rec \in RecType
  /\ snap \in [Symbols -> Int]
  /\ seen \subseteq ExecIds
  /\ fills \in [ExecIds -> Nat]
  /\ store \in [Refs -> Row \cup {NoRow}]
  /\ conn \in BOOLEAN
  /\ wire \in Seq(WireMessage)
  /\ cancels \subseteq Refs
  /\ book \in [Refs -> BrokerOrder]
  /\ position \in [Symbols -> Int]
  /\ execs \subseteq ExecIds
  /\ crashes \in Nat
  /\ disconnects \in Nat
  /\ sent \in [Refs -> Nat]

\* Write-ahead: whatever is on its way to the broker or known to it has a row in
\* the store, so a restart at any point knows to look for it (place_bracket and
\* _emit_protective_stop persist before they send).
WriteAhead ==
  \A r \in Refs : OnWire(r) \/ book[r].st # "Absent" => store[r] # NoRow

\* The rows of a live process are those a crash would leave behind: no code path
\* changes a row without saving it.
StoreMirrorsMemory == phase # "down" => orders = store

\* The write-ahead ledger that the order manager implements: an order is intended
\* (its row is stored) at most once, and sent at most once and only after that,
\* through every crash, restart and reconciliation.
Ledger == INSTANCE WriteAheadLedger WITH intended <- {r \in Refs : store[r] # NoRow}
AtMostOnce == Ledger!Spec

\* A fill enters the process's fill list once, although the broker delivers an
\* execution as an event and again in every reconciliation (on_execution dedupes).
FillsOnce == \A e \in ExecIds : fills[e] <= 1

InFlight(s) == {r \in Refs : IsEntry(r) /\ Sym(r) = s /\ (Live(r) \/ OnWire(r))}

\* Never two entry orders of a symbol at work at the broker: check 20, the write-ahead
\* row and reconciliation together keep a restart from doubling a position.
LoneEntry == \A s \in Symbols : Cardinality(InFlight(s)) <= 1

\* An order whose row says CANCELLED is neither working at the broker nor on its way
\* there (reconcile step 2: "Marking it cancelled is safe").
CancelledIsDead ==
  \A r \in Refs : orders[r].state = "CANCELLED" => ~Live(r) /\ ~OnWire(r)

StopResting(s) == \E r \in Refs : IsStop(r) /\ Sym(r) = s /\ (Live(r) \/ OnWire(r))

\* An entry of s may still fill, or an order of s has changed since open_orders() answered.
Moving(s) ==
  \E r \in Refs :
    /\ Sym(r) = s
    /\ \/ IsEntry(r) /\ is_working(orders[r])
       \/ rec.open[r] # Absent /\ book[r] # rec.open[r]

\* Step 4 of reconcile passes over no position whose stop is not at the broker: a row
\* that was written ahead and never sent, or whose order is over, protects nothing.
\* The row of an entry does count, and a stop may fire in between.
ReconcileProtects ==
  [][rec.pc = "exec" /\ rec'.pc = "protect" =>
       \A s \in Symbols :
         rec.acct[s] # 0 /\ ~Moving(s) => StopResting(s) \/ s \in rec'.todo]_vars

\* A reconciliation that has its answers ends, and so does one whose connection is lost
\* at any of its awaits, however often placing a stop fails.  Its queries have no
\* time-out: on a socket that stays up and never answers, reconcile() waits for ever,
\* and the loops behind it.
ReconcileTerminates ==
  (rec.pc \in {"protect", "send"} \/ (rec.pc # "idle" /\ ~conn)) ~> rec.pc = "idle"

\* The event loop goes on running the coroutine of reconcile() once it can go on: a
\* lost socket fails its queries (an answer that is an error), and behind them it waits
\* for the pacer only.  Nothing is assumed of answers on a live socket, of the broker, of
\* fills, of new decisions, or of which outcome a request has.
Fairness ==
  /\ WF_vars(~conn /\ ReconcileOpenFails)
  /\ WF_vars(~conn /\ ReconcileResolve)
  /\ WF_vars(~conn /\ ReconcileExecutions)
  /\ WF_vars(\E s \in Symbols : EmitProtectiveStop(s) \/ NoReferencePrice(s))
  /\ WF_vars(SendProtectiveStop \/ SendProtectiveStopFails)
  /\ WF_vars(ReconcileFinish)

FairSpec == Spec /\ Fairness
=============================================================================

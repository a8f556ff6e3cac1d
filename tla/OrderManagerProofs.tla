------------------------- MODULE OrderManagerProofs -------------------------
(***************************************************************************)
(* Theorems about OrderManager, for every set of symbols, cycle ids and    *)
(* protective tags, every quantity and any number of crashes and lost      *)
(* connections.                                                            *)
(***************************************************************************)
EXTENDS OrderManager, FiniteSetTheorems, TLAPS

-----------------------------------------------------------------------------
(* Rows, refs and messages.                                                *)

\* The statuses that _apply_status is ever handed.
Statuses == {"PendingSubmit", "Submitted", "Filled", "Cancelled", "Inactive"}

\* _apply_status turns a row, or its absence, into a row with an OrderState.
LEMMA ApplyStatusRow ==
  ASSUME NEW row \in Row \cup {NoRow}, NEW st \in Statuses, NEW n \in Nat
  PROVE  ApplyStatus(row, st, n) \in Row
<1> DEFINE known == IF row = NoRow THEN ManagedOrder(FALSE, FALSE) ELSE row
<1>1. known \in Row
  BY DEF Row, NoRow, ManagedOrder, OrderState
<1>2. STATUS_MAP(st) \in OrderState
  BY DEF Statuses, STATUS_MAP, OrderState
<1> DEFINE state == IF n > 0 /\ STATUS_MAP(st) \notin {"FILLED", "CANCELLED"}
                    THEN "PARTIAL" ELSE STATUS_MAP(st)
<1>3. state \in OrderState
  BY <1>2 DEF OrderState
<1>4. ApplyStatus(row, st, n) = [known EXCEPT !.state = state, !.ib = TRUE, !.filled = n]
  BY DEF ApplyStatus
<1> HIDE DEF known, state
<1> QED BY <1>1, <1>3, <1>4 DEF Row

\* A row is not the absence of one.
LEMMA RowIsNotNoRow == \A row \in Row : row # NoRow
BY DEF Row, NoRow, OrderState

\* The legs of a bracket are refs of that cycle and symbol.
LEMMA LegsAreRefs ==
  ASSUME NEW c \in Cycles, NEW s \in Symbols
  PROVE  /\ Legs(c, s) \subseteq BracketRefs
         /\ Legs(c, s) \subseteq Refs
         /\ \A k \in {"ENTRY", "STOP", "TARGET"} : make_ref(c, s, k) \in Legs(c, s)
BY DEF Legs, make_ref, Refs, BracketRefs

\* A bracket's ref is never that of a protective stop: the tags differ.
LEMMA RefsDisjoint == BracketRefs \cap ProtectRefs = {}
BY TagsAssumption DEF BracketRefs, ProtectRefs

LEMMA RefTypes ==
  ASSUME NEW r \in Refs
  PROVE  /\ Sym(r) \in Symbols
         /\ r[3] \in {"ENTRY", "STOP", "TARGET"}
         /\ IsEntry(r) => r \in BracketRefs
BY DEF Refs, BracketRefs, ProtectRefs, Sym, IsEntry

LEMMA MessageType ==
  ASSUME NEW r \in Refs, NEW q \in Int
  PROVE  /\ Message(r, q) \in WireMessage
         /\ Message(r, q).ref = r
         /\ Message(r, q).qty = q
BY DEF Message, WireMessage, Transmit

\* What is appended to the wire is on it, with what was there.
LEMMA Appended ==
  ASSUME NEW w \in Seq(WireMessage), NEW t \in Seq(WireMessage)
  PROVE  /\ w \o t \in Seq(WireMessage)
         /\ \A i \in DOMAIN (w \o t) : \/ i \in DOMAIN w /\ (w \o t)[i] = w[i]
                                       \/ \E j \in DOMAIN t : (w \o t)[i] = t[j]
<1>1. w \o t \in Seq(WireMessage)
  OBVIOUS
<1>2. ASSUME NEW i \in DOMAIN (w \o t)
      PROVE  \/ i \in DOMAIN w /\ (w \o t)[i] = w[i]
             \/ \E j \in DOMAIN t : (w \o t)[i] = t[j]
  <2>1. i \in 1..(Len(w) + Len(t))
    OBVIOUS
  <2>2. CASE i <= Len(w)
    BY <2>1, <2>2
  <2>3. CASE i > Len(w)
    <3>1. i - Len(w) \in DOMAIN t /\ (w \o t)[i] = t[i - Len(w)]
      BY <2>1, <2>3
    <3> QED BY <3>1
  <2> QED BY <2>1, <2>2, <2>3
<1> QED BY <1>1, <1>2

LEMMA Received ==
  ASSUME NEW w \in Seq(WireMessage), w # <<>>
  PROVE  /\ Tail(w) \in Seq(WireMessage)
         /\ Head(w) \in WireMessage
         /\ 1 \in DOMAIN w /\ Head(w) = w[1]
         /\ \A i \in DOMAIN Tail(w) : i + 1 \in DOMAIN w /\ Tail(w)[i] = w[i + 1]
OBVIOUS

-----------------------------------------------------------------------------
(* Type correctness.  A row only receives a mapped status if the broker    *)
(* reports one, and an execution id only stays in range if an entry at     *)
(* work has shares left: the type invariant needs both.                    *)

WireSound == \A i \in DOMAIN wire : IsEntry(wire[i].ref) => wire[i].qty = Qty

BookSound ==
  \A r \in Refs : IsEntry(r) /\ book[r].st \in {"Held", "Submitted"}
                    => book[r].qty = Qty /\ book[r].filled < Qty

OpenSound == \A r \in Refs : rec.open[r] # Absent => rec.open[r].st = "Submitted"

SendSound == rec.pc = "send" => rec.ref \in ProtectRefs

TypeInv == TypeOK /\ WireSound /\ BookSound /\ OpenSound /\ SendSound

LEMMA IdleType == Idle \in RecType /\ Idle.pc = "idle" /\ \A r \in Refs : Idle.open[r] = Absent
<1>1. Absent \in BrokerOrder
  BY DEF Absent, BrokerOrder
<1> QED BY <1>1 DEF Idle, RecType

LEMMA EmptyWire ==
  ASSUME NEW w, w = <<>>
  PROVE  w \in Seq(WireMessage) /\ \A i \in DOMAIN w : FALSE
OBVIOUS

LEMMA TypeInit == Init => TypeInv
<1> SUFFICES ASSUME Init PROVE TypeInv OBVIOUS
<1> USE DEF Init
<1>1. Absent \in BrokerOrder /\ Absent.st = "Absent"
  BY DEF Absent, BrokerOrder
<1>2. TypeOK
  <2>1. wire \in Seq(WireMessage)
    BY EmptyWire
  <2>2. rec \in RecType
    BY IdleType
  <2>3. orders \in [Refs -> Row \cup {NoRow}] /\ store \in [Refs -> Row \cup {NoRow}]
    OBVIOUS
  <2>4. book \in [Refs -> BrokerOrder]
    BY <1>1
  <2>5. conn \in BOOLEAN
    OBVIOUS
  <2> QED BY <2>1, <2>2, <2>3, <2>4, <2>5 DEF TypeOK
<1>3. WireSound /\ BookSound
  BY <1>1 DEF WireSound, BookSound
<1>4. OpenSound /\ SendSound
  BY IdleType DEF OpenSound, SendSound
<1> QED BY <1>2, <1>3, <1>4 DEF TypeInv

\* Reconcile steps 1 and 2 turn a row into a row, and make one only of an order
\* that open_orders() reported.
LEMMA ResolvedRow ==
  ASSUME TypeOK, OpenSound, NEW r \in Refs, NEW C, C \subseteq {x \in Refs : Completed(x)}
  PROVE  /\ Resolved(r, C) \in Row \cup {NoRow}
         /\ orders[r] # NoRow => Resolved(r, C) # NoRow
         /\ orders[r] = NoRow /\ rec.open[r] = Absent => Resolved(r, C) = NoRow
<1> DEFINE absorbed == IF rec.open[r] # Absent
                       THEN ReportedRow(orders[r], rec.open[r]) ELSE orders[r]
           row == IF r \in C /\ absorbed # NoRow THEN ReportedRow(absorbed, book[r])
                  ELSE absorbed
<1>1. absorbed \in Row \cup {NoRow} /\ (orders[r] # NoRow => absorbed \in Row)
  BY ApplyStatusRow DEF ReportedRow, Statuses, TypeOK, OpenSound, RecType, BrokerOrder
<1>2. ASSUME r \in C PROVE book[r].st \in Statuses /\ book[r].filled \in Nat
  BY <1>2 DEF Completed, Statuses, TypeOK, BrokerOrder
<1>3. orders[r] = NoRow /\ rec.open[r] = Absent => absorbed = NoRow
  OBVIOUS
<1> HIDE DEF absorbed
<1>4. row \in Row \cup {NoRow} /\ (orders[r] # NoRow => row \in Row)
  BY <1>1, <1>2, ApplyStatusRow DEF ReportedRow
<1>5. absorbed = NoRow => row = NoRow
  OBVIOUS
<1> HIDE DEF row
<1>6. [row EXCEPT !.state = "CANCELLED"] \in Row
  <2>1. CASE row = NoRow
    BY <2>1 DEF Row, NoRow, OrderState
  <2>2. CASE row \in Row
    BY <2>2 DEF Row, OrderState
  <2> QED BY <1>4, <2>1, <2>2
<1>7. /\ Resolved(r, C) \in {row, [row EXCEPT !.state = "CANCELLED"]}
      /\ ~is_working(row) => Resolved(r, C) = row
  BY DEF Resolved, row, absorbed
<1>8. ~is_working(NoRow)
  BY DEF is_working, NoRow, WorkingState
<1> QED BY <1>3, <1>4, <1>5, <1>6, <1>7, <1>8, RowIsNotNoRow

LEMMA TypeNext == TypeInv /\ [Next]_vars => TypeInv'
<1> SUFFICES ASSUME TypeInv, [Next]_vars PROVE TypeInv'
  OBVIOUS
<1> USE DEF TypeInv
<1>1. ASSUME NEW c \in Cycles, NEW s \in Symbols, place_bracket(c, s) PROVE TypeInv'
  <2>1. \A r \in Refs : BracketRow(r) \in Row
    BY DEF BracketRow, ManagedOrder, Row, OrderState, IsEntry
  <2>2. orders' \in [Refs -> Row \cup {NoRow}] /\ store' \in [Refs -> Row \cup {NoRow}]
    <3>1. CASE UNCHANGED <<orders, store>>
      BY <3>1 DEF TypeOK
    <3>2. CASE /\ orders' = [r \in Refs |->
                             IF r \in Legs(c, s) THEN BracketRow(r) ELSE orders[r]]
               /\ Persist(Legs(c, s))
      BY <2>1, <3>2 DEF Persist, TypeOK
    <3> QED BY <1>1, <3>1, <3>2 DEF place_bracket
  <2>3. blocked' \subseteq Symbols /\ calls' \subseteq Cycles \X Symbols
    BY <1>1 DEF place_bracket, TypeOK
  <2> QED BY <1>1, <2>2, <2>3
          DEF place_bracket, brokerVars, TypeOK, WireSound, BookSound, OpenSound, SendSound
<1>2. ASSUME NEW c \in Cycles, NEW s \in Symbols, SendBracket(c, s) PROVE TypeInv'
  <2> DEFINE t == <<Message(make_ref(c, s, "ENTRY"), Qty),
                    Message(make_ref(c, s, "TARGET"), -Qty),
                    Message(make_ref(c, s, "STOP"), -Qty)>>
  <2>1. /\ make_ref(c, s, "ENTRY") \in Refs /\ make_ref(c, s, "TARGET") \in Refs
        /\ make_ref(c, s, "STOP") \in Refs
        /\ ~IsEntry(make_ref(c, s, "TARGET")) /\ ~IsEntry(make_ref(c, s, "STOP"))
    BY DEF make_ref, Refs, BracketRefs, IsEntry
  <2>2. /\ t \in Seq(WireMessage)
        /\ \A j \in DOMAIN t : IsEntry(t[j].ref) => t[j].qty = Qty
    BY <2>1, MessageType, QtyAssumption
  <2>3. wire' = wire \o t
    BY <1>2 DEF SendBracket
  <2> HIDE DEF t
  <2>4. wire' \in Seq(WireMessage) /\ WireSound'
    BY <2>2, <2>3, Appended DEF TypeOK, WireSound
  <2>5. \A r \in Refs : PlacedRow(orders[r]) \in Row
    BY ApplyStatusRow DEF PlacedRow, TypeOK, Statuses
  <2>6. orders' \in [Refs -> Row \cup {NoRow}] /\ store' \in [Refs -> Row \cup {NoRow}]
    BY <1>2, <2>5 DEF SendBracket, Persist, TypeOK
  <2>7. sent' \in [Refs -> Nat] /\ calls' \subseteq Cycles \X Symbols
    BY <1>2 DEF SendBracket, TypeOK
  <2> QED BY <1>2, <2>4, <2>6, <2>7
          DEF SendBracket, TypeOK, BookSound, OpenSound, SendSound
<1>3. ASSUME NEW c \in Cycles, NEW s \in Symbols, SendBracketFails(c, s) PROVE TypeInv'
  BY <1>3 DEF SendBracketFails, brokerVars, TypeOK, WireSound, BookSound, OpenSound, SendSound
<1>4. CASE BrokerReceive
  <2> DEFINE m == Head(wire)
  <2>1. /\ m \in WireMessage /\ 1 \in DOMAIN wire /\ m = wire[1]
        /\ Tail(wire) \in Seq(WireMessage)
        /\ \A i \in DOMAIN Tail(wire) : i + 1 \in DOMAIN wire /\ Tail(wire)[i] = wire[i + 1]
    BY <1>4, Received DEF BrokerReceive, TypeOK
  <2>2. wire' \in Seq(WireMessage) /\ WireSound'
    BY <1>4, <2>1 DEF BrokerReceive, WireSound
  <2>3. IsEntry(m.ref) => m.qty = Qty
    BY <2>1 DEF WireSound
  <2>4. m.ref \in Refs /\ m.qty \in Int
    BY <2>1 DEF WireMessage
  <2>5. book' = [r \in Refs |->
                   IF r = m.ref
                   THEN [st |-> IF m.transmit THEN "Submitted" ELSE "Held",
                         qty |-> m.qty, filled |-> 0]
                   ELSE IF m.transmit /\ r \in Group(m.ref) /\ book[r].st = "Held"
                   THEN [book[r] EXCEPT !.st = "Submitted"]
                   ELSE book[r]]
    BY <1>4 DEF BrokerReceive
  <2> HIDE DEF m
  <2>6. book' \in [Refs -> BrokerOrder]
    <3>1. book \in [Refs -> BrokerOrder]
      BY DEF TypeOK
    <3>2. \A st \in {"Submitted", "Held"} :
            [st |-> st, qty |-> m.qty, filled |-> 0] \in BrokerOrder
      BY ONLY <2>4 DEF BrokerOrder
    <3>3. \A r \in Refs : [book[r] EXCEPT !.st = "Submitted"] \in BrokerOrder
      BY ONLY <3>1 DEF BrokerOrder
    <3> QED
      BY ONLY <2>5, <3>1, <3>2, <3>3
  <2>7. BookSound'
    BY <2>3, <2>4, <2>5, QtyAssumption DEF BookSound, TypeOK, BrokerOrder
  <2> QED BY <1>4, <2>2, <2>6, <2>7
          DEF BrokerReceive, procVars, TypeOK, OpenSound, SendSound
<1>5. CASE BrokerRefuse
  <2>1. /\ Head(wire) \in WireMessage
        /\ Tail(wire) \in Seq(WireMessage)
        /\ \A i \in DOMAIN Tail(wire) : i + 1 \in DOMAIN wire /\ Tail(wire)[i] = wire[i + 1]
    BY <1>5, Received DEF BrokerRefuse, TypeOK
  <2>2. wire' \in Seq(WireMessage) /\ WireSound'
    BY <1>5, <2>1 DEF BrokerRefuse, WireSound
  <2>3. book' \in [Refs -> BrokerOrder] /\ BookSound'
    BY <1>5, <2>1 DEF BrokerRefuse, TypeOK, BookSound, BrokerOrder, WireMessage
  <2> QED BY <1>5, <2>2, <2>3
          DEF BrokerRefuse, procVars, TypeOK, OpenSound, SendSound
<1>6. ASSUME NEW r \in Refs, BrokerFillEntry(r) PROVE TypeInv'
  <2>1. book[r] \in BrokerOrder /\ book[r].qty = Qty /\ book[r].filled < Qty
    BY <1>6 DEF BrokerFillEntry, Live, TypeOK, BookSound
  <2>2. <<r, book[r].filled + 1>> \in ExecIds
    BY <2>1, QtyAssumption DEF ExecIds, BrokerOrder
  <2>3. book' \in [Refs -> BrokerOrder] /\ BookSound'
    <3> DEFINE st == IF book[r].filled + 1 = book[r].qty THEN "Filled" ELSE "Submitted"
    <3>1. book' = [x \in Refs |-> IF x = r
                                  THEN [book[r] EXCEPT !.filled = book[r].filled + 1, !.st = st]
                                  ELSE book[x]]
      BY <1>6 DEF BrokerFillEntry, TypeOK
    <3>2. st \in {"Filled", "Submitted"} /\ (st = "Submitted" => book[r].filled + 1 < Qty)
      BY <2>1, QtyAssumption DEF BrokerOrder
    <3> HIDE DEF st
    <3>3. book' \in [Refs -> BrokerOrder]
      <4>1. [book[r] EXCEPT !.filled = book[r].filled + 1, !.st = st] \in BrokerOrder
        <5> DEFINE n == book[r].filled + 1
        <5>1. n \in Nat
          BY <2>1 DEF BrokerOrder
        <5> HIDE DEF n
        <5>2. [book[r] EXCEPT !.filled = n, !.st = st] \in BrokerOrder
          BY <2>1, <3>2, <5>1 DEF BrokerOrder
        <5> QED BY <5>2 DEF n
      <4> QED BY <3>1, <4>1 DEF TypeOK
    <3>4. BookSound'
      BY <2>1, <3>1, <3>2 DEF TypeOK, BookSound, BrokerOrder
    <3> QED BY <3>3, <3>4
  <2>4. position' \in [Symbols -> Int]
    BY <1>6, RefTypes DEF BrokerFillEntry, TypeOK
  <2> QED BY <1>6, <2>2, <2>3, <2>4
          DEF BrokerFillEntry, procVars, TypeOK, WireSound, OpenSound, SendSound
<1>7. ASSUME NEW r \in Refs, BrokerFillExit(r) PROVE TypeInv'
  <2> DEFINE q == IF IsChild(r) THEN -book[Parent(r)].filled ELSE book[r].qty
  <2>1. IsChild(r) => Parent(r) \in Refs
    BY DEF IsChild, Parent, make_ref, Refs, BracketRefs
  <2>2. q \in Int /\ Abs(q) \in Nat
    BY <2>1 DEF TypeOK, BrokerOrder, Abs
  <2>3. /\ book' = [x \in Refs |->
                      IF x = r THEN [book[r] EXCEPT !.st = "Filled", !.filled = Abs(q)]
                      ELSE IF IsChild(r) /\ IsChild(x) /\ x \in Group(r) /\ Live(x)
                      THEN [book[x] EXCEPT !.st = "Cancelled"]
                      ELSE book[x]]
        /\ position' = [position EXCEPT ![Sym(r)] = @ + q]
        /\ execs' = execs \cup {<<r, 1>>}
    BY <1>7 DEF BrokerFillExit
  <2> HIDE DEF q
  <2>4. book' \in [Refs -> BrokerOrder] /\ BookSound'
    <3>0. book \in [Refs -> BrokerOrder]
      BY DEF TypeOK
    <3>1. book' \in [Refs -> BrokerOrder]
      <4>1. [book[r] EXCEPT !.st = "Filled", !.filled = Abs(q)] \in BrokerOrder
        BY ONLY <1>7, <2>2, <3>0 DEF BrokerOrder
      <4>2. \A x \in Refs : [book[x] EXCEPT !.st = "Cancelled"] \in BrokerOrder
        BY ONLY <3>0 DEF BrokerOrder
      <4> QED
        BY ONLY <2>3, <3>0, <4>1, <4>2
    <3>2. ASSUME NEW x \in Refs
          PROVE  \/ book'[x] = book[x]
                 \/ book'[x].st \in {"Filled", "Cancelled"}
      <4>1. /\ [book[r] EXCEPT !.st = "Filled", !.filled = Abs(q)].st = "Filled"
            /\ [book[x] EXCEPT !.st = "Cancelled"].st = "Cancelled"
        BY ONLY <1>7, <3>0, <3>2 DEF BrokerOrder
      <4> QED
        BY ONLY <2>3, <3>2, <4>1
    <3> QED BY <3>1, <3>2 DEF BookSound
  <2>5. position' \in [Symbols -> Int] /\ execs' \subseteq ExecIds
    <3>1. position \in [Symbols -> Int] /\ execs \subseteq ExecIds /\ Sym(r) \in Symbols
      BY RefTypes DEF TypeOK
    <3>2. <<r, 1>> \in ExecIds
      BY ONLY <1>7, QtyAssumption DEF ExecIds
    <3>3. position[Sym(r)] + q \in Int
      BY ONLY <2>2, <3>1
    <3> QED
      BY ONLY <2>3, <3>1, <3>2, <3>3
  <2>6. UNCHANGED <<procVars, store, wire, cancels, conn, crashes, disconnects, sent>>
    BY ONLY <1>7 DEF BrokerFillExit
  <2>7. WireSound' /\ OpenSound' /\ SendSound'
    BY ONLY <2>6, TypeInv DEF procVars, WireSound, OpenSound, SendSound
  <2>8. TypeOK'
    BY ONLY TypeOK, <2>4, <2>5, <2>6 DEF procVars, TypeOK
  <2> QED BY ONLY <2>4, <2>7, <2>8
<1>8. ASSUME NEW r \in Refs, BrokerCancel(r) PROVE TypeInv'
  <2>1. book' \in [Refs -> BrokerOrder] /\ BookSound'
    <3>1. book \in [Refs -> BrokerOrder] /\ BookSound
      BY DEF TypeOK
    <3>2. \A x \in Refs : [book[x] EXCEPT !.st = "Cancelled"] \in BrokerOrder
      BY ONLY <3>1 DEF BrokerOrder
    <3>3. \A x \in Refs : book'[x] \in {book[x], [book[x] EXCEPT !.st = "Cancelled"]}
      BY ONLY <1>8 DEF BrokerCancel
    <3>4. book' \in [Refs -> BrokerOrder]
      <4>1. \A x \in Refs : book'[x] \in BrokerOrder
        BY ONLY <3>1, <3>2, <3>3
      <4>2. book' = [x \in Refs |-> book'[x]]
        BY ONLY <1>8 DEF BrokerCancel
      <4> QED BY ONLY <4>1, <4>2
    <3>5. \A x \in Refs : [book[x] EXCEPT !.st = "Cancelled"].st = "Cancelled"
      BY ONLY <3>1 DEF BrokerOrder
    <3>6. BookSound'
      BY ONLY <3>1, <3>3, <3>5 DEF BookSound
    <3> QED BY ONLY <3>4, <3>6
  <2> QED BY <1>8, <2>1 DEF BrokerCancel, procVars, TypeOK, WireSound, OpenSound, SendSound
<1>9. ASSUME NEW r \in Refs, on_order_status(r) PROVE TypeInv'
  <2>1. ReportedRow(orders[r], book[r]) \in Row
    BY <1>9, ApplyStatusRow
    DEF on_order_status, ReportedRow, Live, Completed, Statuses, TypeOK, BrokerOrder
  <2>2. orders' \in [Refs -> Row \cup {NoRow}] /\ store' \in [Refs -> Row \cup {NoRow}]
    BY <1>9, <2>1 DEF on_order_status, Persist, TypeOK
  <2> QED BY <1>9, <2>2
          DEF on_order_status, brokerVars, TypeOK, WireSound, BookSound, OpenSound, SendSound
<1>10. ASSUME NEW e \in ExecIds, on_execution(e) PROVE TypeInv'
  BY <1>10
       DEF on_execution, Recorded, brokerVars, TypeOK, WireSound, BookSound, OpenSound,
           SendSound
<1>11. CASE FetchAccount
  BY <1>11
       DEF FetchAccount, account_snapshot, brokerVars, TypeOK, WireSound, BookSound,
           OpenSound, SendSound
<1>12. CASE Disconnect
  <2>1. wire' \in Seq(WireMessage) /\ WireSound'
    BY <1>12, EmptyWire DEF Disconnect, WireSound
  <2>2. conn' \in BOOLEAN
    BY <1>12 DEF Disconnect
  <2>4. cancels' \subseteq Refs /\ disconnects' \in Nat
    BY <1>12 DEF Disconnect, TypeOK
  <2>3. UNCHANGED <<procVars, store, book, position, execs, crashes, sent>>
    BY <1>12 DEF Disconnect
  <2> QED BY <2>1, <2>2, <2>3, <2>4 DEF procVars, TypeOK, BookSound, OpenSound, SendSound
<1>13. ASSUME ProcessGone, UNCHANGED <<store, book, position, execs, disconnects, sent>>,
              crashes' \in Nat
       PROVE  TypeInv'
  <2>1. orders' \in [Refs -> Row \cup {NoRow}] /\ rec' \in RecType
    BY <1>13, IdleType DEF ProcessGone
  <2>2. OpenSound' /\ SendSound'
    BY <1>13, IdleType DEF ProcessGone, OpenSound, SendSound
  <2>3. wire' \in Seq(WireMessage) /\ WireSound'
    BY <1>13, EmptyWire DEF ProcessGone, WireSound
  <2>4. /\ phase' \in {"down", "starting", "running"} /\ blocked' \subseteq Symbols
        /\ calls' \subseteq Cycles \X Symbols /\ snap' \in [Symbols -> Int]
        /\ seen' \subseteq ExecIds /\ fills' \in [ExecIds -> Nat]
        /\ cancels' \subseteq Refs
    BY <1>13 DEF ProcessGone
  <2>6. conn' \in BOOLEAN
    BY <1>13 DEF ProcessGone
  <2>5. BookSound'
    BY <1>13 DEF BookSound
  <2> QED BY <1>13, <2>1, <2>2, <2>3, <2>4, <2>5, <2>6 DEF TypeOK
<1>14. CASE Crash
  BY <1>13, <1>14 DEF Crash, TypeOK
<1>15. ASSUME BeginReconcile PROVE rec' \in RecType /\ OpenSound' /\ SendSound'
  BY <1>15, IdleType DEF BeginReconcile, account_snapshot, TypeOK, OpenSound, SendSound, RecType
<1>16. CASE Start
  BY <1>15, <1>16
       DEF Start, load_from_store, account_snapshot, brokerVars, TypeOK, WireSound,
           BookSound
<1>17. CASE Reconnect
  BY <1>15, <1>17 DEF Reconnect, brokerVars, TypeOK, WireSound, BookSound
<1>18. CASE ReconcileOpen
  <2>1. Absent \in BrokerOrder
    BY DEF Absent, BrokerOrder
  <2>2. rec' \in RecType /\ OpenSound' /\ SendSound'
    BY <1>18, <2>1 DEF ReconcileOpen, open_orders, RecType, TypeOK, OpenSound, SendSound, Live
  <2> QED BY <1>18, <2>2
       DEF ReconcileOpen, open_orders, brokerVars, TypeOK, WireSound, BookSound
<1>19. CASE ReconcileOpenFails
  <2>1. CASE phase = "starting"
    BY <1>13, <1>19, <2>1 DEF ReconcileOpenFails, TypeOK
  <2>2. CASE phase # "starting"
    <3>1. rec' \in RecType /\ OpenSound' /\ SendSound'
      BY <1>19, <2>2, IdleType DEF ReconcileOpenFails, OpenSound, SendSound
    <3> QED BY <1>19, <2>2, <3>1 DEF ReconcileOpenFails, TypeOK, WireSound, BookSound
  <2> QED BY <2>1, <2>2
<1>20. CASE ReconcileResolve
  <2>2. PICK C \in SUBSET Refs : /\ C \subseteq {x \in Refs : Completed(x)}
                                 /\ orders' = [r \in Refs |-> Resolved(r, C)]
    BY <1>20 DEF ReconcileResolve, completed_orders
  <2>3. orders' \in [Refs -> Row \cup {NoRow}]
    BY <2>2, ResolvedRow
  <2>4. store' \in [Refs -> Row \cup {NoRow}]
    BY <1>20, <2>3 DEF ReconcileResolve, completed_orders, Persist, TypeOK
  <2>5. rec' \in RecType /\ OpenSound' /\ SendSound'
    BY <1>20 DEF ReconcileResolve, completed_orders, RecType, TypeOK, OpenSound, SendSound
  <2> QED BY <1>20, <2>3, <2>4, <2>5
          DEF ReconcileResolve, completed_orders, brokerVars, TypeOK, WireSound, BookSound
<1>21. CASE ReconcileExecutions
  <2>1. seen' \subseteq ExecIds /\ fills' \in [ExecIds -> Nat]
    BY <1>21 DEF ReconcileExecutions, executions, Recorded, TypeOK
  <2>2. rec' \in RecType /\ OpenSound' /\ SendSound'
    BY <1>21 DEF ReconcileExecutions, executions, RecType, TypeOK, OpenSound, SendSound
  <2> QED BY <1>21, <2>1, <2>2
       DEF ReconcileExecutions, executions, brokerVars, TypeOK, WireSound, BookSound
<1>22. ASSUME NEW s \in Symbols, EmitProtectiveStop(s) PROVE TypeInv'
  <2>1. PICK p \in ProtectTags :
          /\ orders' = [orders EXCEPT ![make_ref(p, s, "STOP")] = ManagedOrder(TRUE, TRUE)]
          /\ Persist({make_ref(p, s, "STOP")})
          /\ rec' = [rec EXCEPT !.pc = "send", !.ref = make_ref(p, s, "STOP")]
    BY <1>22 DEF EmitProtectiveStop
  <2>2. make_ref(p, s, "STOP") \in ProtectRefs /\ make_ref(p, s, "STOP") \in Refs
    BY DEF make_ref, ProtectRefs, Refs
  <2>3. ManagedOrder(TRUE, TRUE) \in Row
    BY DEF ManagedOrder, Row, OrderState
  <2>4. orders' \in [Refs -> Row \cup {NoRow}] /\ store' \in [Refs -> Row \cup {NoRow}]
    BY <2>1, <2>2, <2>3 DEF Persist, TypeOK
  <2>5. rec' \in RecType /\ OpenSound' /\ SendSound'
    BY <2>1, <2>2 DEF RecType, TypeOK, OpenSound, SendSound
  <2> QED BY <1>22, <2>4, <2>5
          DEF EmitProtectiveStop, brokerVars, TypeOK, WireSound, BookSound
<1>23. ASSUME NEW s \in Symbols, NoReferencePrice(s) PROVE TypeInv'
  <2>1. rec' \in RecType /\ OpenSound' /\ SendSound'
    BY <1>23 DEF NoReferencePrice, RecType, TypeOK, OpenSound, SendSound
  <2> QED BY <1>23, <2>1 DEF NoReferencePrice, brokerVars, TypeOK, WireSound, BookSound
<1>24. CASE SendProtectiveStop
  <2> DEFINE r == rec.ref
             t == <<Message(r, -rec.acct[Sym(r)])>>
  <2>1. r \in Refs /\ ~IsEntry(r)
    BY <1>24 DEF SendProtectiveStop, SendSound, ProtectRefs, Refs, IsEntry
  <2>2. -rec.acct[Sym(r)] \in Int
    BY <2>1, RefTypes DEF TypeOK, RecType
  <2>3. t \in Seq(WireMessage) /\ \A j \in DOMAIN t : ~IsEntry(t[j].ref)
    BY <2>1, <2>2, MessageType
  <2>4. wire' = wire \o t
    BY <1>24 DEF SendProtectiveStop, TypeOK
  <2>5. wire' \in Seq(WireMessage) /\ WireSound'
    <3> HIDE DEF t
    <3> QED BY <2>3, <2>4, Appended DEF TypeOK, WireSound
  <2>6. PlacedRow(orders[r]) \in Row
    BY <2>1, ApplyStatusRow DEF PlacedRow, TypeOK, Statuses
  <2>7. orders' \in [Refs -> Row \cup {NoRow}] /\ store' \in [Refs -> Row \cup {NoRow}]
    BY <1>24, <2>1, <2>6 DEF SendProtectiveStop, Persist, TypeOK
  <2>8. sent' \in [Refs -> Nat]
    BY <1>24, <2>1 DEF SendProtectiveStop, TypeOK
  <2>9. rec' \in RecType /\ OpenSound' /\ SendSound'
    BY <1>24 DEF SendProtectiveStop, RecType, TypeOK, OpenSound, SendSound
  <2> QED BY <1>24, <2>5, <2>7, <2>8, <2>9 DEF SendProtectiveStop, TypeOK, BookSound
<1>25. CASE SendProtectiveStopFails
  <2>1. Sym(rec.ref) \in Symbols
    BY <1>25, RefTypes DEF SendProtectiveStopFails, SendSound, Refs
  <2>2. rec' \in RecType /\ OpenSound' /\ SendSound'
    BY <1>25, <2>1 DEF SendProtectiveStopFails, RecType, TypeOK, OpenSound, SendSound
  <2>3. blocked' \subseteq Symbols
    BY <1>25, <2>1 DEF SendProtectiveStopFails, TypeOK
  <2> QED BY <1>25, <2>2, <2>3
       DEF SendProtectiveStopFails, brokerVars, TypeOK, WireSound, BookSound
<1>26. CASE ReconcileFinish
  <2>1. rec' \in RecType /\ OpenSound' /\ SendSound'
    BY <1>26, IdleType DEF ReconcileFinish, cancel_order, OpenSound, SendSound
  <2>2. cancels' \subseteq Refs
    BY <1>26 DEF ReconcileFinish, cancel_order, Orphans, TypeOK
  <2> QED BY <1>26, <2>1, <2>2 DEF ReconcileFinish, cancel_order, TypeOK, WireSound, BookSound
<1>27. CASE UNCHANGED vars
  BY <1>27 DEF vars, procVars, brokerVars, TypeOK, WireSound, BookSound, OpenSound, SendSound
<1> QED
  BY <1>1, <1>2, <1>3, <1>4, <1>5, <1>6, <1>7, <1>8, <1>9, <1>10, <1>11, <1>12, <1>14,
     <1>16, <1>17, <1>18, <1>19, <1>20, <1>21, <1>22, <1>23, <1>24, <1>25, <1>26, <1>27
  DEF Next

\* Every variable keeps its type in every reachable state.
THEOREM TypeCorrect == Spec => []TypeOK
<1>1. Spec => []TypeInv
  BY TypeInit, TypeNext, PTL DEF Spec
<1>2. TypeInv => TypeOK
  BY DEF TypeInv
<1> QED BY <1>1, <1>2, PTL

-----------------------------------------------------------------------------
(* The ledger.  WriteAhead is not inductive: that a ref reaches the wire   *)
(* with its row in the store rests on what the pending calls and the       *)
(* pending protective stop hold, on the three rows of a bracket appearing  *)
(* together, and on memory and store agreeing while the process lives.     *)

DownIsIdle == phase = "down" => calls = {} /\ rec.pc = "idle"

SentIsStored == \A r \in Refs : sent[r] > 0 => store[r] # NoRow

OutIsSent == \A r \in Refs : OnWire(r) \/ book[r].st # "Absent" => sent[r] > 0

OpenIsSent == \A r \in Refs : rec.open[r] # Absent => sent[r] > 0

SentOnce == \A r \in Refs : sent[r] <= 1

CallsFresh ==
  \A c \in Cycles, s \in Symbols : <<c, s>> \in calls =>
    \A r \in Legs(c, s) : store[r] # NoRow /\ sent[r] = 0

StopFresh == rec.pc = "send" => store[rec.ref] # NoRow /\ sent[rec.ref] = 0

BracketWhole ==
  \A c \in Cycles, s \in Symbols : \A r \in Legs(c, s) :
    store[r] # NoRow => store[make_ref(c, s, "ENTRY")] # NoRow

LedgerInv ==
  /\ StoreMirrorsMemory /\ DownIsIdle
  /\ SentIsStored /\ OutIsSent /\ OpenIsSent /\ SentOnce
  /\ CallsFresh /\ StopFresh /\ BracketWhole

\* A step that neither writes a first row nor sends: all but four of the actions.
Quiet ==
  /\ UNCHANGED sent
  /\ \A r \in Refs : store'[r] = NoRow <=> store[r] = NoRow
  /\ calls' \subseteq calls
  /\ rec'.pc = "send" => rec.pc = "send" /\ rec'.ref = rec.ref

LedgerStep == [Ledger!Next]_<<{r \in Refs : store[r] # NoRow}, sent>>

LEMMA QuietKeeps ==
  ASSUME TypeInv, LedgerInv, Quiet
  PROVE  /\ SentIsStored' /\ SentOnce' /\ CallsFresh' /\ StopFresh' /\ BracketWhole'
         /\ LedgerStep
<1> USE DEF LedgerInv, Quiet
<1>1. SentIsStored' /\ SentOnce'
  BY DEF SentIsStored, SentOnce
<1>2. CallsFresh'
  BY LegsAreRefs DEF CallsFresh
<1>3. StopFresh'
  BY DEF StopFresh, TypeInv, SendSound, Refs
<1>4. BracketWhole'
  BY LegsAreRefs DEF BracketWhole
<1>5. LedgerStep
  BY DEF LedgerStep
<1> QED BY <1>1, <1>2, <1>3, <1>4, <1>5

LEMMA LedgerInit == Init => LedgerInv
<1> SUFFICES ASSUME Init PROVE LedgerInv OBVIOUS
<1> USE DEF Init
<1>1. \A r \in Refs : ~OnWire(r)
  BY DEF OnWire
<1>2. OutIsSent
  BY <1>1 DEF OutIsSent, Absent
<1>3. DownIsIdle /\ OpenIsSent /\ StopFresh
  BY IdleType DEF DownIsIdle, OpenIsSent, StopFresh
<1>4. StoreMirrorsMemory /\ SentIsStored /\ SentOnce /\ CallsFresh
  BY DEF StoreMirrorsMemory, SentIsStored, SentOnce, CallsFresh
<1>5. BracketWhole
  BY LegsAreRefs DEF BracketWhole
<1> QED BY <1>2, <1>3, <1>4, <1>5 DEF LedgerInv

\* The row of a symbol's orders is as the store has it whenever a coroutine runs.
LEMMA ProcessAlive ==
  ASSUME LedgerInv, calls # {} \/ rec.pc # "idle"
  PROVE  phase # "down" /\ orders = store
BY DEF LedgerInv, DownIsIdle, StoreMirrorsMemory

\* A step of the process that keeps the broker's side and reconcile()'s snapshot.
LEMMA BrokerKept ==
  ASSUME LedgerInv, UNCHANGED <<wire, book, sent>>, rec'.open = rec.open
  PROVE  OutIsSent' /\ OpenIsSent'
BY DEF LedgerInv, OutIsSent, OpenIsSent, OnWire

LEMMA OnWireAppended ==
  ASSUME wire \in Seq(WireMessage), NEW t \in Seq(WireMessage), wire' = wire \o t,
         NEW R, \A j \in DOMAIN t : t[j].ref \in R
  PROVE  \A r \in Refs : OnWire(r)' => OnWire(r) \/ r \in R
<1> SUFFICES ASSUME NEW r \in Refs, NEW i \in DOMAIN (wire \o t), (wire \o t)[i].ref = r
             PROVE  OnWire(r) \/ r \in R
  BY DEF OnWire
<1> QED BY Appended DEF OnWire

LEMMA LedgerNext ==
  ASSUME TypeInv, TypeInv', LedgerInv, [Next]_vars
  PROVE  LedgerInv' /\ LedgerStep
<1>1. ASSUME NEW c \in Cycles, NEW s \in Symbols, place_bracket(c, s)
      PROVE  LedgerInv' /\ LedgerStep
  <2> DEFINE entry == make_ref(c, s, "ENTRY")
  <2>1. orders = store /\ phase = "running" /\ phase' = "running"
    BY <1>1 DEF place_bracket, LedgerInv, StoreMirrorsMemory
  <2>2. OutIsSent' /\ OpenIsSent' /\ SentOnce'
    BY <1>1, BrokerKept DEF place_bracket, brokerVars, LedgerInv, SentOnce
  <2>3. CASE UNCHANGED <<orders, store, calls>>
    <3>1. Quiet
      BY <1>1, <2>3 DEF Quiet, place_bracket
    <3> QED BY <2>1, <2>2, <2>3, <3>1, QuietKeeps
            DEF LedgerInv, StoreMirrorsMemory, DownIsIdle
  <2>4. CASE /\ ~AlreadyPlaced(entry)
             /\ orders' = [r \in Refs |-> IF r \in Legs(c, s) THEN BracketRow(r) ELSE orders[r]]
             /\ Persist(Legs(c, s))
             /\ calls' = calls \cup {<<c, s>>}
    <3>1. /\ \A r \in Legs(c, s) : store[r] = NoRow /\ sent[r] = 0
      BY <2>4, LegsAreRefs
      DEF AlreadyPlaced, LedgerInv, BracketWhole, SentIsStored, TypeInv, TypeOK
    <3>2. \A r \in Refs : BracketRow(r) # NoRow
      BY DEF BracketRow, ManagedOrder, NoRow
    <3>3. /\ \A r \in Refs : store'[r] = IF r \in Legs(c, s) THEN BracketRow(r) ELSE store[r]
          /\ orders' = store' /\ UNCHANGED <<sent, rec>>
      BY <1>1, <2>1, <2>4 DEF Persist, place_bracket, TypeInv, TypeOK
    <3>4. StoreMirrorsMemory' /\ DownIsIdle'
      BY <2>1, <3>3 DEF StoreMirrorsMemory, DownIsIdle
    <3>5. SentIsStored' /\ StopFresh'
      BY <3>2, <3>3
      DEF LedgerInv, SentIsStored, StopFresh, TypeInv, SendSound, Refs
    <3>6. CallsFresh'
      BY <2>4, <3>1, <3>2, <3>3, LegsAreRefs DEF LedgerInv, CallsFresh
    <3>7. BracketWhole'
      <4>1. SUFFICES ASSUME NEW d \in Cycles, NEW u \in Symbols, NEW r \in Legs(d, u),
                            store'[r] # NoRow
                     PROVE  store'[make_ref(d, u, "ENTRY")] # NoRow
        BY DEF BracketWhole
      <4>2. CASE d = c /\ u = s
        BY <3>2, <3>3, <4>2, LegsAreRefs
      <4>3. CASE ~(d = c /\ u = s)
        <5>1. r \notin Legs(c, s)
          BY <4>3 DEF Legs, make_ref
        <5>2. store[make_ref(d, u, "ENTRY")] # NoRow
          BY <3>3, <4>1, <5>1, LegsAreRefs DEF LedgerInv, BracketWhole
        <5> QED BY <3>2, <3>3, <5>2, LegsAreRefs
      <4> QED BY <4>2, <4>3
    <3>8. LedgerStep
      BY <3>2, <3>3 DEF LedgerStep, Ledger!Next, Ledger!Intend
    <3> QED BY <2>2, <3>4, <3>5, <3>6, <3>7, <3>8 DEF LedgerInv
  <2> QED BY <1>1, <2>3, <2>4 DEF place_bracket
<1>2. ASSUME NEW c \in Cycles, NEW s \in Symbols, SendBracket(c, s)
      PROVE  LedgerInv' /\ LedgerStep
  <2> DEFINE t == <<Message(make_ref(c, s, "ENTRY"), Qty),
                    Message(make_ref(c, s, "TARGET"), -Qty),
                    Message(make_ref(c, s, "STOP"), -Qty)>>
  <2>1. orders = store /\ phase # "down"
    BY <1>2, ProcessAlive DEF SendBracket
  <2>2. \A r \in Legs(c, s) : r \in Refs /\ store[r] # NoRow /\ sent[r] = 0
    BY <1>2, LegsAreRefs DEF SendBracket, LedgerInv, CallsFresh
  <2>3. \A r \in Refs : PlacedRow(orders[r]) # NoRow
    BY ApplyStatusRow, RowIsNotNoRow DEF PlacedRow, TypeInv, TypeOK, Statuses
  <2>4. /\ \A r \in Refs : store'[r] = IF r \in Legs(c, s) THEN PlacedRow(orders[r])
                                                ELSE store[r]
        /\ orders' = store' /\ UNCHANGED <<rec, phase, book>>
    BY <1>2, <2>1 DEF SendBracket, Persist, TypeInv, TypeOK
  <2>5. \A r \in Refs : store'[r] = NoRow <=> store[r] = NoRow
    BY <2>2, <2>3, <2>4
  <2>6. \A r \in Refs : sent'[r] = IF r \in Legs(c, s) THEN 1 ELSE sent[r]
    BY <1>2, <2>2 DEF SendBracket
  <2>7. \A r \in Refs : OnWire(r)' => OnWire(r) \/ r \in Legs(c, s)
    <3>1. t \in Seq(WireMessage) /\ \A j \in DOMAIN t : t[j].ref \in Legs(c, s)
      BY MessageType, LegsAreRefs, QtyAssumption
    <3>2. wire' = wire \o t
      BY <1>2 DEF SendBracket
    <3> HIDE DEF t
    <3> QED BY <3>1, <3>2, OnWireAppended DEF TypeInv, TypeOK
  <2>8. OutIsSent' /\ OpenIsSent'
    BY <2>4, <2>6, <2>7 DEF LedgerInv, OutIsSent, OpenIsSent
  <2>9. SentIsStored' /\ SentOnce'
    BY <2>2, <2>5, <2>6 DEF LedgerInv, SentIsStored, SentOnce
  <2>10. CallsFresh'
    <3>1. SUFFICES ASSUME NEW d \in Cycles, NEW u \in Symbols, <<d, u>> \in calls',
                          NEW r \in Legs(d, u)
                   PROVE  store'[r] # NoRow /\ sent'[r] = 0
      BY DEF CallsFresh
    <3>2. <<d, u>> \in calls /\ <<d, u>> # <<c, s>>
      BY <1>2, <3>1 DEF SendBracket
    <3>3. r \notin Legs(c, s)
      BY <3>2 DEF Legs, make_ref
    <3> QED BY <2>5, <2>6, <3>2, <3>3, LegsAreRefs DEF LedgerInv, CallsFresh
  <2>11. StopFresh'
    <3>1. rec.pc = "send" => rec.ref \in Refs /\ rec.ref \notin Legs(c, s)
      BY RefsDisjoint, LegsAreRefs DEF TypeInv, SendSound, Refs
    <3> QED BY <2>4, <2>5, <2>6, <3>1 DEF LedgerInv, StopFresh
  <2>12. BracketWhole'
    BY <2>5, LegsAreRefs DEF LedgerInv, BracketWhole
  <2>13. LedgerStep
    <3>1. {r \in Refs : store'[r] # NoRow} = {r \in Refs : store[r] # NoRow}
      BY <2>5
    <3>2. sent' \in [Refs -> Nat]
      BY DEF TypeInv, TypeOK
    <3> QED BY <2>2, <2>6, <3>1, <3>2 DEF LedgerStep, Ledger!Next, Ledger!Send
  <2> QED BY <2>1, <2>4, <2>8, <2>9, <2>10, <2>11, <2>12, <2>13
          DEF LedgerInv, StoreMirrorsMemory, DownIsIdle
<1>3. ASSUME NEW c \in Cycles, NEW s \in Symbols, SendBracketFails(c, s)
      PROVE  LedgerInv' /\ LedgerStep
  <2>1. Quiet
    BY <1>3 DEF Quiet, SendBracketFails
  <2>2. OutIsSent' /\ OpenIsSent'
    BY <1>3, BrokerKept DEF SendBracketFails, brokerVars
  <2> QED BY <1>3, <2>1, <2>2, QuietKeeps
          DEF SendBracketFails, LedgerInv, StoreMirrorsMemory, DownIsIdle
<1>4. ASSUME \/ BrokerReceive \/ BrokerRefuse
      PROVE  LedgerInv' /\ LedgerStep
  <2>1. Quiet
    BY <1>4 DEF Quiet, BrokerReceive, BrokerRefuse, procVars
  <2>2. /\ wire # <<>> /\ wire' = Tail(wire) /\ UNCHANGED <<procVars, store, sent>>
        /\ \A r \in Refs : book'[r].st # "Absent" => book[r].st # "Absent" \/ r = Head(wire).ref
    BY <1>4 DEF BrokerReceive, BrokerRefuse, TypeInv, TypeOK, BrokerOrder
  <2>3. /\ OnWire(Head(wire).ref)
        /\ \A r \in Refs : OnWire(r)' => OnWire(r)
    <3>1. wire \in Seq(WireMessage)
      BY DEF TypeInv, TypeOK
    <3>2. OnWire(Head(wire).ref)
      BY <2>2, <3>1, Received DEF OnWire
    <3>3. ASSUME NEW r \in Refs, NEW i \in DOMAIN Tail(wire), Tail(wire)[i].ref = r
          PROVE  OnWire(r)
      BY <2>2, <3>1, <3>3, Received DEF OnWire
    <3> QED BY <2>2, <3>2, <3>3 DEF OnWire
  <2>4. OutIsSent' /\ OpenIsSent'
    BY <2>2, <2>3 DEF procVars, LedgerInv, OutIsSent, OpenIsSent
  <2> QED BY <2>1, <2>2, <2>4, QuietKeeps
          DEF procVars, LedgerInv, StoreMirrorsMemory, DownIsIdle
<1>5. ASSUME NEW r \in Refs, BrokerFillEntry(r) \/ BrokerFillExit(r) \/ BrokerCancel(r)
      PROVE  LedgerInv' /\ LedgerStep
  <2>1. Quiet
    BY <1>5 DEF Quiet, BrokerFillEntry, BrokerFillExit, BrokerCancel, procVars
  <2>2. /\ UNCHANGED <<procVars, store, sent, wire>>
        /\ \A x \in Refs : book'[x].st # "Absent" => book[x].st # "Absent"
    BY <1>5
         DEF BrokerFillEntry, BrokerFillExit, BrokerCancel, Live, TypeInv, TypeOK,
             BrokerOrder
  <2>3. OutIsSent' /\ OpenIsSent'
    BY <2>2 DEF procVars, LedgerInv, OutIsSent, OpenIsSent, OnWire
  <2> QED BY <2>1, <2>2, <2>3, QuietKeeps
          DEF procVars, LedgerInv, StoreMirrorsMemory, DownIsIdle
<1>6. ASSUME NEW r \in Refs, on_order_status(r)
      PROVE  LedgerInv' /\ LedgerStep
  <2>1. orders = store /\ store[r] # NoRow
    BY <1>6 DEF on_order_status, Live, Completed, LedgerInv, StoreMirrorsMemory,
                OutIsSent, SentIsStored
  <2>2. ReportedRow(orders[r], book[r]) # NoRow
    BY <1>6, ApplyStatusRow, RowIsNotNoRow
    DEF on_order_status, ReportedRow, Live, Completed, Statuses, TypeInv, TypeOK, BrokerOrder
  <2>3. /\ \A x \in Refs : store'[x] = IF x = r THEN ReportedRow(orders[r], book[r])
                                       ELSE store[x]
        /\ orders' = store'
    BY <1>6, <2>1 DEF on_order_status, Persist, TypeInv, TypeOK
  <2>4. Quiet
    BY <1>6, <2>1, <2>2, <2>3 DEF Quiet, on_order_status
  <2>5. OutIsSent' /\ OpenIsSent'
    BY <1>6, BrokerKept DEF on_order_status, brokerVars
  <2> QED BY <1>6, <2>3, <2>4, <2>5, QuietKeeps
          DEF on_order_status, LedgerInv, StoreMirrorsMemory, DownIsIdle
<1>7. ASSUME \/ \E e \in ExecIds : on_execution(e)
             \/ FetchAccount
             \/ ReconcileExecutions
             \/ \E s \in Symbols : NoReferencePrice(s)
             \/ SendProtectiveStopFails
             \/ UNCHANGED vars
      PROVE  LedgerInv' /\ LedgerStep
  <2>1. /\ UNCHANGED <<phase, orders, store, calls, wire, book, sent>>
        /\ rec'.open = rec.open
        /\ rec'.pc = "send" => rec.pc = "send" /\ rec'.ref = rec.ref
        /\ rec.pc = "idle" => rec'.pc = "idle"
    BY <1>7
         DEF on_execution, FetchAccount, account_snapshot, ReconcileExecutions,
             executions, NoReferencePrice,
                SendProtectiveStopFails, vars, procVars, brokerVars, TypeInv, TypeOK, RecType
  <2>2. Quiet
    BY <2>1 DEF Quiet
  <2> QED BY <2>1, <2>2, BrokerKept, QuietKeeps
          DEF LedgerInv, StoreMirrorsMemory, DownIsIdle
<1>8. CASE Disconnect
  <2>1. Quiet
    BY <1>8 DEF Quiet, Disconnect, procVars
  <2>2. \A r \in Refs : ~OnWire(r)'
    BY <1>8, EmptyWire DEF Disconnect, OnWire
  <2>3. OutIsSent' /\ OpenIsSent'
    BY <1>8, <2>2 DEF Disconnect, procVars, LedgerInv, OutIsSent, OpenIsSent
  <2> QED BY <1>8, <2>1, <2>3, QuietKeeps
          DEF Disconnect, procVars, LedgerInv, StoreMirrorsMemory, DownIsIdle
<1>9. ASSUME ProcessGone, UNCHANGED <<store, book, sent>>
      PROVE  LedgerInv' /\ LedgerStep
  <2>1. Quiet
    BY <1>9, IdleType DEF Quiet, ProcessGone
  <2>2. \A r \in Refs : ~OnWire(r)'
    BY <1>9, EmptyWire DEF ProcessGone, OnWire
  <2>3. OutIsSent' /\ OpenIsSent'
    BY <1>9, <2>2, IdleType DEF ProcessGone, LedgerInv, OutIsSent, OpenIsSent
  <2>4. StoreMirrorsMemory' /\ DownIsIdle'
    BY <1>9, IdleType DEF ProcessGone, StoreMirrorsMemory, DownIsIdle
  <2> QED BY <2>1, <2>3, <2>4, QuietKeeps DEF LedgerInv
<1>10. CASE Crash
  BY <1>9, <1>10 DEF Crash
<1>11. ASSUME Start \/ Reconnect
       PROVE  LedgerInv' /\ LedgerStep
  <2>1. rec'.pc = "open" /\ \A r \in Refs : rec'.open[r] = Absent
    BY <1>11, IdleType
         DEF Start, load_from_store, account_snapshot, Reconnect, BeginReconcile, RecType
  <2>2. UNCHANGED <<store, sent, calls, wire, book>>
    BY <1>11 DEF Start, load_from_store, account_snapshot, Reconnect, brokerVars
  <2>3. Quiet
    BY <2>1, <2>2 DEF Quiet
  <2>4. OutIsSent' /\ OpenIsSent'
    BY <2>1, <2>2 DEF LedgerInv, OutIsSent, OpenIsSent, OnWire
  <2>5. StoreMirrorsMemory' /\ DownIsIdle'
    BY <1>11, <2>1
         DEF Start, load_from_store, account_snapshot, Reconnect, LedgerInv,
             StoreMirrorsMemory, DownIsIdle
  <2> QED BY <2>3, <2>4, <2>5, QuietKeeps DEF LedgerInv
<1>12. CASE ReconcileOpen
  <2>1. Quiet
    BY <1>12 DEF Quiet, ReconcileOpen, open_orders, TypeInv, TypeOK, RecType
  <2>2. \A r \in Refs : rec'.open[r] # Absent => book[r].st # "Absent"
    BY <1>12 DEF ReconcileOpen, open_orders, Live, TypeInv, TypeOK, RecType
  <2>3. OutIsSent' /\ OpenIsSent'
    BY <1>12, <2>2
         DEF ReconcileOpen, open_orders, brokerVars, LedgerInv, OutIsSent, OpenIsSent,
             OnWire
  <2> QED BY <1>12, <2>1, <2>3, QuietKeeps
          DEF ReconcileOpen, open_orders, LedgerInv, StoreMirrorsMemory, DownIsIdle
<1>13. CASE ReconcileOpenFails
  <2>1. CASE phase = "starting"
    BY <1>9, <1>13, <2>1 DEF ReconcileOpenFails
  <2>2. CASE phase # "starting"
    <3>1. UNCHANGED <<store, sent, calls, wire, book, phase, orders>> /\ rec' = Idle
      BY <1>13, <2>2 DEF ReconcileOpenFails
    <3>2. Quiet
      BY <3>1, IdleType DEF Quiet
    <3>3. OutIsSent' /\ OpenIsSent'
      BY <3>1, IdleType DEF LedgerInv, OutIsSent, OpenIsSent, OnWire
    <3> QED BY <3>1, <3>2, <3>3, QuietKeeps, IdleType
            DEF LedgerInv, StoreMirrorsMemory, DownIsIdle
  <2> QED BY <2>1, <2>2
<1>14. CASE ReconcileResolve
  <2>1. orders = store /\ phase # "down"
    BY <1>14, ProcessAlive DEF ReconcileResolve, completed_orders
  <2>2. PICK C \in SUBSET Refs : /\ C \subseteq {x \in Refs : Completed(x)}
                                 /\ orders' = [r \in Refs |-> Resolved(r, C)]
    BY <1>14 DEF ReconcileResolve, completed_orders
  <2>3. \A r \in Refs : orders'[r] = NoRow <=> orders[r] = NoRow
    BY <2>1, <2>2, ResolvedRow DEF LedgerInv, OpenIsSent, SentIsStored, TypeInv
  <2>4. orders' = store'
    BY <1>14, <2>1, <2>2 DEF ReconcileResolve, completed_orders, Persist, TypeInv, TypeOK
  <2>5. Quiet
    BY <1>14, <2>1, <2>3, <2>4
         DEF Quiet, ReconcileResolve, completed_orders, TypeInv, TypeOK, RecType
  <2>6. OutIsSent' /\ OpenIsSent'
    BY <1>14, BrokerKept
         DEF ReconcileResolve, completed_orders, brokerVars, TypeInv, TypeOK, RecType
  <2> QED BY <1>14, <2>1, <2>4, <2>5, <2>6, QuietKeeps
          DEF ReconcileResolve, completed_orders, LedgerInv, StoreMirrorsMemory, DownIsIdle
<1>15. ASSUME NEW s \in Symbols, EmitProtectiveStop(s)
       PROVE  LedgerInv' /\ LedgerStep
  <2>1. orders = store /\ phase # "down"
    BY <1>15, ProcessAlive DEF EmitProtectiveStop
  <2>2. PICK p \in ProtectTags :
          /\ store[make_ref(p, s, "STOP")] = NoRow
          /\ orders' = [orders EXCEPT ![make_ref(p, s, "STOP")] = ManagedOrder(TRUE, TRUE)]
          /\ Persist({make_ref(p, s, "STOP")})
          /\ rec' = [rec EXCEPT !.pc = "send", !.ref = make_ref(p, s, "STOP")]
    BY <1>15 DEF EmitProtectiveStop
  <2> DEFINE ref == make_ref(p, s, "STOP")
  <2>3. ref \in ProtectRefs /\ ref \in Refs
    BY DEF make_ref, ProtectRefs, Refs
  <2>4. \A c \in Cycles, u \in Symbols : ref \notin Legs(c, u)
    BY <2>3, RefsDisjoint, LegsAreRefs
  <2>5. ManagedOrder(TRUE, TRUE) # NoRow
    BY DEF ManagedOrder, NoRow
  <2>6. /\ \A r \in Refs : store'[r] = IF r = ref THEN ManagedOrder(TRUE, TRUE) ELSE store[r]
        /\ orders' = store' /\ UNCHANGED <<sent, calls, phase, wire, book>>
        /\ rec'.pc = "send" /\ rec'.ref = ref /\ rec'.open = rec.open
    <3>1. rec'.pc = "send" /\ rec'.ref = ref /\ rec'.open = rec.open
      BY <2>2 DEF TypeInv, TypeOK, RecType
    <3>2. UNCHANGED <<sent, calls, phase, wire, book>>
      BY ONLY <1>15 DEF EmitProtectiveStop, brokerVars
    <3>3. /\ \A r \in Refs : store'[r] = IF r = ref THEN ManagedOrder(TRUE, TRUE) ELSE store[r]
          /\ orders' = store'
      <4>1. orders \in [Refs -> Row \cup {NoRow}] /\ store \in [Refs -> Row \cup {NoRow}]
        BY DEF TypeInv, TypeOK
      <4> QED
        BY ONLY <2>1, <2>2, <2>3, <4>1 DEF Persist
    <3> QED
      BY ONLY <3>1, <3>2, <3>3
  <2>7. sent[ref] = 0
    BY <2>2, <2>3 DEF LedgerInv, SentIsStored, TypeInv, TypeOK
  <2> HIDE DEF ref
  <2>8. OutIsSent' /\ OpenIsSent'
    BY <2>6, BrokerKept
  <2>9. SentIsStored' /\ SentOnce' /\ StopFresh'
    BY <2>3, <2>5, <2>6, <2>7 DEF LedgerInv, SentIsStored, SentOnce, StopFresh
  <2>10. CallsFresh' /\ BracketWhole'
    <3>1. \A c \in Cycles, u \in Symbols : \A r \in Legs(c, u) : store'[r] = store[r]
      BY <2>4, <2>6, LegsAreRefs
    <3>2. CallsFresh'
      BY <2>6, <3>1 DEF LedgerInv, CallsFresh
    <3>3. BracketWhole'
      BY <3>1, LegsAreRefs DEF LedgerInv, BracketWhole
    <3> QED BY <3>2, <3>3
  <2>11. LedgerStep
    BY <2>5, <2>6 DEF LedgerStep, Ledger!Next, Ledger!Intend
  <2> QED BY <2>1, <2>6, <2>8, <2>9, <2>10, <2>11
          DEF LedgerInv, StoreMirrorsMemory, DownIsIdle
<1>16. CASE SendProtectiveStop
  <2> DEFINE r == rec.ref
             t == <<Message(r, -rec.acct[Sym(r)])>>
  <2>1. orders = store /\ phase # "down"
    BY <1>16, ProcessAlive DEF SendProtectiveStop
  <2>2. r \in ProtectRefs /\ r \in Refs /\ store[r] # NoRow /\ sent[r] = 0
    BY <1>16 DEF SendProtectiveStop, TypeInv, SendSound, Refs, LedgerInv, StopFresh
  <2>3. PlacedRow(orders[r]) # NoRow
    BY <2>2, ApplyStatusRow, RowIsNotNoRow DEF PlacedRow, TypeInv, TypeOK, Statuses
  <2>4. /\ \A x \in Refs : store'[x] = IF x = r THEN PlacedRow(orders[r]) ELSE store[x]
        /\ orders' = store' /\ UNCHANGED <<calls, phase, book>>
        /\ rec'.pc = "protect" /\ rec'.open = rec.open
    BY <1>16, <2>1, <2>2 DEF SendProtectiveStop, Persist, TypeInv, TypeOK, RecType
  <2>5. \A x \in Refs : store'[x] = NoRow <=> store[x] = NoRow
    BY <2>2, <2>3, <2>4
  <2>6. \A x \in Refs : sent'[x] = IF x = r THEN 1 ELSE sent[x]
    BY <1>16, <2>2 DEF SendProtectiveStop, TypeInv, TypeOK
  <2>7. \A x \in Refs : OnWire(x)' => OnWire(x) \/ x = r
    <3>1. -rec.acct[Sym(r)] \in Int
      BY <2>2, RefTypes DEF TypeInv, TypeOK, RecType
    <3>2. t \in Seq(WireMessage) /\ \A j \in DOMAIN t : t[j].ref \in {r}
      BY <2>2, <3>1, MessageType
    <3>3. wire' = wire \o t
      <4>1. wire \in Seq(WireMessage)
        BY DEF TypeInv, TypeOK
      <4>2. wire' = Append(wire, Message(r, -rec.acct[Sym(r)]))
        BY <1>16 DEF SendProtectiveStop
      <4> QED BY <4>1, <4>2
    <3> HIDE DEF t, r
    <3>4. \A x \in Refs : OnWire(x)' => OnWire(x) \/ x \in {r}
      BY <3>2, <3>3, OnWireAppended DEF TypeInv, TypeOK
    <3> QED BY <3>4
  <2> HIDE DEF r
  <2>8. OutIsSent' /\ OpenIsSent'
    BY <2>4, <2>6, <2>7 DEF LedgerInv, OutIsSent, OpenIsSent
  <2>9. SentIsStored' /\ SentOnce' /\ StopFresh'
    BY <2>2, <2>4, <2>5, <2>6 DEF LedgerInv, SentIsStored, SentOnce, StopFresh
  <2>10. \A c \in Cycles, u \in Symbols : r \notin Legs(c, u)
    BY <2>2, RefsDisjoint, LegsAreRefs
  <2>11. CallsFresh' /\ BracketWhole'
    BY <2>4, <2>5, <2>6, <2>10, LegsAreRefs DEF LedgerInv, CallsFresh, BracketWhole
  <2>12. LedgerStep
    <3>1. {x \in Refs : store'[x] # NoRow} = {x \in Refs : store[x] # NoRow}
      BY <2>5
    <3>2. sent' \in [Refs -> Nat]
      BY DEF TypeInv, TypeOK
    <3> QED BY <2>2, <2>6, <3>1, <3>2 DEF LedgerStep, Ledger!Next, Ledger!Send
  <2> QED BY <2>1, <2>4, <2>8, <2>9, <2>11, <2>12
          DEF LedgerInv, StoreMirrorsMemory, DownIsIdle
<1>17. CASE ReconcileFinish
  <2>1. orders = store
    BY <1>17, ProcessAlive DEF ReconcileFinish, cancel_order
  <2>2. /\ UNCHANGED <<store, sent, calls, wire, book, orders>>
        /\ rec' = Idle /\ phase' = "running"
    BY <1>17 DEF ReconcileFinish, cancel_order
  <2>3. Quiet
    BY <2>2, IdleType DEF Quiet
  <2>4. OutIsSent' /\ OpenIsSent'
    BY <2>2, IdleType DEF LedgerInv, OutIsSent, OpenIsSent, OnWire
  <2> QED BY <2>1, <2>2, <2>3, <2>4, QuietKeeps
          DEF LedgerInv, StoreMirrorsMemory, DownIsIdle
<1> QED
  BY <1>1, <1>2, <1>3, <1>4, <1>5, <1>6, <1>7, <1>8, <1>10, <1>11, <1>12, <1>13, <1>14,
     <1>15, <1>16, <1>17
  DEF Next

LEMMA LedgerInvariant == Spec => [](TypeInv /\ LedgerInv)
<1>1. Spec => []TypeInv
  BY TypeInit, TypeNext, PTL DEF Spec
<1>2. TypeInv /\ TypeInv' /\ LedgerInv /\ [Next]_vars => LedgerInv'
  BY LedgerNext
<1> QED BY <1>1, <1>2, LedgerInit, PTL DEF Spec

\* Nothing is at the broker, or on its way there, without its row in the store.
THEOREM WriteAheadHolds == Spec => []WriteAhead
<1>1. TypeInv /\ LedgerInv => WriteAhead
  BY DEF LedgerInv, OutIsSent, SentIsStored, WriteAhead
<1> QED BY <1>1, LedgerInvariant, PTL

\* While the process lives, its rows and the store's are the same.
THEOREM StoreMirrorsMemoryHolds == Spec => []StoreMirrorsMemory
<1>1. TypeInv /\ LedgerInv => StoreMirrorsMemory
  BY DEF LedgerInv
<1> QED BY <1>1, LedgerInvariant, PTL

\* The order manager implements the write-ahead ledger: every order is on record
\* before it is sent, and is sent at most once.
THEOREM SentAtMostOnce == Spec => AtMostOnce
<1>1. Init => Ledger!Init
  BY DEF Init, Ledger!Init
<1>2. TypeInv /\ TypeInv' /\ LedgerInv /\ [Next]_vars => LedgerStep
  BY LedgerNext
<1> QED BY <1>1, <1>2, LedgerInvariant, PTL DEF Spec, AtMostOnce, Ledger!Spec, LedgerStep

-----------------------------------------------------------------------------
(* Fills.  A counted execution is a seen one.                              *)

FillsSeen == \A e \in ExecIds : fills[e] <= 1 /\ (fills[e] > 0 => e \in seen)

LEMMA FillsNext ==
  ASSUME TypeInv, FillsSeen, [Next]_vars
  PROVE  FillsSeen'
<1>1. ASSUME NEW E, Recorded(E) PROVE FillsSeen'
  BY <1>1 DEF Recorded, FillsSeen, TypeInv, TypeOK
<1>2. ASSUME ProcessGone PROVE FillsSeen'
  BY <1>2 DEF ProcessGone, FillsSeen
<1>3. ASSUME UNCHANGED <<seen, fills>> PROVE FillsSeen'
  BY <1>3 DEF FillsSeen
<1>4. CASE \E e \in ExecIds : on_execution(e)
  BY <1>1, <1>4 DEF on_execution
<1>5. CASE ReconcileExecutions
  BY <1>1, <1>5 DEF ReconcileExecutions, executions
<1>6. CASE Crash
  BY <1>2, <1>6 DEF Crash
<1>7. CASE ReconcileOpenFails
  BY <1>2, <1>3, <1>7 DEF ReconcileOpenFails
<1>8. CASE \E c \in Cycles, s \in Symbols :
             place_bracket(c, s) \/ SendBracket(c, s) \/ SendBracketFails(c, s)
  BY <1>3, <1>8 DEF place_bracket, SendBracket, SendBracketFails
<1>9. CASE BrokerReceive \/ BrokerRefuse \/ FetchAccount \/ Disconnect \/ Reconnect \/ Start
  BY <1>3, <1>9
       DEF BrokerReceive, BrokerRefuse, FetchAccount, Disconnect, Reconnect, Start,
           load_from_store, account_snapshot, procVars
<1>10. CASE \E r \in Refs : \/ BrokerFillEntry(r) \/ BrokerFillExit(r) \/ BrokerCancel(r)
                            \/ on_order_status(r)
  BY <1>3, <1>10 DEF BrokerFillEntry, BrokerFillExit, BrokerCancel, on_order_status, procVars
<1>11. CASE ReconcileOpen \/ ReconcileResolve \/ ReconcileFinish
            \/ SendProtectiveStop \/ SendProtectiveStopFails
  BY <1>3, <1>11
       DEF ReconcileOpen, open_orders, ReconcileResolve, completed_orders,
           ReconcileFinish, cancel_order, SendProtectiveStop,
                     SendProtectiveStopFails
<1>12. CASE \E s \in Symbols : EmitProtectiveStop(s) \/ NoReferencePrice(s)
  BY <1>3, <1>12 DEF EmitProtectiveStop, NoReferencePrice
<1>13. CASE UNCHANGED vars
  BY <1>3, <1>13 DEF vars, procVars
<1> QED BY <1>4, <1>5, <1>6, <1>7, <1>8, <1>9, <1>10, <1>11, <1>12, <1>13 DEF Next

\* However often the broker reports an execution, it is recorded once.
THEOREM FillsOnceHolds == Spec => []FillsOnce
<1>1. Init => FillsSeen
  BY DEF Init, FillsSeen
<1>2. Spec => []TypeInv
  BY TypeInit, TypeNext, PTL DEF Spec
<1>3. TypeInv /\ FillsSeen /\ [Next]_vars => FillsSeen'
  BY FillsNext
<1>4. FillsSeen => FillsOnce
  BY DEF FillsSeen, FillsOnce
<1> QED BY <1>1, <1>2, <1>3, <1>4, PTL DEF Spec

-----------------------------------------------------------------------------
(* Steady connections.  While the socket is not lost, reconcile() only     *)
(* runs before the loops do, and its three answers describe one moment:    *)
(* rows and book then agree for as long as the process lives.              *)

\* At work at the broker, or on its way there.
Out(r) == Live(r) \/ OnWire(r)

\* A ref is on the wire once, in whole, and before it is in the book.
WireFresh ==
  /\ \A i \in DOMAIN wire : wire[i].transmit /\ book[wire[i].ref].st = "Absent"
  /\ \A i, j \in DOMAIN wire : wire[i].ref = wire[j].ref => i = j
  /\ \A r \in Refs : book[r].st # "Held"

\* Reconciliation runs in start() only, alone, and on a silent wire until it sends.
StartsAlone ==
  /\ phase # "down" => conn
  /\ phase = "down" => wire = <<>> /\ \A r \in Refs : orders[r] = NoRow
  /\ rec.pc # "idle" => phase = "starting"
  /\ phase = "starting" => calls = {}
  /\ rec.pc \in {"open", "completed", "exec"} => wire = <<>>

\* No order came to work since open_orders() answered.
OpenComplete == rec.pc = "completed" => \A r \in Refs : Live(r) => rec.open[r] # Absent

\* Once the rows are resolved, what is at work or on its way has a working row.
Resolving == phase = "running" \/ rec.pc \in {"exec", "protect", "send"}
OutIsWorking == Resolving => \A r \in Refs : Out(r) => is_working(store[r])

\* A bracket that waits for the pacer has working rows.
CallsWorking ==
  \A c \in Cycles, s \in Symbols : <<c, s>> \in calls =>
    \A r \in Legs(c, s) : is_working(store[r])

CancelledInStoreIsDead ==
  \A r \in Refs : store[r].state = "CANCELLED" => ~Out(r)

\* At work, on its way, or about to be sent.
Contends(r) == IsEntry(r) /\ (Out(r) \/ <<r[1], r[2]>> \in calls)

Alone == \A r, q \in Refs : Contends(r) /\ Contends(q) /\ Sym(r) = Sym(q) => r = q

SteadyInv ==
  /\ WireFresh /\ StartsAlone /\ OpenComplete
  /\ OutIsWorking /\ CallsWorking /\ CancelledInStoreIsDead /\ Alone

\* Messages of distinct refs, none of them among those before, keep refs distinct.
LEMMA AppendedDistinct ==
  ASSUME NEW w \in Seq(WireMessage), NEW t \in Seq(WireMessage),
         \A i, j \in DOMAIN w : w[i].ref = w[j].ref => i = j,
         \A i, j \in DOMAIN t : t[i].ref = t[j].ref => i = j,
         \A i \in DOMAIN w, j \in DOMAIN t : w[i].ref # t[j].ref
  PROVE  \A i, j \in DOMAIN (w \o t) : (w \o t)[i].ref = (w \o t)[j].ref => i = j
<1>1. /\ DOMAIN w = 1..Len(w) /\ DOMAIN t = 1..Len(t) /\ DOMAIN (w \o t) = 1..(Len(w) + Len(t))
      /\ Len(w) \in Nat /\ Len(t) \in Nat
  OBVIOUS
<1>2. \A i \in DOMAIN w : (w \o t)[i] = w[i]
  OBVIOUS
<1>3. \A i \in DOMAIN (w \o t) \ DOMAIN w :
        i - Len(w) \in DOMAIN t /\ (w \o t)[i] = t[i - Len(w)]
  OBVIOUS
<1> DEFINE wt == w \o t
<1> HIDE DEF wt
<1>4. /\ DOMAIN wt = 1..(Len(w) + Len(t))
      /\ \A i \in DOMAIN w : wt[i] = w[i]
      /\ \A i \in DOMAIN wt \ DOMAIN w : i - Len(w) \in DOMAIN t /\ wt[i] = t[i - Len(w)]
  BY <1>1, <1>2, <1>3 DEF wt
<1>5. ASSUME NEW i \in DOMAIN wt, NEW j \in DOMAIN wt, wt[i].ref = wt[j].ref PROVE i = j
  <2>1. CASE i \in DOMAIN w /\ j \in DOMAIN w
    BY <1>4, <1>5, <2>1
  <2>2. CASE i \in DOMAIN w /\ j \notin DOMAIN w
    BY <1>4, <1>5, <2>2
  <2>3. CASE i \notin DOMAIN w /\ j \in DOMAIN w
    BY <1>4, <1>5, <2>3
  <2>4. CASE i \notin DOMAIN w /\ j \notin DOMAIN w
    <3>1. i - Len(w) = j - Len(w)
      BY <1>4, <1>5, <2>4
    <3> QED BY <1>1, <1>4, <3>1
  <2> QED BY <2>1, <2>2, <2>3, <2>4
<1> QED BY <1>5 DEF wt

\* What SendBracket and SendProtectiveStop put on the wire is new there, and to the book.
LEMMA FreshAppended ==
  ASSUME TypeInv, LedgerInv, WireFresh, NEW t \in Seq(WireMessage), wire' = wire \o t,
         UNCHANGED book,
         \A i, j \in DOMAIN t : t[i].ref = t[j].ref => i = j,
         \A i \in DOMAIN t : t[i].transmit /\ t[i].ref \in Refs /\ sent[t[i].ref] = 0
  PROVE  WireFresh'
<1>1. wire \in Seq(WireMessage)
  BY DEF TypeInv, TypeOK
<1>2. \A i \in DOMAIN t : ~OnWire(t[i].ref) /\ book[t[i].ref].st = "Absent"
  BY DEF LedgerInv, OutIsSent
<1>3. \A i \in DOMAIN wire, j \in DOMAIN t : wire[i].ref # t[j].ref
  BY <1>2 DEF OnWire
<1>4. \A i, j \in DOMAIN wire' : wire'[i].ref = wire'[j].ref => i = j
  BY <1>1, <1>3, AppendedDistinct DEF WireFresh
<1>5. \A i \in DOMAIN wire' : wire'[i].transmit /\ book[wire'[i].ref].st = "Absent"
  BY <1>1, <1>2, Appended DEF WireFresh
<1> QED BY <1>4, <1>5 DEF WireFresh

\* What is on the wire is an order of ours.
LEMMA WireRefs ==
  ASSUME TypeInv
  PROVE  \A i \in DOMAIN wire : wire[i].ref \in Refs
<1>1. wire \in Seq(WireMessage)
  BY DEF TypeInv, TypeOK
<1>2. \A i \in DOMAIN wire : wire[i] \in WireMessage
  BY ONLY <1>1
<1> QED BY ONLY <1>2 DEF WireMessage

\* A fill or a cancel ends, or keeps, an order that is at work; others it leaves alone.
LEMMA BrokerActs ==
  ASSUME TypeInv, NEW r \in Refs, BrokerFillEntry(r) \/ BrokerFillExit(r) \/ BrokerCancel(r),
         NEW x \in Refs
  PROVE  \/ book'[x].st = book[x].st
         \/ Live(x) /\ book'[x].st \in {"Submitted", "Filled", "Cancelled"}
<1>1. book \in [Refs -> BrokerOrder]
  BY DEF TypeInv, TypeOK
<1>2. CASE BrokerFillEntry(r)
  <2>1. book' = [book EXCEPT ![r].filled = @ + 1,
                             ![r].st = IF book[r].filled + 1 = book[r].qty
                                       THEN "Filled" ELSE "Submitted"]
    BY ONLY <1>2 DEF BrokerFillEntry
  <2>2. x = r => Live(x) /\ book'[x].st \in {"Submitted", "Filled"}
    BY ONLY <1>1, <1>2, <2>1 DEF BrokerFillEntry, BrokerOrder
  <2>3. x # r => book'[x] = book[x]
    BY ONLY <1>1, <2>1
  <2> QED BY <2>2, <2>3
<1>3. CASE BrokerFillExit(r)
  <2> DEFINE q == IF IsChild(r) THEN -book[Parent(r)].filled ELSE book[r].qty
  <2>1. /\ book' = [y \in Refs |->
                      IF y = r THEN [book[r] EXCEPT !.st = "Filled", !.filled = Abs(q)]
                      ELSE IF IsChild(r) /\ IsChild(y) /\ y \in Group(r) /\ Live(y)
                      THEN [book[y] EXCEPT !.st = "Cancelled"]
                      ELSE book[y]]
        /\ Live(r)
    BY ONLY <1>3 DEF BrokerFillExit
  <2> HIDE DEF q
  <2>2. /\ [book[r] EXCEPT !.st = "Filled", !.filled = Abs(q)].st = "Filled"
        /\ [book[x] EXCEPT !.st = "Cancelled"].st = "Cancelled"
    BY ONLY <1>1 DEF BrokerOrder
  <2> QED BY ONLY <2>1, <2>2
<1>4. CASE BrokerCancel(r)
  <2>1. [book[x] EXCEPT !.st = "Cancelled"].st = "Cancelled"
    BY ONLY <1>1 DEF BrokerOrder
  <2>2. book'[x] = book[x] \/ (Live(x) /\ book'[x] = [book[x] EXCEPT !.st = "Cancelled"])
    BY ONLY <1>4 DEF BrokerCancel
  <2> QED BY ONLY <2>1, <2>2
<1> QED BY <1>2, <1>3, <1>4

LEMMA WireFreshNext ==
  ASSUME TypeInv, LedgerInv, WireFresh, [Next]_vars
  PROVE  WireFresh'
<1>1. ASSUME NEW c \in Cycles, NEW s \in Symbols, SendBracket(c, s) PROVE WireFresh'
  <2> DEFINE t == <<Message(make_ref(c, s, "ENTRY"), Qty),
                    Message(make_ref(c, s, "TARGET"), -Qty),
                    Message(make_ref(c, s, "STOP"), -Qty)>>
  <2>1. \A r \in Legs(c, s) : r \in Refs /\ sent[r] = 0
    BY <1>1, LegsAreRefs DEF SendBracket, LedgerInv, CallsFresh
  <2>2. /\ make_ref(c, s, "ENTRY") # make_ref(c, s, "TARGET")
        /\ make_ref(c, s, "ENTRY") # make_ref(c, s, "STOP")
        /\ make_ref(c, s, "TARGET") # make_ref(c, s, "STOP")
    BY DEF make_ref
  <2>3. \A k \in {"ENTRY", "STOP", "TARGET"}, q \in Int :
          /\ Message(make_ref(c, s, k), q) \in WireMessage
          /\ Message(make_ref(c, s, k), q).ref = make_ref(c, s, k)
          /\ Message(make_ref(c, s, k), q).transmit
    BY LegsAreRefs, MessageType DEF Message, Transmit
  <2>4. t \in Seq(WireMessage) /\ DOMAIN t = {1, 2, 3}
    BY <2>3, QtyAssumption
  <2>5. /\ t[1].ref = make_ref(c, s, "ENTRY") /\ t[2].ref = make_ref(c, s, "TARGET")
        /\ t[3].ref = make_ref(c, s, "STOP")
        /\ \A i \in {1, 2, 3} : t[i].transmit
    BY <2>3, QtyAssumption
  <2>6. wire' = wire \o t /\ UNCHANGED book
    BY <1>1 DEF SendBracket
  <2> HIDE DEF t
  <2> QED BY <2>1, <2>2, <2>4, <2>5, <2>6, LegsAreRefs, FreshAppended
<1>2. CASE SendProtectiveStop
  <2> DEFINE r == rec.ref
             m == Message(r, -rec.acct[Sym(r)])
  <2>1. r \in Refs /\ sent[r] = 0
    BY <1>2 DEF SendProtectiveStop, TypeInv, SendSound, Refs, LedgerInv, StopFresh
  <2>2. -rec.acct[Sym(r)] \in Int
    BY <2>1, RefTypes DEF TypeInv, TypeOK, RecType
  <2>3. m \in WireMessage /\ m.ref = r /\ m.transmit
    BY <2>1, <2>2, MessageType DEF Message, Transmit
  <2>4. wire' = Append(wire, m) /\ UNCHANGED book /\ wire \in Seq(WireMessage)
    BY <1>2 DEF SendProtectiveStop, TypeInv, TypeOK
  <2> HIDE DEF r, m
  <2>5. wire' = wire \o <<m>> /\ <<m>> \in Seq(WireMessage) /\ DOMAIN <<m>> = {1} /\ <<m>>[1] = m
    BY <2>3, <2>4
  <2> QED BY <2>1, <2>3, <2>4, <2>5, FreshAppended
<1>3. CASE BrokerReceive \/ BrokerRefuse
  <2>1. wire # <<>> /\ wire' = Tail(wire) /\ wire \in Seq(WireMessage)
    BY <1>3 DEF BrokerReceive, BrokerRefuse, TypeInv, TypeOK
  <2>2. 1 \in DOMAIN wire /\ Head(wire) = wire[1] /\ Head(wire).ref \in Refs
    BY <2>1, Received DEF WireMessage
  <2>3. \A i \in DOMAIN wire' : /\ i + 1 \in DOMAIN wire /\ wire'[i] = wire[i + 1]
                                /\ i \in Nat /\ i # 0
    BY <2>1, Received
  <2>4. \A i \in DOMAIN wire' : wire'[i].ref # Head(wire).ref
    BY <2>2, <2>3 DEF WireFresh
  <2>5. \A r \in Refs : /\ r # Head(wire).ref => book'[r] = book[r]
                        /\ book'[r].st # "Held"
    BY <1>3, <2>2 DEF BrokerReceive, BrokerRefuse, WireFresh, TypeInv, TypeOK, BrokerOrder
  <2>6. \A i \in DOMAIN wire' : wire'[i].ref \in Refs
    BY <2>3, WireRefs
  <2>7. \A i, j \in DOMAIN wire' : wire'[i].ref = wire'[j].ref => i = j
    <3> SUFFICES ASSUME NEW i \in DOMAIN wire', NEW j \in DOMAIN wire',
                        wire'[i].ref = wire'[j].ref
                 PROVE  i = j
      OBVIOUS
    <3>1. i + 1 = j + 1
      BY <2>3 DEF WireFresh
    <3> QED BY <2>3, <3>1
  <2> QED BY <2>3, <2>4, <2>5, <2>6, <2>7 DEF WireFresh
<1>4. ASSUME wire' = wire \/ wire' = <<>>,
             \A r \in Refs : /\ book[r].st = "Absent" => book'[r].st = "Absent"
                             /\ book'[r].st # "Held"
      PROVE  WireFresh'
  <2>1. CASE wire' = wire
    <3> QED BY <1>4, <2>1, WireRefs DEF WireFresh
  <2>2. CASE wire' = <<>>
    BY <1>4, <2>2, EmptyWire DEF WireFresh
  <2> QED BY <1>4, <2>1, <2>2
<1>5. ASSUME NEW r \in Refs, BrokerFillEntry(r) \/ BrokerFillExit(r) \/ BrokerCancel(r)
      PROVE  WireFresh'
  <2>1. \A x \in Refs : /\ book[x].st = "Absent" => book'[x].st = "Absent"
                        /\ book'[x].st # "Held"
    BY <1>5, BrokerActs DEF Live, WireFresh
  <2>2. wire' = wire
    BY <1>5 DEF BrokerFillEntry, BrokerFillExit, BrokerCancel
  <2> QED BY <1>4, <2>1, <2>2
<1>6. ASSUME UNCHANGED book, wire' = wire \/ wire' = <<>> PROVE WireFresh'
  BY <1>4, <1>6 DEF WireFresh
<1> QED
  BY <1>1, <1>2, <1>3, <1>5, <1>6
  DEF Next, place_bracket, SendBracketFails, on_order_status, on_execution, FetchAccount, Disconnect,
      Reconnect, Crash, ProcessGone, Start, ReconcileOpen, ReconcileOpenFails, ReconcileResolve,
      ReconcileExecutions, EmitProtectiveStop, NoReferencePrice, SendProtectiveStopFails,
      ReconcileFinish, vars, brokerVars

\* The socket to IB Gateway has not been lost.
NeverLost == disconnects = 0

\* It is not lost in this step either.
Steady == NeverLost /\ NeverLost'

LEMMA NoLoss == Steady => ~Disconnect
BY DEF Steady, NeverLost, Disconnect

LEMMA StartsAloneNext ==
  ASSUME TypeInv, LedgerInv, StartsAlone, Steady, [Next]_vars
  PROVE  StartsAlone'
<1> USE DEF StartsAlone
<1>1. ASSUME NEW c \in Cycles, NEW s \in Symbols,
             place_bracket(c, s) \/ SendBracket(c, s) \/ SendBracketFails(c, s)
      PROVE  StartsAlone'
  BY <1>1 DEF place_bracket, SendBracket, SendBracketFails, brokerVars, LedgerInv, DownIsIdle
<1>2. CASE BrokerReceive \/ BrokerRefuse
  BY <1>2 DEF BrokerReceive, BrokerRefuse, procVars
<1>3. ASSUME NEW r \in Refs,
             \/ BrokerFillEntry(r) \/ BrokerFillExit(r) \/ BrokerCancel(r) \/ on_order_status(r)
      PROVE  StartsAlone'
  BY <1>3 DEF BrokerFillEntry, BrokerFillExit, BrokerCancel, on_order_status, procVars, brokerVars
<1>4. CASE FetchAccount \/ \E e \in ExecIds : on_execution(e)
  BY <1>4 DEF FetchAccount, on_execution, brokerVars
<1>5. ASSUME ProcessGone PROVE StartsAlone'
  BY <1>5, IdleType DEF ProcessGone
<1>6. CASE Crash
  BY <1>5, <1>6 DEF Crash
<1>7. ~Disconnect /\ ~Reconnect
  BY NoLoss DEF Reconnect
<1>8. CASE Start
  BY <1>8, IdleType DEF Start, BeginReconcile, Idle, brokerVars, LedgerInv, DownIsIdle
<1>9. CASE ReconcileOpen \/ ReconcileResolve \/ ReconcileExecutions
  BY <1>9 DEF ReconcileOpen, ReconcileResolve, ReconcileExecutions, brokerVars, LedgerInv,
              DownIsIdle, TypeInv, TypeOK, RecType
<1>10. CASE ReconcileOpenFails
  BY <1>5, <1>10, IdleType DEF ReconcileOpenFails
<1>11. ASSUME NEW s \in Symbols, EmitProtectiveStop(s) \/ NoReferencePrice(s)
       PROVE  StartsAlone'
  BY <1>11 DEF EmitProtectiveStop, NoReferencePrice, brokerVars, LedgerInv, DownIsIdle, TypeInv,
               TypeOK, RecType
<1>12. CASE SendProtectiveStop \/ SendProtectiveStopFails
  BY <1>12 DEF SendProtectiveStop, SendProtectiveStopFails, brokerVars, LedgerInv, DownIsIdle,
               TypeInv, TypeOK, RecType
<1>13. CASE ReconcileFinish
  BY <1>13, IdleType DEF ReconcileFinish, LedgerInv, DownIsIdle
<1>14. CASE UNCHANGED vars
  BY <1>14 DEF vars, procVars, brokerVars
<1> QED
  BY <1>1, <1>2, <1>3, <1>4, <1>6, <1>7, <1>8, <1>9, <1>10, <1>11, <1>12, <1>13, <1>14 DEF Next

\* Only the two sending steps put a new order to work or on its way.
LEMMA OutNext ==
  ASSUME TypeInv, WireFresh, [Next]_vars, NEW r \in Refs, Out(r)'
  PROVE  \/ Out(r)
         \/ \E c \in Cycles, s \in Symbols : SendBracket(c, s) /\ r \in Legs(c, s)
         \/ SendProtectiveStop /\ r = rec.ref
<1>0. wire \in Seq(WireMessage) /\ book \in [Refs -> BrokerOrder]
  BY DEF TypeInv, TypeOK
<1>1. ASSUME NEW c \in Cycles, NEW s \in Symbols, SendBracket(c, s)
      PROVE  Out(r) \/ r \in Legs(c, s)
  <2> DEFINE t == <<Message(make_ref(c, s, "ENTRY"), Qty),
                    Message(make_ref(c, s, "TARGET"), -Qty),
                    Message(make_ref(c, s, "STOP"), -Qty)>>
  <2>1. t \in Seq(WireMessage) /\ \A j \in DOMAIN t : t[j].ref \in Legs(c, s)
    BY MessageType, LegsAreRefs, QtyAssumption
  <2>2. wire' = wire \o t /\ UNCHANGED book
    BY <1>1 DEF SendBracket
  <2> HIDE DEF t
  <2>3. OnWire(r)' => OnWire(r) \/ r \in Legs(c, s)
    BY <1>0, <2>1, <2>2, OnWireAppended
  <2> QED BY <2>2, <2>3 DEF Out, Live
<1>2. CASE SendProtectiveStop
  <2>1. rec.ref \in Refs
    BY <1>2 DEF SendProtectiveStop, TypeInv, SendSound, Refs
  <2> DEFINE m == Message(rec.ref, -rec.acct[Sym(rec.ref)])
  <2>2. m \in WireMessage /\ m.ref = rec.ref
    BY <2>1, MessageType, RefTypes DEF TypeInv, TypeOK, RecType
  <2>3. wire' = Append(wire, m) /\ UNCHANGED book
    BY <1>2 DEF SendProtectiveStop
  <2> HIDE DEF m
  <2>4. wire' = wire \o <<m>> /\ <<m>> \in Seq(WireMessage)
        /\ \A j \in DOMAIN <<m>> : <<m>>[j].ref \in {rec.ref}
    BY <1>0, <2>2, <2>3
  <2>5. OnWire(r)' => OnWire(r) \/ r \in {rec.ref}
    BY <1>0, <2>4, OnWireAppended
  <2> QED BY <1>2, <2>3, <2>5 DEF Out, Live
<1>3. CASE BrokerReceive \/ BrokerRefuse
  <2>1. wire # <<>> /\ wire' = Tail(wire)
    BY <1>3 DEF BrokerReceive, BrokerRefuse
  <2>2. OnWire(Head(wire).ref)
    BY <1>0, <2>1, Received DEF OnWire
  <2>3. OnWire(r)' => OnWire(r)
    BY <1>0, <2>1, Received DEF OnWire
  <2>4. Live(r)' => Live(r) \/ r = Head(wire).ref
    BY <1>0, <1>3 DEF BrokerReceive, BrokerRefuse, Live, WireFresh
  <2> QED BY <2>2, <2>3, <2>4 DEF Out
<1>4. ASSUME NEW x \in Refs, BrokerFillEntry(x) \/ BrokerFillExit(x) \/ BrokerCancel(x)
      PROVE  Out(r)
  <2>1. Live(r)' => Live(r)
    BY <1>4, BrokerActs DEF Live
  <2>2. wire' = wire
    BY <1>4 DEF BrokerFillEntry, BrokerFillExit, BrokerCancel
  <2> QED BY <2>1, <2>2 DEF Out, OnWire
<1>5. ASSUME UNCHANGED book, wire' = wire \/ wire' = <<>> PROVE Out(r)
  BY <1>5, EmptyWire DEF Out, OnWire, Live
<1> QED
  BY <1>1, <1>2, <1>3, <1>4, <1>5
  DEF Next, place_bracket, SendBracketFails, on_order_status, on_execution, FetchAccount, Disconnect,
      Reconnect, Crash, ProcessGone, Start, ReconcileOpen, ReconcileOpenFails, ReconcileResolve,
      ReconcileExecutions, EmitProtectiveStop, NoReferencePrice, SendProtectiveStopFails,
      ReconcileFinish, vars, brokerVars

LEMMA OpenCompleteNext ==
  ASSUME TypeInv, WireFresh, StartsAlone, OpenComplete, Steady, [Next]_vars
  PROVE  OpenComplete'
<1> SUFFICES ASSUME rec'.pc = "completed", NEW r \in Refs, Live(r)'
             PROVE  rec'.open[r] # Absent
  BY DEF OpenComplete
<1>1. CASE ReconcileOpen
  <2>1. rec'.open[r] = book'[r]
    BY <1>1 DEF ReconcileOpen, open_orders, Live, brokerVars, TypeInv, TypeOK, RecType
  <2>2. Absent.st = "Absent"
    BY DEF Absent
  <2> QED BY <2>1, <2>2 DEF Live
<1>2. CASE rec' = rec
  <2>1. phase = "starting" /\ wire = <<>> /\ calls = {}
    BY <1>2 DEF StartsAlone
  <2>2. ~SendProtectiveStop /\ \A c \in Cycles, s \in Symbols : ~SendBracket(c, s)
    BY <1>2, <2>1 DEF SendProtectiveStop, SendBracket
  <2>3. Out(r)
    BY <2>2, OutNext DEF Out
  <2>4. Live(r)
    BY <2>1, <2>3, EmptyWire DEF Out, OnWire
  <2> QED BY <1>2, <2>4 DEF OpenComplete
<1>3. rec' = rec \/ ReconcileOpen \/ rec'.pc # "completed"
  BY IdleType
  DEF Next, place_bracket, SendBracket, SendBracketFails, BrokerReceive, BrokerRefuse,
      BrokerFillEntry, BrokerFillExit, BrokerCancel, on_order_status, on_execution, FetchAccount,
      Disconnect, Reconnect, BeginReconcile, Crash, ProcessGone, Start, ReconcileOpenFails,
      ReconcileResolve, ReconcileExecutions, EmitProtectiveStop, NoReferencePrice,
      SendProtectiveStop, SendProtectiveStopFails, ReconcileFinish, vars, procVars, TypeInv, TypeOK,
      RecType, Idle
<1> QED BY <1>1, <1>2, <1>3

\* The state that _apply_status leaves in a row.
LEMMA AppliedState ==
  ASSUME NEW row \in Row \cup {NoRow}, NEW st \in Statuses, NEW n \in Nat
  PROVE  /\ st \in {"PendingSubmit", "Submitted"} => is_working(ApplyStatus(row, st, n))
         /\ ApplyStatus(row, st, n).state = "CANCELLED" => st = "Cancelled"
<1> DEFINE known == IF row = NoRow THEN ManagedOrder(FALSE, FALSE) ELSE row
           state == IF n > 0 /\ STATUS_MAP(st) \notin {"FILLED", "CANCELLED"}
                    THEN "PARTIAL" ELSE STATUS_MAP(st)
<1>1. known \in Row
  BY DEF Row, NoRow, ManagedOrder, OrderState
<1>2. /\ st \in {"PendingSubmit", "Submitted"} => state \in WorkingState
      /\ state = "CANCELLED" => st = "Cancelled"
  BY DEF Statuses, STATUS_MAP, WorkingState
<1>3. ApplyStatus(row, st, n) = [known EXCEPT !.state = state, !.ib = TRUE, !.filled = n]
  BY DEF ApplyStatus
<1> HIDE DEF known, state
<1>4. ApplyStatus(row, st, n).state = state
  BY <1>1, <1>3 DEF Row
<1> QED BY <1>2, <1>4 DEF is_working

\* What SteadyInv says of the rows.
RowsSound == OutIsWorking /\ CallsWorking /\ CancelledInStoreIsDead /\ Alone

\* A step that changes no row and puts no order to work.
LEMMA RowsKept ==
  ASSUME RowsSound, UNCHANGED store, calls' \subseteq calls, Resolving' => Resolving,
         \A r \in Refs : Out(r)' => Out(r)
  PROVE  RowsSound'
<1> USE DEF RowsSound
<1>1. OutIsWorking' /\ CancelledInStoreIsDead'
  BY DEF OutIsWorking, CancelledInStoreIsDead, is_working
<1>2. CallsWorking'
  BY DEF CallsWorking, is_working
<1>3. \A r \in Refs : Contends(r)' => Contends(r)
  BY DEF Contends
<1>4. Alone'
  BY <1>3 DEF Alone
<1> QED BY <1>1, <1>2, <1>4

\* A step that writes one row, none of a waiting bracket's, puts at most that order
\* to work, and leaves the row working if it is.
LEMMA RowWritten ==
  ASSUME RowsSound, calls' = calls, Resolving' => Resolving,
         NEW r \in Refs,
         \A x \in Refs \ {r} : store'[x] = store[x],
         Out(r)' => is_working(store'[r]),
         \A c \in Cycles, s \in Symbols : <<c, s>> \in calls => r \notin Legs(c, s),
         \A x \in Refs : Out(x)' => Out(x) \/ (x = r /\ ~IsEntry(r))
  PROVE  RowsSound'
<1> USE DEF RowsSound
<1>1. \A row : is_working(row) => row.state # "CANCELLED"
  BY DEF is_working, WorkingState
<1>2. OutIsWorking'
  BY DEF OutIsWorking, is_working
<1>3. CancelledInStoreIsDead'
  BY <1>1 DEF CancelledInStoreIsDead
<1>4. CallsWorking'
  BY LegsAreRefs DEF CallsWorking, is_working
<1>5. \A x \in Refs : Contends(x)' => Contends(x)
  BY DEF Contends
<1>6. Alone'
  BY <1>5 DEF Alone
<1> QED BY <1>2, <1>3, <1>4, <1>6

LEMMA RowsNext ==
  ASSUME TypeInv, LedgerInv, WireFresh, StartsAlone, OpenComplete, RowsSound, Steady, [Next]_vars
  PROVE  RowsSound'
<1>0. /\ orders \in [Refs -> Row \cup {NoRow}] /\ book \in [Refs -> BrokerOrder]
      /\ phase # "down" => orders = store
  BY DEF TypeInv, TypeOK, LedgerInv, StoreMirrorsMemory
<1>1. ASSUME NEW c \in Cycles, NEW s \in Symbols, place_bracket(c, s) PROVE RowsSound'
  <2>1. /\ phase = "running" /\ orders = store /\ UNCHANGED <<wire, book, phase, rec>>
        /\ NotDuplicate(s)
    BY <1>0, <1>1 DEF place_bracket, brokerVars
  <2>2. \A r \in Refs : Out(r)' <=> Out(r)
    BY <2>1 DEF Out, OnWire, Live
  <2>3. CASE UNCHANGED <<store, calls>>
    BY <2>1, <2>2, <2>3, RowsKept DEF Resolving
  <2>4. CASE /\ ~AlreadyPlaced(make_ref(c, s, "ENTRY"))
             /\ orders' = [r \in Refs |-> IF r \in Legs(c, s) THEN BracketRow(r) ELSE orders[r]]
             /\ Persist(Legs(c, s))
             /\ calls' = calls \cup {<<c, s>>}
    <3>1. \A r \in Refs : store'[r] = IF r \in Legs(c, s) THEN BracketRow(r) ELSE store[r]
      BY <2>4 DEF Persist
    <3>2. \A r \in Refs : is_working(BracketRow(r)) /\ BracketRow(r).state # "CANCELLED"
      BY DEF BracketRow, ManagedOrder, is_working, WorkingState
    <3>3. OutIsWorking'
      BY <2>1, <2>2, <3>1, <3>2 DEF RowsSound, OutIsWorking, Resolving, is_working
    <3>4. CallsWorking'
      BY <2>4, <3>1, <3>2, LegsAreRefs DEF RowsSound, CallsWorking, is_working
    <3>5. CancelledInStoreIsDead'
      BY <2>2, <3>1, <3>2 DEF RowsSound, CancelledInStoreIsDead
    <3>6. ASSUME NEW r \in Refs, Contends(r), Sym(r) = s PROVE FALSE
      <4>1. is_working(store[r])
        <5>1. CASE Out(r)
          BY <2>1, <5>1 DEF RowsSound, OutIsWorking, Resolving
        <5>2. CASE <<r[1], r[2]>> \in calls
          <6>1. /\ r[1] \in Cycles /\ r[2] \in Symbols
                /\ r \in Legs(r[1], r[2])
            BY <3>6, <5>2, RefTypes DEF Contends, IsEntry, BracketRefs, Legs, make_ref
          <6> QED BY <5>2, <6>1 DEF RowsSound, CallsWorking
        <5> QED BY <3>6, <5>1, <5>2 DEF Contends
      <4> QED BY <2>1, <3>6, <4>1 DEF NotDuplicate, working_symbols
    <3>7. ASSUME NEW r \in Refs, Contends(r)' PROVE Contends(r) \/ r = make_ref(c, s, "ENTRY")
      <4>1. IsEntry(r) /\ (Out(r) \/ <<r[1], r[2]>> \in calls \/ <<r[1], r[2]>> = <<c, s>>)
        BY <2>2, <2>4, <3>7 DEF Contends
      <4>2. IsEntry(r) => r = <<r[1], r[2], "ENTRY">>
        BY RefTypes DEF IsEntry, BracketRefs
      <4> QED BY <4>1, <4>2 DEF Contends, make_ref
    <3>8. Sym(make_ref(c, s, "ENTRY")) = s
      BY DEF Sym, make_ref
    <3>9. Alone'
      BY <3>6, <3>7, <3>8 DEF RowsSound, Alone
    <3> QED BY <3>3, <3>4, <3>5, <3>9 DEF RowsSound
  <2> QED BY <1>1, <2>1, <2>3, <2>4 DEF place_bracket
<1>2. ASSUME NEW c \in Cycles, NEW s \in Symbols, SendBracket(c, s) PROVE RowsSound'
  <2>1. orders = store /\ UNCHANGED <<phase, rec>> /\ calls' = calls \ {<<c, s>>}
    BY <1>2, ProcessAlive DEF SendBracket
  <2>2. \A r \in Refs : Out(r)' => Out(r) \/ r \in Legs(c, s)
    <3> SUFFICES ASSUME NEW r \in Refs, Out(r)' PROVE Out(r) \/ r \in Legs(c, s)
      OBVIOUS
    <3>1. ~SendProtectiveStop
      BY <1>2 DEF SendBracket, SendProtectiveStop, StartsAlone
    <3>2. ASSUME NEW d \in Cycles, NEW u \in Symbols, SendBracket(d, u)
          PROVE  d = c /\ u = s
      <4>1. calls' = calls \ {<<d, u>>} /\ <<d, u>> \in calls
        BY <3>2 DEF SendBracket
      <4> QED BY <1>2, <2>1, <4>1 DEF SendBracket
    <3> QED BY <3>1, <3>2, OutNext
  <2>3. \A r \in Refs : store'[r] = IF r \in Legs(c, s) THEN PlacedRow(store[r]) ELSE store[r]
    BY <1>2, <2>1 DEF SendBracket, Persist
  <2>4. \A r \in Refs : /\ is_working(PlacedRow(store[r]))
                        /\ PlacedRow(store[r]).state # "CANCELLED"
    BY <1>0, <2>1, AppliedState DEF PlacedRow, Statuses
  <2>5. OutIsWorking'
    BY <2>1, <2>2, <2>3, <2>4 DEF RowsSound, OutIsWorking, Resolving, is_working
  <2>6. CallsWorking'
    BY <2>1, <2>3, <2>4, LegsAreRefs DEF RowsSound, CallsWorking, is_working
  <2>7. CancelledInStoreIsDead'
    BY <2>2, <2>3, <2>4 DEF RowsSound, CancelledInStoreIsDead
  <2>8. ASSUME NEW r \in Refs, Contends(r)' PROVE Contends(r)
    <3>1. r \in Legs(c, s) => <<r[1], r[2]>> = <<c, s>>
      BY DEF Legs, make_ref
    <3> QED BY <1>2, <2>1, <2>2, <2>8, <3>1 DEF Contends, SendBracket
  <2>9. Alone'
    BY <2>8 DEF RowsSound, Alone
  <2> QED BY <2>5, <2>6, <2>7, <2>9 DEF RowsSound
<1>3. ASSUME NEW r \in Refs, on_order_status(r) PROVE RowsSound'
  <2>1. /\ UNCHANGED <<phase, rec, calls, wire, book>> /\ book[r].st # "Absent"
        /\ \A x \in Refs \ {r} : store'[x] = store[x]
        /\ store'[r] = ReportedRow(orders[r], book[r])
        /\ book[r].st \in Statuses
    BY <1>0, <1>3 DEF on_order_status, brokerVars, Persist, Live, Completed, Statuses
  <2>2. \A x \in Refs : Out(x)' <=> Out(x)
    BY <2>1 DEF Out, OnWire, Live
  <2>3. ~OnWire(r)
    BY <2>1 DEF WireFresh, OnWire
  <2>4. book[r].filled \in Nat
    BY <1>0 DEF BrokerOrder
  <2>5. Out(r) => is_working(store'[r])
    BY <1>0, <2>1, <2>3, <2>4, AppliedState DEF Out, Live, ReportedRow
  <2>6. ASSUME NEW c \in Cycles, NEW s \in Symbols, <<c, s>> \in calls
        PROVE  r \notin Legs(c, s)
    BY <2>1, <2>6 DEF LedgerInv, CallsFresh, OutIsSent
  <2>7. Resolving' => Resolving
    BY <2>1 DEF Resolving
  <2> QED BY <2>1, <2>2, <2>5, <2>6, <2>7, RowWritten
<1>4. CASE ReconcileResolve
  <2>1. /\ rec.pc = "completed" /\ calls = {} /\ calls' = calls /\ orders = store
        /\ UNCHANGED <<wire, book>> /\ wire = <<>>
    BY <1>4, ProcessAlive DEF ReconcileResolve, brokerVars, StartsAlone
  <2>2. \A x \in Refs : Out(x)' <=> Out(x)
    BY <2>1 DEF Out, OnWire, Live
  <2>3. ASSUME NEW x \in Refs, Out(x) PROVE is_working(store'[x])
    <3>1. Live(x) /\ rec.open[x] # Absent /\ rec.open[x].st = "Submitted" /\ ~Completed(x)
      BY <2>1, <2>3, EmptyWire
      DEF Out, OnWire, OpenComplete, TypeInv, OpenSound, Live, Completed
    <3>2. rec.open[x].filled \in Nat
      BY DEF TypeInv, TypeOK, RecType, BrokerOrder
    <3>3. is_working(ReportedRow(orders[x], rec.open[x]))
      BY <1>0, <3>1, <3>2, AppliedState DEF ReportedRow, Statuses
    <3>4. \A C : C \subseteq {y \in Refs : Completed(y)}
                  => Resolved(x, C) = ReportedRow(orders[x], rec.open[x])
      BY <3>1 DEF Resolved
    <3>5. orders'[x] = ReportedRow(orders[x], rec.open[x])
      BY <1>4, <3>4 DEF ReconcileResolve, completed_orders
    <3> QED BY <1>4, <2>1, <3>3, <3>5 DEF ReconcileResolve, Persist
  <2>4. OutIsWorking' /\ CancelledInStoreIsDead'
    BY <2>2, <2>3 DEF OutIsWorking, CancelledInStoreIsDead, is_working, WorkingState
  <2>5. CallsWorking'
    BY <2>1 DEF CallsWorking
  <2>6. Alone'
    BY <2>1, <2>2 DEF RowsSound, Alone, Contends
  <2> QED BY <2>4, <2>5, <2>6 DEF RowsSound
<1>5. ASSUME NEW s \in Symbols, EmitProtectiveStop(s) PROVE RowsSound'
  <2>1. PICK p \in ProtectTags :
          /\ store[make_ref(p, s, "STOP")] = NoRow
          /\ orders' = [orders EXCEPT ![make_ref(p, s, "STOP")] = ManagedOrder(TRUE, TRUE)]
          /\ Persist({make_ref(p, s, "STOP")})
    BY <1>5 DEF EmitProtectiveStop
  <2> DEFINE r == make_ref(p, s, "STOP")
  <2>2. r \in Refs
    BY DEF make_ref, Refs, ProtectRefs
  <2>3. /\ UNCHANGED <<phase, calls, wire, book>> /\ calls = {}
        /\ rec.pc = "protect" /\ orders = store
        /\ store[r] = NoRow
    BY <1>5, <2>1, ProcessAlive DEF EmitProtectiveStop, brokerVars, StartsAlone
  <2>4. \A x \in Refs \ {r} : store'[x] = store[x]
    BY <2>1, <2>3 DEF Persist
  <2> HIDE DEF r
  <2>5. \A x \in Refs : Out(x)' <=> Out(x)
    BY <2>3 DEF Out, OnWire, Live
  <2>6. ~Out(r)
    BY <2>2, <2>3 DEF LedgerInv, SentIsStored, OutIsSent, Out, Live, TypeInv, TypeOK
  <2>7. Resolving
    BY <2>3 DEF Resolving
  <2> QED BY <2>2, <2>3, <2>4, <2>5, <2>6, <2>7, RowWritten
<1>6. CASE SendProtectiveStop
  <2> DEFINE r == rec.ref
  <2>1. r \in ProtectRefs /\ r \in Refs /\ rec.pc = "send"
    BY <1>6 DEF SendProtectiveStop, TypeInv, SendSound, Refs
  <2>2. /\ UNCHANGED <<phase, calls, book>> /\ calls = {} /\ orders = store
    BY <1>6, ProcessAlive DEF SendProtectiveStop, StartsAlone
  <2>3. ~IsEntry(r)
    BY <2>1 DEF ProtectRefs, IsEntry
  <2>4. /\ \A x \in Refs \ {r} : store'[x] = store[x]
        /\ store'[r] = PlacedRow(orders[r])
    BY <1>0, <1>6, <2>1, <2>2 DEF SendProtectiveStop, Persist
  <2>5. is_working(PlacedRow(orders[r]))
    BY <1>0, <2>1, AppliedState DEF PlacedRow, Statuses
  <2>6. \A x \in Refs : Out(x)' => Out(x) \/ x = r
    BY <2>2, OutNext DEF SendBracket
  <2>7. Resolving
    BY <2>1 DEF Resolving
  <2> HIDE DEF r
  <2> QED BY <2>1, <2>2, <2>3, <2>4, <2>5, <2>6, <2>7, RowWritten
<1>7. ASSUME UNCHANGED <<store, sent>>, calls' \subseteq calls, Resolving' => Resolving
      PROVE  RowsSound'
  <2>1. sent \in [Refs -> Nat] /\ \A n \in Nat : n + 1 # n
    BY DEF TypeInv, TypeOK
  <2>2. ~SendProtectiveStop
    <3>1. ASSUME SendProtectiveStop PROVE FALSE
      <4>1. rec.ref \in Refs
        BY <3>1 DEF SendProtectiveStop, TypeInv, SendSound, Refs
      <4> QED BY <1>7, <2>1, <3>1, <4>1 DEF SendProtectiveStop
    <3> QED BY <3>1
  <2>3. ASSUME NEW c \in Cycles, NEW s \in Symbols, SendBracket(c, s) PROVE FALSE
    <3>1. make_ref(c, s, "ENTRY") \in Refs /\ make_ref(c, s, "ENTRY") \in Legs(c, s)
      BY LegsAreRefs
    <3> QED BY <1>7, <2>1, <2>3, <3>1 DEF SendBracket
  <2> QED BY <1>7, <2>2, <2>3, OutNext, RowsKept
<1>8. ASSUME NEW c \in Cycles, NEW s \in Symbols, SendBracketFails(c, s) PROVE RowsSound'
  BY <1>7, <1>8 DEF SendBracketFails, Resolving
<1>9. CASE BrokerReceive \/ BrokerRefuse
  BY <1>7, <1>9 DEF BrokerReceive, BrokerRefuse, procVars, Resolving
<1>10. ASSUME NEW r \in Refs, BrokerFillEntry(r) \/ BrokerFillExit(r) \/ BrokerCancel(r)
       PROVE  RowsSound'
  BY <1>7, <1>10 DEF BrokerFillEntry, BrokerFillExit, BrokerCancel, procVars, Resolving
<1>11. CASE FetchAccount \/ \E e \in ExecIds : on_execution(e)
  BY <1>7, <1>11 DEF FetchAccount, on_execution, Resolving
<1>12. ASSUME ProcessGone, UNCHANGED <<store, sent>> PROVE RowsSound'
  BY <1>7, <1>12, IdleType DEF ProcessGone, Resolving
<1>13. CASE Crash
  BY <1>12, <1>13 DEF Crash
<1>14. ~Disconnect /\ ~Reconnect
  BY NoLoss DEF Reconnect, StartsAlone
<1>15. CASE Start
  BY <1>7, <1>15, IdleType DEF Start, BeginReconcile, Idle, Resolving
<1>16. CASE ReconcileOpenFails
  BY <1>12, <1>16 DEF ReconcileOpenFails, StartsAlone
<1>17. CASE ReconcileOpen
  BY <1>7, <1>17 DEF ReconcileOpen, Resolving, TypeInv, TypeOK, RecType
<1>18. CASE ReconcileExecutions
  BY <1>7, <1>18 DEF ReconcileExecutions, Resolving, TypeInv, TypeOK, RecType
<1>19. ASSUME NEW s \in Symbols, NoReferencePrice(s) PROVE RowsSound'
  BY <1>7, <1>19 DEF NoReferencePrice, Resolving, TypeInv, TypeOK, RecType
<1>20. CASE SendProtectiveStopFails
  BY <1>7, <1>20 DEF SendProtectiveStopFails, Resolving, TypeInv, TypeOK, RecType
<1>21. CASE ReconcileFinish
  BY <1>7, <1>21 DEF ReconcileFinish, Resolving
<1>22. CASE UNCHANGED vars
  BY <1>7, <1>22 DEF vars, procVars, Resolving
<1> QED
  BY <1>1, <1>2, <1>3, <1>4, <1>5, <1>6, <1>8, <1>9, <1>10, <1>11, <1>13, <1>14, <1>15, <1>16,
     <1>17, <1>18, <1>19, <1>20, <1>21, <1>22
  DEF Next

LEMMA SteadyInit == Init => SteadyInv
<1> SUFFICES ASSUME Init PROVE SteadyInv OBVIOUS
<1> USE DEF Init
<1>1. Absent.st = "Absent" /\ wire = <<>> /\ \A i \in DOMAIN wire : FALSE
  BY EmptyWire DEF Absent
<1>2. \A r \in Refs : ~Out(r)
  BY <1>1 DEF Out, OnWire, Live
<1>3. WireFresh
  BY <1>1 DEF WireFresh
<1>4. StartsAlone /\ OpenComplete /\ OutIsWorking
  BY <1>2, IdleType DEF StartsAlone, OpenComplete, OutIsWorking
<1>5. CallsWorking /\ CancelledInStoreIsDead /\ Alone
  BY <1>2 DEF CallsWorking, CancelledInStoreIsDead, Alone, Contends
<1> QED BY <1>3, <1>4, <1>5 DEF SteadyInv

LEMMA SteadyInvariant == Spec /\ []NeverLost => [](TypeInv /\ LedgerInv /\ SteadyInv)
<1>1. TypeInv /\ LedgerInv /\ SteadyInv /\ NeverLost /\ NeverLost' /\ [Next]_vars => SteadyInv'
  <2> SUFFICES ASSUME TypeInv, LedgerInv, SteadyInv, NeverLost, NeverLost', [Next]_vars
               PROVE  SteadyInv'
    OBVIOUS
  <2>1. Steady
    BY DEF Steady, NeverLost
  <2>2. RowsSound
    BY DEF SteadyInv, RowsSound
  <2> QED
    BY <2>1, <2>2, WireFreshNext, StartsAloneNext, OpenCompleteNext, RowsNext
    DEF SteadyInv, RowsSound
<1> QED BY <1>1, SteadyInit, LedgerInvariant, PTL DEF Spec

\* While the connection is never lost, a symbol has one entry at work at the broker
\* at most, through any number of crashes and restarts: check 20 (place_bracket)
\* sees a working row for whatever reconcile() left at work.
THEOREM LoneEntryHolds == Spec /\ []NeverLost => []LoneEntry
<1>1. TypeInv /\ SteadyInv => LoneEntry
  <2> SUFFICES ASSUME SteadyInv, NEW s \in Symbols PROVE Cardinality(InFlight(s)) <= 1
    BY DEF LoneEntry
  <2>1. \A r, q \in InFlight(s) : r = q
    BY DEF InFlight, SteadyInv, Alone, Contends, Out
  <2>2. CASE InFlight(s) = {}
    BY <2>2, FS_EmptySet
  <2>3. ASSUME NEW r \in InFlight(s) PROVE Cardinality(InFlight(s)) <= 1
    <3>1. InFlight(s) = {r}
      BY <2>1
    <3> QED BY <3>1, FS_Singleton
  <2> QED BY <2>2, <2>3
<1> QED BY <1>1, SteadyInvariant, PTL

\* While the connection is never lost, no order that reconcile() or a status event
\* marked CANCELLED is at work or on its way.
THEOREM CancelledIsDeadHolds == Spec /\ []NeverLost => []CancelledIsDead
<1>1. LedgerInv /\ SteadyInv => CancelledIsDead
  <2> SUFFICES ASSUME LedgerInv, SteadyInv, NEW r \in Refs, orders[r].state = "CANCELLED"
               PROVE  ~Out(r)
    BY DEF CancelledIsDead, Out
  <2>1. phase # "down"
    BY DEF SteadyInv, StartsAlone, NoRow
  <2>2. store[r].state = "CANCELLED"
    BY <2>1 DEF LedgerInv, StoreMirrorsMemory
  <2> QED BY <2>2 DEF SteadyInv, CancelledInStoreIsDead
<1> QED BY <1>1, SteadyInvariant, PTL

-----------------------------------------------------------------------------
(* What step 4 of reconcile() finds.  Once step 2 is over, a working row   *)
(* is one of an order that open_orders() had answered.                     *)

\* Targets have no stop price.
StopFlags == \A r \in Refs : orders[r].stop \/ store[r].stop => IsEntry(r) \/ IsStop(r)

RefusedIsEmpty == \A r \in Refs : book[r].st = "Inactive" => book[r].filled = 0

AnswerIsComplete ==
  rec.pc = "exec" => \A r \in Refs : is_working(orders[r]) \/ Live(r) => rec.open[r] # Absent

ProtectInv == StopFlags /\ RefusedIsEmpty /\ AnswerIsComplete

\* A completed order leaves no working row, and _apply_status sets no stop price.
LEMMA AppliedOver ==
  ASSUME NEW row \in Row \cup {NoRow}, NEW st \in Statuses, NEW n \in Nat
  PROVE  /\ st \in {"Filled", "Cancelled", "Inactive"} /\ (st = "Inactive" => n = 0)
              => ~is_working(ApplyStatus(row, st, n))
         /\ ApplyStatus(row, st, n).stop => row.stop
<1> DEFINE known == IF row = NoRow THEN ManagedOrder(FALSE, FALSE) ELSE row
           state == IF n > 0 /\ STATUS_MAP(st) \notin {"FILLED", "CANCELLED"}
                    THEN "PARTIAL" ELSE STATUS_MAP(st)
<1>1. known \in Row /\ (known.stop => row.stop)
  BY DEF Row, NoRow, ManagedOrder, OrderState
<1>2. st \in {"Filled", "Cancelled", "Inactive"} /\ (st = "Inactive" => n = 0)
        => state \notin WorkingState
  BY DEF Statuses, STATUS_MAP, WorkingState
<1>3. ApplyStatus(row, st, n) = [known EXCEPT !.state = state, !.ib = TRUE, !.filled = n]
  BY DEF ApplyStatus
<1> HIDE DEF known, state
<1>4. ApplyStatus(row, st, n).state = state /\ ApplyStatus(row, st, n).stop = known.stop
  BY <1>1, <1>3 DEF Row
<1> QED BY <1>1, <1>2, <1>4 DEF is_working

\* What reconcile() makes of a row: none works that the broker did not answer as open.
LEMMA ResolvedOver ==
  ASSUME TypeInv, RefusedIsEmpty, NEW r \in Refs,
         NEW C, C \subseteq {x \in Refs : Completed(x)}
  PROVE  /\ is_working(Resolved(r, C)) => rec.open[r] # Absent
         /\ Resolved(r, C).stop => orders[r].stop
<1> DEFINE absorbed == IF rec.open[r] # Absent
                       THEN ReportedRow(orders[r], rec.open[r]) ELSE orders[r]
           row == IF r \in C /\ absorbed # NoRow THEN ReportedRow(absorbed, book[r])
                  ELSE absorbed
<1>1. absorbed \in Row \cup {NoRow} /\ (absorbed.stop => orders[r].stop)
  BY ApplyStatusRow, AppliedOver
  DEF ReportedRow, Statuses, TypeInv, TypeOK, OpenSound, RecType, BrokerOrder
<1>2. ASSUME r \in C
      PROVE  /\ book[r].st \in {"Filled", "Cancelled", "Inactive"} /\ book[r].filled \in Nat
             /\ book[r].st = "Inactive" => book[r].filled = 0
  BY <1>2 DEF Completed, RefusedIsEmpty, TypeInv, TypeOK, BrokerOrder
<1>3. ~is_working(NoRow)
  BY DEF is_working, NoRow, WorkingState
<1>4. rec.open[r] = Absent => absorbed = orders[r]
  OBVIOUS
<1>5. Resolved(r, C) = IF is_working(row) /\ rec.open[r] = Absent /\ r \notin C
                       THEN [row EXCEPT !.state = "CANCELLED"] ELSE row
  BY DEF Resolved
<1> HIDE DEF absorbed
<1>6. /\ row \in Row \cup {NoRow} /\ (row.stop => absorbed.stop)
      /\ r \in C => ~is_working(row)
  BY <1>1, <1>2, <1>3, ApplyStatusRow, AppliedOver DEF ReportedRow, Statuses
<1> HIDE DEF row
<1>7. /\ [row EXCEPT !.state = "CANCELLED"].state = "CANCELLED"
      /\ [row EXCEPT !.state = "CANCELLED"].stop = row.stop
  BY <1>6 DEF Row, NoRow
<1>8. ~is_working([row EXCEPT !.state = "CANCELLED"])
  BY <1>7 DEF is_working, WorkingState
<1> QED BY <1>1, <1>5, <1>6, <1>7, <1>8

LEMMA StopFlagsNext ==
  ASSUME TypeInv, RefusedIsEmpty, StopFlags, [Next]_vars
  PROVE  StopFlags'
<1> USE DEF StopFlags
<1>0. /\ orders \in [Refs -> Row \cup {NoRow}] /\ book \in [Refs -> BrokerOrder]
      /\ ~NoRow.stop
  BY DEF TypeInv, TypeOK, NoRow
<1>1. ASSUME \A r \in Refs : orders'[r].stop => IsEntry(r) \/ IsStop(r),
             NEW T, Persist(T) \/ UNCHANGED store
      PROVE  StopFlags'
  BY <1>1 DEF Persist
<1>2. ASSUME NEW c \in Cycles, NEW s \in Symbols, place_bracket(c, s) PROVE StopFlags'
  <2>1. \A r \in Refs : BracketRow(r).stop => IsEntry(r) \/ IsStop(r)
    BY RefTypes DEF BracketRow, ManagedOrder, IsEntry, IsStop
  <2>2. \A r \in Refs : orders'[r].stop => IsEntry(r) \/ IsStop(r)
    BY <1>2, <2>1 DEF place_bracket
  <2> QED BY <1>1, <1>2, <2>2 DEF place_bracket
<1>3. ASSUME NEW c \in Cycles, NEW s \in Symbols, SendBracket(c, s) PROVE StopFlags'
  <2>1. \A r \in Refs : PlacedRow(orders[r]).stop => orders[r].stop
    BY <1>0, AppliedOver DEF PlacedRow, Statuses
  <2>2. \A r \in Refs : orders'[r].stop => IsEntry(r) \/ IsStop(r)
    BY <1>3, <2>1 DEF SendBracket
  <2> QED BY <1>1, <1>3, <2>2 DEF SendBracket
<1>4. ASSUME NEW r \in Refs, on_order_status(r) PROVE StopFlags'
  <2>1. book[r].st \in Statuses /\ book[r].filled \in Nat
    BY <1>0, <1>4 DEF on_order_status, Live, Completed, Statuses, BrokerOrder
  <2>2. ReportedRow(orders[r], book[r]).stop => orders[r].stop
    BY <1>0, <2>1, AppliedOver DEF ReportedRow
  <2>3. \A x \in Refs : orders'[x].stop => IsEntry(x) \/ IsStop(x)
    BY <1>0, <1>4, <2>2 DEF on_order_status
  <2> QED BY <1>1, <1>4, <2>3 DEF on_order_status
<1>5. CASE ReconcileResolve
  <2>1. \A r \in Refs : orders'[r].stop => orders[r].stop
    BY <1>5, ResolvedOver DEF ReconcileResolve, completed_orders
  <2> QED BY <1>1, <1>5, <2>1 DEF ReconcileResolve
<1>6. ASSUME NEW s \in Symbols, EmitProtectiveStop(s) PROVE StopFlags'
  <2>1. PICK p \in ProtectTags :
          /\ orders' = [orders EXCEPT ![make_ref(p, s, "STOP")] = ManagedOrder(TRUE, TRUE)]
          /\ Persist({make_ref(p, s, "STOP")})
    BY <1>6 DEF EmitProtectiveStop
  <2>2. IsStop(make_ref(p, s, "STOP"))
    BY DEF make_ref, IsStop
  <2>3. \A r \in Refs : orders'[r].stop => IsEntry(r) \/ IsStop(r)
    BY <1>0, <2>1, <2>2
  <2> QED BY <1>1, <2>1, <2>3
<1>7. CASE SendProtectiveStop
  <2>1. rec.ref \in Refs
    BY <1>7 DEF SendProtectiveStop, TypeInv, SendSound, Refs
  <2>2. PlacedRow(orders[rec.ref]).stop => orders[rec.ref].stop
    BY <1>0, <2>1, AppliedOver DEF PlacedRow, Statuses
  <2>3. \A r \in Refs : orders'[r].stop => IsEntry(r) \/ IsStop(r)
    BY <1>0, <1>7, <2>1, <2>2 DEF SendProtectiveStop
  <2> QED BY <1>1, <1>7, <2>3 DEF SendProtectiveStop
<1>8. CASE Start
  BY <1>8 DEF Start, load_from_store
<1>9. ASSUME ProcessGone, UNCHANGED store PROVE StopFlags'
  BY <1>0, <1>9 DEF ProcessGone
<1>10. CASE Crash \/ ReconcileOpenFails
  BY <1>9, <1>10 DEF Crash, ReconcileOpenFails
<1>11. ASSUME UNCHANGED <<orders, store>> PROVE StopFlags'
  BY <1>11
<1> QED
  BY <1>2, <1>3, <1>4, <1>5, <1>6, <1>7, <1>8, <1>10, <1>11
  DEF Next, SendBracketFails, BrokerReceive, BrokerRefuse, BrokerFillEntry, BrokerFillExit,
      BrokerCancel, on_execution, FetchAccount, Disconnect, Reconnect, ReconcileOpen,
      ReconcileExecutions, NoReferencePrice, SendProtectiveStopFails, ReconcileFinish, vars,
      procVars

LEMMA RefusedIsEmptyNext ==
  ASSUME TypeInv, RefusedIsEmpty, [Next]_vars
  PROVE  RefusedIsEmpty'
<1> USE DEF RefusedIsEmpty
<1>0. book \in [Refs -> BrokerOrder]
  BY DEF TypeInv, TypeOK
<1>1. ASSUME NEW x \in Refs, book'[x].st = "Inactive" => book'[x] = book[x]
      PROVE  book'[x].st = "Inactive" => book'[x].filled = 0
  BY <1>1
<1>2. CASE BrokerReceive
  <2> SUFFICES ASSUME NEW x \in Refs, book'[x].st = "Inactive" PROVE book'[x] = book[x]
    BY <1>1
  <2> DEFINE m == Head(wire)
  <2>1. /\ [st |-> IF m.transmit THEN "Submitted" ELSE "Held", qty |-> m.qty,
            filled |-> 0].st # "Inactive"
        /\ [book[x] EXCEPT !.st = "Submitted"].st # "Inactive"
    BY <1>0 DEF BrokerOrder
  <2> QED BY <1>2, <2>1 DEF BrokerReceive
<1>3. CASE BrokerRefuse
  BY <1>0, <1>3 DEF BrokerRefuse
<1>4. ASSUME NEW r \in Refs, BrokerFillEntry(r) \/ BrokerFillExit(r) \/ BrokerCancel(r)
      PROVE  RefusedIsEmpty'
  <2> SUFFICES ASSUME NEW x \in Refs, book'[x].st = "Inactive" PROVE book'[x] = book[x]
    BY <1>1
  <2>1. ~Live(x)
    BY <1>4, BrokerActs DEF Live
  <2> QED BY <1>0, <1>4, <2>1 DEF BrokerFillEntry, BrokerFillExit, BrokerCancel
<1>5. ASSUME UNCHANGED book PROVE RefusedIsEmpty'
  BY <1>5
<1> QED
  BY <1>2, <1>3, <1>4, <1>5
  DEF Next, place_bracket, SendBracket, SendBracketFails, on_order_status, on_execution,
      FetchAccount, Disconnect, Reconnect, Crash, Start, ReconcileOpen, ReconcileOpenFails,
      ReconcileResolve, ReconcileExecutions, EmitProtectiveStop, NoReferencePrice,
      SendProtectiveStop, SendProtectiveStopFails, ReconcileFinish, vars, brokerVars

LEMMA AnswerIsCompleteNext ==
  ASSUME TypeInv, RefusedIsEmpty, StartsAlone, OpenComplete, WireFresh, AnswerIsComplete,
         Steady, [Next]_vars
  PROVE  AnswerIsComplete'
<1> SUFFICES ASSUME rec'.pc = "exec", NEW r \in Refs, is_working(orders'[r]) \/ Live(r)'
             PROVE  rec'.open[r] # Absent
  BY DEF AnswerIsComplete
<1>0. /\ orders \in [Refs -> Row \cup {NoRow}] /\ book \in [Refs -> BrokerOrder]
      /\ rec \in RecType
  BY DEF TypeInv, TypeOK
<1>1. CASE ReconcileResolve
  <2>1. rec.pc = "completed" /\ rec'.open = rec.open /\ UNCHANGED book
    BY <1>0, <1>1 DEF ReconcileResolve, RecType, brokerVars
  <2>2. CASE Live(r)'
    BY <2>1, <2>2 DEF OpenComplete, Live
  <2>3. CASE is_working(orders'[r])
    BY <1>1, <2>1, <2>3, ResolvedOver DEF ReconcileResolve, completed_orders
  <2> QED BY <2>2, <2>3
<1>2. CASE rec' = rec
  <2>1. phase = "starting" /\ wire = <<>> /\ calls = {}
    BY <1>2 DEF StartsAlone
  <2>2. CASE Live(r)'
    <3>1. ~SendProtectiveStop /\ \A c \in Cycles, s \in Symbols : ~SendBracket(c, s)
      BY <1>2, <2>1 DEF SendProtectiveStop, SendBracket
    <3>2. Out(r)
      BY <2>2, <3>1, OutNext DEF Out
    <3>3. Live(r)
      BY <2>1, <3>2, EmptyWire DEF Out, OnWire
    <3> QED BY <1>2, <3>3 DEF AnswerIsComplete
  <2>3. CASE orders'[r] = orders[r]
    BY <1>2, <2>2, <2>3 DEF AnswerIsComplete
  <2>4. ASSUME on_order_status(r), is_working(orders'[r]) PROVE rec.open[r] # Absent
    <3>1. orders'[r] = ReportedRow(orders[r], book[r]) /\ book[r].filled \in Nat
          /\ (Live(r) \/ Completed(r))
      BY <1>0, <2>4 DEF on_order_status, BrokerOrder
    <3>2. Live(r)
      BY <1>0, <2>4, <3>1, AppliedOver DEF ReportedRow, Completed, Statuses, RefusedIsEmpty
    <3> QED BY <1>2, <3>2 DEF AnswerIsComplete
  <2>5. orders'[r] = orders[r] \/ on_order_status(r)
    <3>1. ASSUME NEW x \in Refs, on_order_status(x), x # r PROVE orders'[r] = orders[r]
      BY <1>0, <3>1 DEF on_order_status
    <3>2. ~Start /\ ~ProcessGone
      BY <1>2, <2>1, IdleType DEF Start, ProcessGone
    <3> QED
      BY <1>2, <2>1, <3>1, <3>2
      DEF Next, place_bracket, SendBracket, SendBracketFails, BrokerReceive, BrokerRefuse,
          BrokerFillEntry, BrokerFillExit, BrokerCancel, on_execution, FetchAccount, Disconnect,
          Reconnect, Crash, ReconcileOpen, ReconcileOpenFails, ReconcileResolve,
          ReconcileExecutions, EmitProtectiveStop, NoReferencePrice, SendProtectiveStop,
          SendProtectiveStopFails, ReconcileFinish, vars, procVars
  <2> QED BY <1>2, <2>2, <2>3, <2>4, <2>5
<1>3. rec' = rec \/ ReconcileResolve \/ rec'.pc # "exec"
  BY <1>0, IdleType
  DEF Next, place_bracket, SendBracket, SendBracketFails, BrokerReceive, BrokerRefuse,
      BrokerFillEntry, BrokerFillExit, BrokerCancel, on_order_status, on_execution, FetchAccount,
      Disconnect, Reconnect, BeginReconcile, Crash, ProcessGone, Start, ReconcileOpen,
      ReconcileOpenFails, ReconcileExecutions, EmitProtectiveStop, NoReferencePrice,
      SendProtectiveStop, SendProtectiveStopFails, ReconcileFinish, vars, procVars, RecType, Idle
<1> QED BY <1>1, <1>2, <1>3

\* While the connection is never lost, step 4 of reconcile() passes over a position
\* only if a stop of its symbol is at work at the broker, but for symbols whose entry
\* may still fill: no row that was written ahead and never sent counts as protection.
THEOREM ReconcileProtectsHolds == Spec /\ []NeverLost => ReconcileProtects
<1>1. Init => ProtectInv
  BY IdleType DEF Init, ProtectInv, StopFlags, RefusedIsEmpty, AnswerIsComplete, NoRow, Absent
<1>2. ASSUME TypeInv, LedgerInv, SteadyInv, ProtectInv, NeverLost, NeverLost', [Next]_vars
      PROVE  ProtectInv'
  BY <1>2, StopFlagsNext, RefusedIsEmptyNext, AnswerIsCompleteNext
  DEF ProtectInv, SteadyInv, Steady, NeverLost
<1>3. ASSUME TypeInv, ProtectInv, [Next]_vars, rec.pc = "exec", rec'.pc = "protect",
             NEW s \in Symbols, rec.acct[s] # 0, ~Moving(s), s \notin rec'.todo
      PROVE  StopResting(s)
  <2>1. ReconcileExecutions
    BY <1>3, IdleType
    DEF Next, place_bracket, SendBracket, SendBracketFails, BrokerReceive, BrokerRefuse,
        BrokerFillEntry, BrokerFillExit, BrokerCancel, on_order_status, on_execution,
        FetchAccount, Disconnect, Reconnect, BeginReconcile, Crash, ProcessGone, Start,
        ReconcileOpen, ReconcileOpenFails, ReconcileResolve, EmitProtectiveStop,
        NoReferencePrice, SendProtectiveStop, SendProtectiveStopFails, ReconcileFinish, vars,
        procVars, TypeInv, TypeOK, RecType, Idle
  <2>2. rec'.todo = {u \in Symbols : rec.acct[u] # 0 /\ u \notin protected}
    BY <2>1 DEF ReconcileExecutions, TypeInv, TypeOK, RecType
  <2>3. PICK r \in Refs : is_working(orders[r]) /\ orders[r].stop /\ Sym(r) = s
    BY <1>3, <2>2 DEF protected
  <2>4. IsStop(r) /\ rec.open[r] # Absent /\ book[r] = rec.open[r]
    BY <1>3, <2>3 DEF Moving, ProtectInv, StopFlags, AnswerIsComplete
  <2>5. Live(r)
    BY <1>3, <2>4 DEF TypeInv, OpenSound, Live
  <2> QED BY <2>3, <2>4, <2>5 DEF StopResting
<1>4. TypeInv /\ ProtectInv /\ [Next]_vars
        => [rec.pc = "exec" /\ rec'.pc = "protect" =>
              \A s \in Symbols :
                rec.acct[s] # 0 /\ ~Moving(s) => StopResting(s) \/ s \in rec'.todo]_vars
  BY <1>3
<1> QED BY <1>1, <1>2, <1>4, SteadyInvariant, PTL DEF Spec, ReconcileProtects
=============================================================================

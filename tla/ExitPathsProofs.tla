---------------------------- MODULE ExitPathsProofs ----------------------------
(***************************************************************************)
(* Theorems about ExitPaths, for every quantity, any finite number of      *)
(* flattening and closing tasks, and every number of exits and seconds.    *)
(***************************************************************************)
EXTENDS ExitPaths, FiniteSetTheorems, TLAPS

ExitRefs == Refs \ Bracket
Request  == [kind : {"place", "cancel"}, ids : SUBSET Ids]

-----------------------------------------------------------------------------
(* Ids, refs, and what cancel_order does to the socket.                    *)

RowType   == [state : WorkingState \cup {"NONE", "FILLED", "CANCELLED"},
              id : Ids \cup {0}, filled : 0..Qty]
TaskType  == [pc : {"idle", "close", "send"}, qty : Int, ref : Refs \cup {0}]
BookOrder == [ref : Refs \cup {0}, qty : Int, filled : 0..Qty,
              st : {"None", "Sent", "Submitted", "PendingCancel", "Filled", "Cancelled"}]

LEMMA Types ==
  ASSUME TypeOK
  PROVE  /\ rows \in [Refs -> RowType]
         /\ task \in [Tasks -> TaskType]
         /\ book \in [Ids -> BookOrder]
         /\ pipe \in Seq(Request)
         /\ account \in Int /\ position \in Int
         /\ nextId \in 4..(4 + MaxExits)
BY DEF TypeOK, RowType, TaskType, BookOrder, Request

LEMMA IdFacts ==
  /\ Bracket \subseteq Ids /\ Bracket \subseteq Refs
  /\ Bracket = {ENTRY, STOP, TARGET} /\ Legs \subseteq Bracket /\ ENTRY \notin Legs
  /\ \A i \in Ids : i \in Int /\ (i \notin Bracket => i \in Exits /\ i >= 4)
  /\ \A i \in Exits : i \in Ids /\ i \notin Bracket
  /\ \A i \in 4..(3 + MaxExits) : i \in Exits
  /\ \A t \in Seconds : exit_ref(t) \in ExitRefs
  /\ \A r \in Refs : r # 0
  /\ 0 \notin Ids
<1>1. MaxExits \in Nat /\ MaxExits > 0 /\ LastSecond \in Nat
  BY BoundAssumption
<1> QED
  BY <1>1 DEF Bracket, Legs, ENTRY, STOP, TARGET, Ids, Exits, Refs, ExitRefs, exit_ref, Seconds

\* cancel_order appends one pass of cancels, which asks for every order of I at work
\* that nobody asked for yet.
LEMMA CancelOrder ==
  ASSUME pipe \in Seq(Request), NEW I \in SUBSET Ids, NEW p, p = cancel_order(I)
  PROVE  /\ p \in Seq(Request)
         /\ \A k \in DOMAIN pipe : k \in DOMAIN p /\ p[k] = pipe[k]
         /\ \A k \in DOMAIN p \ DOMAIN pipe : p[k].kind = "cancel" /\ p[k].ids \subseteq I
         /\ \A i \in I : Resting(i) => \E k \in DOMAIN p : p[k].kind = "cancel" /\ i \in p[k].ids
<1> DEFINE wanted == {i \in I : (Resting(i) \/ Requested("place", i)) /\ ~Requested("cancel", i)}
           m == [kind |-> "cancel", ids |-> wanted]
<1>1. m \in Request /\ m.kind = "cancel" /\ m.ids = wanted
  BY DEF Request
<1>2. wanted \subseteq I /\ \A i \in I : Resting(i) => i \in wanted \/ Requested("cancel", i)
  OBVIOUS
<1>3. p = IF wanted = {} THEN pipe ELSE Append(pipe, m)
  BY DEF cancel_order
<1> HIDE DEF wanted, m
<1>4. CASE wanted = {}
  BY <1>2, <1>3, <1>4 DEF Requested
<1>5. CASE wanted # {}
  <2>1. p = Append(pipe, m)
    BY <1>3, <1>5
  <2>2. /\ p \in Seq(Request)
        /\ DOMAIN p = DOMAIN pipe \cup {Len(pipe) + 1} /\ Len(pipe) + 1 \notin DOMAIN pipe
        /\ p[Len(pipe) + 1] = m
        /\ \A k \in DOMAIN pipe : p[k] = pipe[k]
    BY ONLY <1>1, <2>1, pipe \in Seq(Request)
  <2> QED BY <1>1, <1>2, <2>2 DEF Requested
<1> QED BY <1>4, <1>5

LEMMA CancellableIds ==
  ASSUME TypeOK
  PROVE  /\ \A R : Cancellable(R) \in SUBSET Ids
         /\ Leaving \in SUBSET Ids
         /\ \A r \in working_orders : rows[r].id # 0 => {rows[r].id} \in SUBSET Ids
BY Types DEF Cancellable, Leaving, working_orders, RowType

\* What a status event of the broker writes.
LEMMA ReportedRow ==
  ASSUME TypeOK, NEW i \in Ids, book[i].st \notin {"None", "Sent"}
  PROVE  /\ Reported(i) \in RowType
         /\ Reported(i).id = i
         /\ Live(i) => Reported(i).state \in WorkingState
<1>1. book[i] \in BookOrder /\ book[i].st \in {"Submitted", "PendingCancel", "Filled", "Cancelled"}
  BY Types DEF BookOrder
<1> DEFINE state == IF book[i].filled > 0 /\ Live(i) THEN "PARTIAL"
                    ELSE [Submitted |-> "SUBMITTED", PendingCancel |-> "SUBMITTED",
                          Filled |-> "FILLED", Cancelled |-> "CANCELLED"][book[i].st]
<1>2. state \in WorkingState \cup {"FILLED", "CANCELLED"}
      /\ (Live(i) => state \in WorkingState)
  BY <1>1 DEF Live, Resting, WorkingState
<1>3. Reported(i) = [state |-> state, id |-> i, filled |-> book[i].filled]
  BY DEF Reported
<1> HIDE DEF state
<1> QED BY <1>1, <1>2, <1>3 DEF RowType, BookOrder

-----------------------------------------------------------------------------
(* Type correctness needs the ids of exits to suffice for the tasks that   *)
(* are about to send, and every order's ref to be known when the broker    *)
(* reports it.                                                             *)

IdsLeft == nextId + Cardinality(Busy) <= 4 + MaxExits

TasksSound == \A t \in Tasks : task[t].pc = "send" => task[t].ref \in ExitRefs

PlacesExits ==
  \A k \in DOMAIN pipe : pipe[k].kind = "place" => pipe[k].ids \subseteq 4..(nextId - 1)

BookSound ==
  /\ \A i \in Bracket : /\ book[i].ref = i
                        /\ book[i].st \in {"Submitted", "PendingCancel", "Filled", "Cancelled"}
  /\ \A i \in Exits : IF i < nextId THEN book[i].ref \in ExitRefs /\ book[i].st # "None"
                                    ELSE book[i].st = "None"
  /\ Live(ENTRY) => book[ENTRY].filled < Qty

TypeInv == TypeOK /\ IdsLeft /\ TasksSound /\ PlacesExits /\ BookSound

LEMMA TypeInit == Init => TypeInv
<1> SUFFICES ASSUME Init PROVE TypeInv OBVIOUS
<1> USE DEF Init
<1>1. Qty \in Nat /\ Qty > 0 /\ MaxExits \in Nat /\ MaxExits > 0 /\ LastSecond \in Nat
      /\ LastSecond > 0
  BY QtyAssumption, BoundAssumption
<1>2. rows \in [Refs -> RowType]
  BY <1>1, IdFacts DEF RowType, NoRow, WorkingState
<1>3. task \in [Tasks -> TaskType] /\ Busy = {}
  BY DEF TaskType, Idle, Busy
<1>4. NoOrder \in BookOrder
  BY <1>1 DEF BookOrder, NoOrder
<1>5. \A i \in Bracket, q \in Int :
        [ref |-> i, st |-> "Submitted", filled |-> 0, qty |-> q] \in BookOrder
  BY <1>1, IdFacts DEF BookOrder
<1>6. book \in [Ids -> BookOrder]
  BY <1>1, <1>4, <1>5
<1>7. pipe \in Seq(Request) /\ \A k \in DOMAIN pipe : FALSE
  OBVIOUS
<1>8. TypeOK
  <2>1. second \in Seconds /\ nextId \in 4..(4 + MaxExits)
    BY <1>1 DEF Seconds
  <2>2. account \in Int /\ position \in Int
    BY SMT
  <2>4. taken \in BOOLEAN
    BY Zenon
  <2>3. phase = "up" /\ flatten = "no"
    OBVIOUS
  <2> QED BY ONLY <1>2, <1>3, <1>6, <1>7, <2>1, <2>2, <2>3, <2>4
          DEF TypeOK, RowType, TaskType, BookOrder, Request
<1>9. IdsLeft
  BY <1>1, <1>3, FS_EmptySet DEF IdsLeft
<1>10. TasksSound /\ PlacesExits
  BY <1>7 DEF TasksSound, PlacesExits, Idle
<1>11. BookSound
  BY <1>1, IdFacts DEF BookSound, NoOrder, Live, Resting
<1> QED BY <1>8, <1>9, <1>10, <1>11 DEF TypeInv

\* A fill changes no order but ones at work, and an entry that has bought everything
\* is no longer at work.
LEMMA Fills ==
  ASSUME TypeInv,
         \/ BrokerFillEntry
         \/ \E i \in Legs : BrokerFillLeg(i)
         \/ \E i \in Exits : BrokerFillExit(i)
  PROVE  /\ book' \in [Ids -> BookOrder] /\ position' \in Int
         /\ \A i \in Ids : /\ book'[i].ref = book[i].ref
                           /\ \/ book'[i].st = book[i].st
                              \/ Live(i) /\ book'[i].st \in {"Filled", "Cancelled"}
         /\ Live(ENTRY)' => book'[ENTRY].filled < Qty
<1>1. /\ book \in [Ids -> BookOrder] /\ position \in Int /\ Qty \in Nat /\ Qty > 0
      /\ ENTRY \in Ids
  BY Types, IdFacts, QtyAssumption DEF TypeInv
<1>2. CASE BrokerFillEntry
  <2>1. book[ENTRY] \in BookOrder /\ Live(ENTRY) /\ book[ENTRY].filled < Qty
    BY <1>1, <1>2 DEF BrokerFillEntry, Live, Resting, TypeInv, BookSound
  <2> DEFINE n == book[ENTRY].filled + 1
             st == IF n = Qty THEN "Filled" ELSE book[ENTRY].st
             o == [book[ENTRY] EXCEPT !.filled = n, !.st = st]
  <2>2. n \in 0..Qty /\ st \in {"Filled", book[ENTRY].st} /\ (st # "Filled" => n < Qty)
    BY <1>1, <2>1 DEF BookOrder
  <2>3. book' = [book EXCEPT ![ENTRY] = o] /\ position' = position + 1
    BY <1>1, <1>2 DEF BrokerFillEntry
  <2> HIDE DEF n, st
  <2>4. o \in BookOrder /\ o.ref = book[ENTRY].ref /\ o.st = st /\ o.filled = n
    BY <2>1, <2>2 DEF BookOrder
  <2> HIDE DEF o
  <2> QED BY <1>1, <2>1, <2>2, <2>3, <2>4 DEF Live, Resting
<1>3. ASSUME NEW i \in Legs, BrokerFillLeg(i)
      PROVE  /\ book' \in [Ids -> BookOrder] /\ position' \in Int
             /\ \A j \in Ids : /\ book'[j].ref = book[j].ref
                               /\ \/ book'[j].st = book[j].st
                                  \/ Live(j) /\ book'[j].st \in {"Filled", "Cancelled"}
             /\ ~Live(ENTRY)'
  <2> DEFINE n == book[ENTRY].filled
             o(j) == IF j = i THEN [book[j] EXCEPT !.st = "Filled", !.filled = n]
                     ELSE IF j \in Legs /\ Live(j) THEN [book[j] EXCEPT !.st = "Cancelled"]
                     ELSE book[j]
  <2>1. n \in 0..Qty /\ Live(i) /\ ~Live(ENTRY) /\ i \in Ids /\ i # ENTRY /\ ENTRY \notin Legs
    BY <1>1, <1>3, IdFacts DEF BrokerFillLeg, BookOrder
  <2>2. book' = [j \in Ids |-> o(j)] /\ position' = position - n
    BY <1>3 DEF BrokerFillLeg
  <2> HIDE DEF n
  <2>3. ASSUME NEW j \in Ids
        PROVE  /\ o(j) \in BookOrder /\ o(j).ref = book[j].ref
               /\ \/ o(j).st = book[j].st
                  \/ Live(j) /\ o(j).st \in {"Filled", "Cancelled"}
    BY <1>1, <2>1 DEF BookOrder
  <2>4. o(ENTRY) = book[ENTRY]
    BY <2>1
  <2> HIDE DEF o
  <2> QED BY <1>1, <2>1, <2>2, <2>3, <2>4 DEF Live, Resting
<1>4. ASSUME NEW i \in Exits, BrokerFillExit(i)
      PROVE  /\ book' \in [Ids -> BookOrder] /\ position' \in Int
             /\ \A j \in Ids : /\ book'[j].ref = book[j].ref
                               /\ \/ book'[j].st = book[j].st
                                  \/ Live(j) /\ book'[j].st = "Filled"
             /\ book'[ENTRY] = book[ENTRY]
  <2> DEFINE o == [book[i] EXCEPT !.st = "Filled", !.filled = 1]
  <2>1. i \in Ids /\ i # ENTRY /\ Live(i) /\ book[i] \in BookOrder
    BY <1>1, <1>4, IdFacts DEF BrokerFillExit
  <2>2. book' = [book EXCEPT ![i] = o] /\ position' = position + book[i].qty
    BY <1>1, <1>4, <2>1 DEF BrokerFillExit
  <2>3. o \in BookOrder /\ o.ref = book[i].ref /\ o.st = "Filled"
    <3>1. 1 \in 0..Qty
      BY <1>1
    <3> QED BY ONLY <2>1, <3>1 DEF BookOrder
  <2> HIDE DEF o
  <2> QED BY <1>1, <2>1, <2>2, <2>3 DEF BookOrder
<1>5. Live(ENTRY) => book[ENTRY].filled < Qty
  BY DEF TypeInv, BookSound
<1>6. CASE \E i \in Legs : BrokerFillLeg(i)
  BY <1>3, <1>6 DEF Live, Resting
<1>7. CASE \E i \in Exits : BrokerFillExit(i)
  BY <1>4, <1>5, <1>7 DEF Live, Resting
<1> QED BY <1>2, <1>6, <1>7

\* What the broker's taking of order i from the first request leaves on the socket.
Shifted == /\ \A k \in DOMAIN pipe' : k + 1 \in DOMAIN pipe /\ pipe'[k] = pipe[k + 1]
           /\ \A k \in DOMAIN pipe : k = 1 \/ k - 1 \in DOMAIN pipe'
Shrunk(i) == /\ DOMAIN pipe' = DOMAIN pipe
             /\ pipe'[1].kind = pipe[1].kind /\ pipe'[1].ids = pipe[1].ids \ {i}
             /\ \A k \in DOMAIN pipe : k # 1 => pipe'[k] = pipe[k]

\* What the book makes of a cancel of order i.
Accepted(i) ==
  \A j \in Ids : IF j = i /\ Resting(i)
                 THEN book'[j].ref = book[j].ref /\ book'[j].st = "PendingCancel"
                      /\ book'[j].filled = book[j].filled
                 ELSE book'[j] = book[j]

\* An order of the first request is placed, or its cancel accepted if it is at work.
LEMMA Received ==
  ASSUME TypeInv, BrokerReceive
  PROVE  \E i \in Ids :
           /\ 1 \in DOMAIN pipe /\ i \in pipe[1].ids /\ pipe[1].kind \in {"place", "cancel"}
           /\ book' \in [Ids -> BookOrder]
           /\ pipe[1].kind = "place" =>
                /\ i \in Exits /\ i < nextId
                /\ book'[i].ref = book[i].ref /\ book'[i].st = "Submitted"
                /\ \A j \in Ids : j # i => book'[j] = book[j]
           /\ pipe[1].kind = "cancel" => Accepted(i)
           /\ pipe' \in Seq(Request)
           /\ (pipe[1].ids = {i} /\ Shifted) \/ Shrunk(i)
<1> DEFINE m == Head(pipe)
<1>1. book \in [Ids -> BookOrder] /\ pipe \in Seq(Request)
  BY Types DEF TypeInv
<1>2. pipe # <<>> /\ 1 \in DOMAIN pipe /\ m = pipe[1] /\ m \in Request
  BY <1>1 DEF BrokerReceive
<1>3. PICK i \in m.ids :
        /\ book' = IF m.kind = "place" THEN [book EXCEPT ![i].st = "Submitted"]
                   ELSE IF Resting(i)  THEN [book EXCEPT ![i].st = "PendingCancel"]
                   ELSE book
        /\ pipe' = IF m.ids = {i} THEN Tail(pipe) ELSE [pipe EXCEPT ![1].ids = @ \ {i}]
  BY DEF BrokerReceive
<1> HIDE DEF m
<1>4. i \in Ids /\ m.kind \in {"place", "cancel"} /\ m.ids \in SUBSET Ids
  BY <1>2 DEF Request
<1>5. \A j \in Ids :
        /\ \A st \in {"Submitted", "PendingCancel"} : [book[j] EXCEPT !.st = st] \in BookOrder
        /\ \A st : /\ [book[j] EXCEPT !.st = st].st = st
                   /\ [book[j] EXCEPT !.st = st].ref = book[j].ref
                   /\ [book[j] EXCEPT !.st = st].filled = book[j].filled
  BY ONLY <1>1 DEF BookOrder
<1>6. book' \in [Ids -> BookOrder]
  BY ONLY <1>1, <1>3, <1>5
<1>7. m.kind = "place" => i \in Exits /\ i < nextId
  <2>1. nextId \in 4..(4 + MaxExits) /\ MaxExits \in Nat
    BY Types, BoundAssumption DEF TypeInv
  <2>2. m.kind = "place" => i \in 4..(nextId - 1)
    BY <1>2, <1>3 DEF TypeInv, PlacesExits
  <2> QED BY <1>4, <2>1, <2>2, IdFacts
<1>8. ASSUME m.ids = {i} PROVE pipe' \in Seq(Request) /\ pipe[1].ids = {i} /\ Shifted
  <2>1. pipe' = Tail(pipe)
    BY <1>3, <1>8
  <2>2. pipe' \in Seq(Request) /\ Shifted
    BY ONLY <1>1, <1>2, <2>1 DEF Shifted
  <2> QED BY <1>2, <1>8, <2>2
<1>9. ASSUME m.ids # {i} PROVE pipe' \in Seq(Request) /\ Shrunk(i)
  <2> DEFINE n == [m EXCEPT !.ids = @ \ {i}]
  <2>1. n \in Request /\ n.kind = m.kind /\ n.ids = m.ids \ {i}
    BY ONLY <1>2 DEF Request
  <2>2. pipe' = [pipe EXCEPT ![1] = n]
    BY <1>2, <1>3, <1>9
  <2> HIDE DEF n
  <2>3. pipe' \in Seq(Request) /\ DOMAIN pipe' = DOMAIN pipe /\ pipe'[1] = n
        /\ \A k \in DOMAIN pipe : k # 1 => pipe'[k] = pipe[k]
    BY ONLY <1>1, <1>2, <2>1, <2>2
  <2>4. Shrunk(i)
    BY ONLY <1>2, <2>1, <2>3 DEF Shrunk
  <2> QED BY <2>3, <2>4
<1>10. pipe' \in Seq(Request) /\ ((pipe[1].ids = {i} /\ Shifted) \/ Shrunk(i))
  BY <1>8, <1>9
<1>11. m.kind = "place" =>
         /\ book'[i].ref = book[i].ref /\ book'[i].st = "Submitted"
         /\ \A j \in Ids : j # i => book'[j] = book[j]
  BY ONLY <1>1, <1>3, <1>4, <1>5
<1>12. m.kind = "cancel" => Accepted(i)
  BY ONLY <1>1, <1>3, <1>4, <1>5 DEF Accepted
<1> QED BY ONLY <1>2, <1>3, <1>4, <1>6, <1>7, <1>10, <1>11, <1>12

\* A cancel that is done takes orders at work off the book.
LEMMA Cancels ==
  ASSUME TypeInv, NEW i \in Ids, BrokerCancel(i)
  PROVE  /\ book' \in [Ids -> BookOrder] /\ book[i].st = "PendingCancel"
         /\ \A j \in Ids :
              IF Live(j) /\ (j = i \/ (i = ENTRY /\ j \in Legs /\ book[ENTRY].filled = 0))
              THEN book'[j].st = "Cancelled" /\ book'[j].ref = book[j].ref
                   /\ book'[j].filled = book[j].filled
              ELSE book'[j] = book[j]
<1>1. book \in [Ids -> BookOrder]
  BY Types DEF TypeInv
<1> DEFINE gone(j) == Live(j) /\ (j = i \/ (i = ENTRY /\ j \in Legs /\ book[ENTRY].filled = 0))
           o(j) == [book[j] EXCEPT !.st = "Cancelled"]
<1>2. book' = [j \in Ids |-> IF gone(j) THEN o(j) ELSE book[j]] /\ book[i].st = "PendingCancel"
  BY DEF BrokerCancel
<1>3. \A j \in Ids : /\ o(j) \in BookOrder /\ o(j).st = "Cancelled"
                     /\ o(j).ref = book[j].ref /\ o(j).filled = book[j].filled
  BY ONLY <1>1 DEF BookOrder
<1> HIDE DEF o
<1>4. book' \in [Ids -> BookOrder]
  BY ONLY <1>1, <1>2, <1>3
<1> QED BY ONLY <1>2, <1>3, <1>4

\* The tasks under way are finitely many.
LEMMA BusyFinite ==
  /\ IsFiniteSet(Busy) /\ Cardinality(Busy) \in Nat
  /\ IsFiniteSet(Busy') /\ Cardinality(Busy') \in Nat
<1>1. IsFiniteSet(Tasks)
  BY TasksAssumption, FS_Union DEF Tasks
<1>2. Busy \in SUBSET Tasks /\ Busy' \in SUBSET Tasks
  BY DEF Busy
<1>3. IsFiniteSet(Busy) /\ IsFiniteSet(Busy')
  BY <1>1, <1>2, FS_Subset
<1> QED BY <1>3, FS_CardinalityType

\* What a step of the process leaves of the type invariant when it leaves the broker's
\* side alone, but for a pass of cancels.
LEMMA ProcessStep ==
  ASSUME TypeInv, UNCHANGED <<book, nextId>>,
         pipe' = pipe \/ \E I \in SUBSET Ids : pipe' = cancel_order(I)
  PROVE  BookSound' /\ PlacesExits' /\ pipe' \in Seq(Request)
<1>1. pipe \in Seq(Request)
  BY Types DEF TypeInv
<1>2. BookSound'
  BY DEF TypeInv, BookSound, Live, Resting
<1>3. CASE pipe' = pipe
  BY <1>1, <1>2, <1>3 DEF TypeInv, PlacesExits
<1>4. ASSUME NEW I \in SUBSET Ids, pipe' = cancel_order(I)
      PROVE  PlacesExits' /\ pipe' \in Seq(Request)
  <2>1. /\ pipe' \in Seq(Request)
        /\ \A k \in DOMAIN pipe : k \in DOMAIN pipe' /\ pipe'[k] = pipe[k]
        /\ \A k \in DOMAIN pipe' \ DOMAIN pipe : pipe'[k].kind = "cancel"
    BY <1>1, <1>4, CancelOrder
  <2> QED BY <2>1 DEF TypeInv, PlacesExits
<1> QED BY <1>2, <1>3, <1>4

LEMMA TypeNext == TypeInv /\ [Next]_vars => TypeInv'
<1> SUFFICES ASSUME TypeInv, [Next]_vars PROVE TypeInv'
  OBVIOUS
<1>0. /\ rows \in [Refs -> RowType] /\ task \in [Tasks -> TaskType]
      /\ book \in [Ids -> BookOrder] /\ pipe \in Seq(Request)
      /\ account \in Int /\ position \in Int /\ nextId \in 4..(4 + MaxExits)
  BY Types DEF TypeInv
<1>t. ASSUME UNCHANGED <<process, nextId, taken>>, pipe' \in Seq(Request), PlacesExits', BookSound',
             book' \in [Ids -> BookOrder], position' \in Int
      PROVE  TypeInv'
  <2>1. TypeOK'
    BY <1>t DEF TypeInv, TypeOK, process, Request, BookOrder
  <2>2. IdsLeft' /\ TasksSound'
    BY <1>t DEF TypeInv, IdsLeft, Busy, TasksSound, process
  <2> QED BY <1>t, <2>1, <2>2 DEF TypeInv
<1>1. CASE \/ BrokerFillEntry
           \/ \E i \in Legs : BrokerFillLeg(i)
           \/ \E i \in Exits : BrokerFillExit(i)
  <2>1. UNCHANGED <<process, pipe, nextId, taken>>
    BY <1>1 DEF BrokerFillEntry, BrokerFillLeg, BrokerFillExit
  <2>2. /\ book' \in [Ids -> BookOrder] /\ position' \in Int
        /\ \A i \in Ids : /\ book'[i].ref = book[i].ref
                          /\ \/ book'[i].st = book[i].st
                             \/ Live(i) /\ book'[i].st \in {"Filled", "Cancelled"}
        /\ Live(ENTRY)' => book'[ENTRY].filled < Qty
    BY <1>1, Fills
  <2>3. BookSound'
    BY <2>1, <2>2, IdFacts DEF TypeInv, BookSound, Live, Resting
  <2>4. PlacesExits'
    BY <2>1 DEF TypeInv, PlacesExits
  <2> QED BY <1>t, <1>0, <2>1, <2>2, <2>3, <2>4
<1>2. CASE BrokerReceive
  <2>1. PICK i \in Ids :
          /\ 1 \in DOMAIN pipe /\ i \in pipe[1].ids /\ pipe[1].kind \in {"place", "cancel"}
          /\ book' \in [Ids -> BookOrder]
          /\ pipe[1].kind = "place" =>
               /\ i \in Exits /\ i < nextId
               /\ book'[i].ref = book[i].ref /\ book'[i].st = "Submitted"
               /\ \A j \in Ids : j # i => book'[j] = book[j]
          /\ pipe[1].kind = "cancel" => Accepted(i)
          /\ pipe' \in Seq(Request)
          /\ (pipe[1].ids = {i} /\ Shifted) \/ Shrunk(i)
    BY <1>2, Received
  <2>2. UNCHANGED <<process, position, nextId, taken>>
    BY <1>2 DEF BrokerReceive
  <2>3. BookSound'
    <3>1. CASE pipe[1].kind = "place"
      BY <2>1, <2>2, <3>1, IdFacts DEF TypeInv, BookSound, Live, Resting
    <3>2. CASE pipe[1].kind = "cancel"
      <4>1. \A j \in Ids : \/ book'[j] = book[j]
                           \/ /\ Resting(j) /\ book'[j].ref = book[j].ref
                              /\ book'[j].st = "PendingCancel"
                              /\ book'[j].filled = book[j].filled
        BY <2>1, <3>2 DEF Accepted
      <4> QED BY <2>2, <4>1, IdFacts DEF TypeInv, BookSound, Live, Resting
    <3> QED BY <2>1, <3>1, <3>2
  <2>4. PlacesExits'
    <3>1. CASE Shifted
      BY <2>2, <3>1 DEF TypeInv, PlacesExits, Shifted
    <3>2. CASE Shrunk(i)
      BY <2>1, <2>2, <3>2 DEF TypeInv, PlacesExits, Shrunk
    <3> QED BY <2>1, <3>1, <3>2
  <2> QED BY <1>t, <1>0, <2>1, <2>2, <2>3, <2>4
<1>3. ASSUME NEW i \in Ids, on_order_status(i) PROVE TypeInv'
  <2>1. /\ UNCHANGED <<phase, account, task, flatten, second, broker, taken>>
        /\ rows' = [rows EXCEPT ![book[i].ref] = Reported(i)]
        /\ Reported(i) \in RowType
    BY <1>3, ReportedRow DEF on_order_status, TypeInv
  <2>2. rows' \in [Refs -> RowType]
    BY <1>0, <2>1
  <2>3. TypeOK'
    BY <2>1, <2>2 DEF TypeInv, TypeOK, broker, RowType
  <2> QED BY <2>1, <2>3, ProcessStep
          DEF TypeInv, broker, IdsLeft, Busy, TasksSound
<1>4. CASE SyncAccount \/ WindowOpens \/ Trip
  <2>1. /\ UNCHANGED <<phase, rows, task, second, broker, taken>>
        /\ account' \in Int /\ flatten' \in {"no", "eod", "kill"}
    BY <1>4, <1>0 DEF SyncAccount, WindowOpens, Trip, TypeInv, TypeOK
  <2>2. TypeOK'
    BY <2>1 DEF TypeInv, TypeOK, broker
  <2> QED BY <2>1, <2>2, ProcessStep
          DEF TypeInv, broker, IdsLeft, Busy, TasksSound
<1>5. ASSUME NEW t \in Tasks, FlattenAll(t) \/ HandleClose(t) PROVE TypeInv'
  <2> DEFINE new == [Idle EXCEPT !.pc = "close", !.qty = account]
  <2>1. /\ task[t].pc = "idle" /\ ExitsLeft
        /\ UNCHANGED <<phase, rows, account, flatten, second, book, position, nextId>>
        /\ task' = [task EXCEPT ![t] = new] /\ taken' = TRUE
        /\ pipe' = pipe \/ pipe' = cancel_order(Cancellable(Refs))
    BY <1>5 DEF FlattenAll, HandleClose, broker
  <2>2. new \in TaskType /\ new.pc = "close"
    BY <1>0 DEF Idle, TaskType
  <2> HIDE DEF new
  <2>3. BookSound' /\ PlacesExits' /\ pipe' \in Seq(Request)
    BY <2>1, ProcessStep, CancellableIds DEF TypeInv
  <2>4. task' \in [Tasks -> TaskType] /\ taken' \in BOOLEAN
    BY <1>0, <2>1, <2>2
  <2>5. TypeOK'
    BY <2>1, <2>3, <2>4 DEF TypeInv, TypeOK, TaskType, Request
  <2>6. Busy' = Busy \cup {t} /\ t \notin Busy
    BY <1>0, <2>1, <2>2 DEF Busy
  <2>7. Cardinality(Busy') = Cardinality(Busy) + 1
    BY <2>6, BusyFinite, FS_AddElement
  <2>8. IdsLeft'
    BY <1>0, <2>1, <2>7, BusyFinite, BoundAssumption DEF ExitsLeft, IdsLeft
  <2>9. TasksSound'
    BY <1>0, <2>1, <2>2 DEF TypeInv, TasksSound
  <2> QED BY <2>3, <2>5, <2>8, <2>9 DEF TypeInv
<1>6. ASSUME NEW t \in Tasks, ClosePosition(t) PROVE TypeInv'
  <2>1. PICK now \in {n \in Seconds : n >= second} :
          /\ second' = now
          /\ rows' = [rows EXCEPT ![exit_ref(now)] = PendingRow]
          /\ task' = [task EXCEPT ![t].pc = "send", ![t].ref = exit_ref(now)]
    BY <1>6 DEF ClosePosition
  <2>2. /\ task[t].pc = "close" /\ pipe' = cancel_order(Cancellable(Refs))
        /\ UNCHANGED <<phase, account, flatten, book, position, nextId, taken>>
    BY <1>6 DEF ClosePosition
  <2>3. BookSound' /\ PlacesExits' /\ pipe' \in Seq(Request)
    BY <2>2, ProcessStep, CancellableIds DEF TypeInv
  <2>4. PendingRow \in RowType
    BY QtyAssumption DEF PendingRow, NoRow, RowType, WorkingState
  <2>5. exit_ref(now) \in ExitRefs /\ exit_ref(now) \in Refs
    BY IdFacts DEF ExitRefs
  <2> DEFINE new == [task[t] EXCEPT !.pc = "send", !.ref = exit_ref(now)]
  <2>6. task' = [task EXCEPT ![t] = new]
    BY <1>0, <2>1
  <2>7. new \in TaskType /\ new.pc = "send" /\ new.ref = exit_ref(now)
    BY <1>0, <2>5 DEF TaskType
  <2> HIDE DEF new
  <2>8. task' \in [Tasks -> TaskType] /\ rows' \in [Refs -> RowType]
    BY <1>0, <2>1, <2>4, <2>6, <2>7
  <2>9. TypeOK'
    BY <2>1, <2>2, <2>3, <2>8 DEF TypeInv, TypeOK, TaskType, RowType, Request
  <2>10. Busy' = Busy
    BY <1>0, <2>2, <2>6, <2>7 DEF Busy
  <2>11. IdsLeft'
    BY <2>2, <2>10 DEF TypeInv, IdsLeft
  <2>12. TasksSound'
    BY <1>0, <2>5, <2>6, <2>7 DEF TypeInv, TasksSound
  <2> QED BY <2>3, <2>9, <2>11, <2>12 DEF TypeInv
<1>7. ASSUME NEW t \in Tasks, SendExit(t) PROVE TypeInv'
  <2> DEFINE o == [ref |-> task[t].ref, st |-> "Sent", qty |-> -task[t].qty, filled |-> 0]
             row == [PendingRow EXCEPT !.id = nextId]
             m == [kind |-> "place", ids |-> {nextId}]
  <2>1. /\ task[t].pc = "send"
        /\ book' = [book EXCEPT ![nextId] = o] /\ pipe' = Append(pipe, m)
        /\ rows' = [rows EXCEPT ![task[t].ref] = row]
        /\ nextId' = nextId + 1 /\ task' = [task EXCEPT ![t] = Idle]
        /\ UNCHANGED <<phase, account, flatten, second, position, taken>>
    BY <1>7 DEF SendExit
  <2>2. Busy' = Busy \ {t} /\ t \in Busy
    BY <1>0, <2>1 DEF Busy, Idle
  <2>3. Cardinality(Busy') = Cardinality(Busy) - 1
    BY <2>2, BusyFinite, FS_RemoveElement
  <2>4. IdsLeft' /\ nextId \in 4..(3 + MaxExits) /\ nextId' \in 4..(4 + MaxExits)
    BY <1>0, <2>1, <2>3, BusyFinite, BoundAssumption DEF TypeInv, IdsLeft
  <2>5. nextId \in Exits /\ nextId \in Ids /\ nextId \notin Bracket
    BY <2>4, IdFacts
  <2>6. task[t].ref \in ExitRefs /\ task[t].qty \in Int /\ task[t].ref \in Refs
    BY <1>0, <2>1 DEF TypeInv, TasksSound, TaskType, ExitRefs
  <2>7. o \in BookOrder /\ o.ref \in ExitRefs /\ o.st = "Sent"
    BY <2>6, QtyAssumption DEF BookOrder
  <2>8. row \in RowType
    <3>1. PendingRow \in RowType
      BY QtyAssumption DEF PendingRow, NoRow, RowType, WorkingState
    <3> QED BY <2>5, <3>1 DEF RowType
  <2>9. m \in Request /\ m.ids = {nextId}
    BY <2>5 DEF Request
  <2>10. Idle \in TaskType /\ Idle.pc = "idle"
    BY DEF Idle, TaskType
  <2> HIDE DEF o, row, m
  <2>11. book' \in [Ids -> BookOrder] /\ rows' \in [Refs -> RowType]
         /\ task' \in [Tasks -> TaskType]
    BY <1>0, <2>1, <2>5, <2>7, <2>8, <2>10
  <2>12. /\ pipe' \in Seq(Request)
         /\ \A k \in DOMAIN pipe' : \/ k \in DOMAIN pipe /\ pipe'[k] = pipe[k]
                                    \/ pipe'[k] = m
    BY ONLY <1>0, <2>1, <2>9
  <2>13. TypeOK'
    BY <2>1, <2>4, <2>11, <2>12 DEF TypeInv, TypeOK, TaskType, RowType, BookOrder, Request
  <2>14. TasksSound'
    BY <1>0, <2>1, <2>10 DEF TypeInv, TasksSound
  <2>15. PlacesExits'
    BY <1>0, <2>1, <2>4, <2>9, <2>12 DEF TypeInv, PlacesExits
  <2>16. BookSound'
    BY <1>0, <2>1, <2>4, <2>5, <2>7, IdFacts DEF TypeInv, BookSound, Live, Resting
  <2> QED BY <2>4, <2>13, <2>14, <2>15, <2>16 DEF TypeInv
<1>8. CASE (\E r \in Refs : ExpireStale(r)) \/ ShutdownGracefully
  <2>1. /\ UNCHANGED <<rows, account, task, flatten, second, book, position, nextId, taken>>
        /\ phase' \in {phase, "stopping"}
        /\ \E I \in SUBSET Ids : pipe' = cancel_order(I)
    BY <1>8, CancellableIds DEF ExpireStale, Stale, ShutdownGracefully, process, TypeInv
  <2>2. BookSound' /\ PlacesExits' /\ pipe' \in Seq(Request)
    BY <2>1, ProcessStep
  <2>3. TypeOK'
    BY <2>1, <2>2 DEF TypeInv, TypeOK, Request
  <2> QED BY <2>1, <2>2, <2>3 DEF TypeInv, IdsLeft, Busy, TasksSound
<1>9. CASE Stop
  <2>1. /\ phase' = "down" /\ task' = [t \in Tasks |-> Idle]
        /\ UNCHANGED <<rows, account, flatten, second, broker, taken>>
    BY <1>9 DEF Stop
  <2>2. Idle \in TaskType /\ Idle.pc = "idle"
    BY DEF Idle, TaskType
  <2>3. BookSound' /\ PlacesExits' /\ pipe' \in Seq(Request)
    BY <2>1, ProcessStep DEF broker
  <2>4. TypeOK'
    BY <2>1, <2>2, <2>3 DEF TypeInv, TypeOK, broker, TaskType
  <2>5. Busy' = {}
    BY <2>1, <2>2 DEF Busy
  <2>6. IdsLeft'
    BY <1>0, <2>1, <2>5, FS_EmptySet, BoundAssumption DEF IdsLeft, broker
  <2> QED BY <2>1, <2>2, <2>3, <2>4, <2>6 DEF TypeInv, TasksSound
<1>10. CASE UNCHANGED vars
  BY <1>t, <1>0, <1>10, ProcessStep DEF vars, broker
<1>11. ASSUME NEW i \in Ids, BrokerCancel(i) PROVE TypeInv'
  <2>1. UNCHANGED <<process, pipe, position, nextId, taken>>
    BY <1>11 DEF BrokerCancel
  <2>2. /\ book' \in [Ids -> BookOrder]
        /\ \A j \in Ids : \/ book'[j] = book[j]
                           \/ /\ Live(j) /\ book'[j].ref = book[j].ref
                              /\ book'[j].st = "Cancelled"
    BY <1>11, Cancels
  <2>3. BookSound'
    BY <2>1, <2>2, IdFacts DEF TypeInv, BookSound, Live, Resting
  <2>4. PlacesExits'
    BY <2>1 DEF TypeInv, PlacesExits
  <2> QED BY <1>t, <1>0, <2>1, <2>2, <2>3, <2>4
<1> QED
  BY <1>1, <1>2, <1>3, <1>4, <1>5, <1>6, <1>7, <1>8, <1>9, <1>10, <1>11 DEF Next, Tasks

\* Every variable keeps its type: the ids suffice for the exits that tasks are about
\* to send, and no status event finds an order whose ref is unknown.
THEOREM TypeCorrect == Spec => []TypeOK
<1>1. TypeInv => TypeOK
  BY DEF TypeInv
<1> QED BY <1>1, TypeInit, TypeNext, PTL DEF Spec

-----------------------------------------------------------------------------
(* Whoever places an exit has asked for the cancel of every bracket order  *)
(* that nobody had asked to cancel, on the same socket and before it: the  *)
(* rows may lag behind the book, but never call a live order done.         *)

RowsLag ==
  \A i \in Bracket : rows[i].id = i /\ (Live(i) => rows[i].state \in WorkingState)

SendCovered ==
  (\E t \in Tasks : task[t].pc = "send")
    => \A i \in Bracket : Resting(i) => Requested("cancel", i)

PlaceCovered ==
  \A k \in DOMAIN pipe : pipe[k].kind = "place" =>
    \A i \in Bracket : Resting(i) =>
      \E j \in DOMAIN pipe : j < k /\ pipe[j].kind = "cancel" /\ i \in pipe[j].ids

ExitInv == RowsLag /\ SendCovered /\ PlaceCovered /\ CancelsComeFirst

\* No step puts a bracket order back to work, or takes a cancel of it back, and only a
\* placement puts an exit to work.
LEMMA LiveNext ==
  ASSUME TypeInv, [Next]_vars
  PROVE  /\ \A i \in Bracket : (Live(i)' => Live(i)) /\ (Resting(i)' => Resting(i))
         /\ \A i \in Exits : Live(i)' =>
              \/ Live(i)
              \/ BrokerReceive /\ 1 \in DOMAIN pipe /\ pipe[1].kind = "place"
<1>0. Bracket \subseteq Ids /\ Exits \subseteq Ids /\ book \in [Ids -> BookOrder]
      /\ \A i \in Exits : i \notin Bracket
  BY IdFacts, Types DEF TypeInv
<1>1. CASE \/ BrokerFillEntry
           \/ \E i \in Legs : BrokerFillLeg(i)
           \/ \E i \in Exits : BrokerFillExit(i)
  BY <1>0, <1>1, Fills DEF Live, Resting
<1>2. CASE BrokerReceive
  BY <1>0, <1>2, Received DEF Live, Resting, Accepted
<1>3. ASSUME NEW t \in Tasks, SendExit(t)
      PROVE  \A i \in Ids : (Live(i)' => Live(i)) /\ (Resting(i)' => Resting(i))
  BY <1>0, <1>3 DEF SendExit, Live, Resting
<1>4. CASE UNCHANGED book
  BY <1>4 DEF Live, Resting
<1>5. ASSUME NEW j \in Ids, BrokerCancel(j)
      PROVE  \A i \in Ids : (Live(i)' => Live(i)) /\ (Resting(i)' => Resting(i))
  BY <1>5, Cancels DEF Live, Resting
<1> QED
  BY <1>0, <1>1, <1>2, <1>3, <1>4, <1>5
  DEF Next, on_order_status, SyncAccount, WindowOpens, Trip, FlattenAll, HandleClose, ClosePosition,
      ExpireStale, ShutdownGracefully, Stop, vars, broker, Tasks

\* A bracket's row tells its id, and changes only with the broker's report.
LEMMA RowsLagNext == TypeInv /\ RowsLag /\ [Next]_vars => RowsLag'
<1> SUFFICES ASSUME TypeInv, RowsLag, [Next]_vars PROVE RowsLag'
  OBVIOUS
<1>0. /\ rows \in [Refs -> RowType] /\ Bracket \subseteq Ids /\ Bracket \subseteq Refs
      /\ \A r \in ExitRefs : r \notin Bracket
      /\ \A i \in Bracket : Live(i)' => Live(i)
  BY Types, IdFacts, LiveNext DEF TypeInv, ExitRefs
<1>1. ASSUME \A i \in Bracket : rows'[i] = rows[i] PROVE RowsLag'
  BY <1>0, <1>1 DEF RowsLag
<1>2. ASSUME NEW j \in Ids, on_order_status(j) PROVE RowsLag'
  <2>1. /\ book[j].st \notin {"None", "Sent"} /\ UNCHANGED book
        /\ rows' = [rows EXCEPT ![book[j].ref] = Reported(j)]
    BY <1>2 DEF on_order_status, broker
  <2>2. CASE j \in Bracket
    <3>1. book[j].ref = j
      BY <2>2 DEF TypeInv, BookSound
    <3>2. Reported(j).id = j /\ (Live(j) => Reported(j).state \in WorkingState)
      BY <2>1, ReportedRow DEF TypeInv
    <3> QED BY <1>0, <2>1, <2>2, <3>1, <3>2 DEF RowsLag, Live, Resting
  <2>3. CASE j \notin Bracket
    <3>1. book[j].ref \in ExitRefs
      BY <2>1, <2>3, IdFacts DEF TypeInv, BookSound
    <3>2. \A i \in Bracket : rows'[i] = rows[i]
      BY <1>0, <2>1, <3>1
    <3> QED BY <1>1, <3>2
  <2> QED BY <2>2, <2>3
<1>3. ASSUME NEW t \in Tasks, ClosePosition(t) PROVE RowsLag'
  <2>1. \E r \in ExitRefs : rows' = [rows EXCEPT ![r] = PendingRow]
    BY <1>3, IdFacts DEF ClosePosition
  <2> QED BY <1>0, <1>1, <2>1
<1>4. ASSUME NEW t \in Tasks, SendExit(t) PROVE RowsLag'
  <2>1. rows' = [rows EXCEPT ![task[t].ref] = [PendingRow EXCEPT !.id = nextId]]
        /\ task[t].ref \in ExitRefs
    BY <1>4 DEF SendExit, TypeInv, TasksSound
  <2> QED BY <1>0, <1>1, <2>1
<1> QED
  BY <1>1, <1>2, <1>3, <1>4
  DEF Next, BrokerFillEntry, BrokerFillLeg, BrokerFillExit, BrokerReceive, BrokerCancel, SyncAccount,
      WindowOpens, Trip, FlattenAll, HandleClose, ExpireStale, ShutdownGracefully, Stop, vars, process, Tasks

\* The socket grows by cancels, loses an order at its front, or gets an exit.
LEMMA PipeNext ==
  ASSUME TypeInv, [Next]_vars
  PROVE  \/ pipe' = pipe
         \/ \E I \in SUBSET Ids : pipe' = cancel_order(I)
         \/ BrokerReceive
         \/ \E t \in Tasks : SendExit(t)
BY CancellableIds
DEF TypeInv, Next, BrokerFillEntry, BrokerFillLeg, BrokerFillExit, BrokerCancel, on_order_status, SyncAccount,
    WindowOpens, Trip, FlattenAll, HandleClose, ClosePosition, ExpireStale, Stale,
    ShutdownGracefully, Stop, vars, broker, Tasks

\* While the broker has not read the cancel of an order of the bracket, it is on the socket.
LEMMA RequestedNext ==
  ASSUME TypeInv, [Next]_vars, NEW i \in Bracket, Resting(i)', Requested("cancel", i)
  PROVE  Requested("cancel", i)'
<1>0. pipe \in Seq(Request) /\ i \in Ids
  BY Types, IdFacts DEF TypeInv
<1>1. PICK k \in DOMAIN pipe : pipe[k].kind = "cancel" /\ i \in pipe[k].ids
  BY DEF Requested
<1>2. CASE pipe' = pipe
  BY <1>2 DEF Requested
<1>3. ASSUME NEW I \in SUBSET Ids, pipe' = cancel_order(I) PROVE Requested("cancel", i)'
  <2>1. k \in DOMAIN pipe' /\ pipe'[k] = pipe[k]
    BY <1>0, <1>3, CancelOrder
  <2> QED BY <1>1, <2>1 DEF Requested
<1>4. CASE BrokerReceive
  <2>1. PICK x \in Ids :
          /\ pipe[1].kind = "cancel" => Accepted(x)
          /\ (pipe[1].ids = {x} /\ Shifted) \/ Shrunk(x)
    BY <1>4, Received
  <2>2. pipe[1].kind = "cancel" => i # x
    <3>1. SUFFICES ASSUME pipe[1].kind = "cancel", i = x PROVE FALSE
      OBVIOUS
    <3>2. Resting(x)
      BY <3>1, LiveNext
    <3> QED BY <2>1, <3>1, <3>2 DEF Accepted, Resting
  <2>3. CASE k = 1
    BY <1>1, <2>1, <2>2, <2>3 DEF Shrunk, Requested
  <2>4. CASE k # 1 /\ Shifted
    <3>1. k - 1 \in DOMAIN pipe' /\ k \in Int
      BY <1>0, <1>1, <2>4 DEF Shifted
    <3>2. pipe'[k - 1] = pipe[(k - 1) + 1] /\ (k - 1) + 1 = k
      BY <2>4, <3>1 DEF Shifted
    <3> QED BY <1>1, <3>1, <3>2 DEF Requested
  <2>5. CASE k # 1 /\ Shrunk(x)
    BY <1>1, <2>5 DEF Shrunk, Requested
  <2> QED BY <2>1, <2>3, <2>4, <2>5
<1>5. ASSUME NEW t \in Tasks, SendExit(t) PROVE Requested("cancel", i)'
  <2>1. pipe' = Append(pipe, [kind |-> "place", ids |-> {nextId}])
    BY <1>5 DEF SendExit
  <2>2. k \in DOMAIN pipe' /\ pipe'[k] = pipe[k]
    BY <1>0, <1>1, <2>1
  <2> QED BY <1>1, <2>2 DEF Requested
<1> QED BY <1>2, <1>3, <1>4, <1>5, PipeNext

\* close_position asks for the cancel of whatever nobody had asked to cancel before its
\* task goes on to place the exit.
LEMMA SendCoveredNext ==
  TypeInv /\ RowsLag /\ SendCovered /\ [Next]_vars => SendCovered'
<1> SUFFICES ASSUME TypeInv, RowsLag, SendCovered, [Next]_vars,
                    NEW u \in Tasks, task'[u].pc = "send",
                    NEW i \in Bracket, Resting(i)'
             PROVE  Requested("cancel", i)'
  BY DEF SendCovered
<1>0. task \in [Tasks -> TaskType] /\ Resting(i)
  BY Types, LiveNext DEF TypeInv
<1>1. ASSUME NEW t \in Tasks, ClosePosition(t) PROVE Requested("cancel", i)'
  <2>1. pipe' = cancel_order(Cancellable(Refs))
    BY <1>1 DEF ClosePosition
  <2>2. i \in Cancellable(Refs)
    <3>1. i \in Refs /\ i # 0 /\ rows[i].id = i /\ rows[i].state \in WorkingState
      BY <1>0, IdFacts DEF RowsLag, Live
    <3> QED BY <3>1 DEF Cancellable, working_orders
  <2>3. pipe \in Seq(Request) /\ Cancellable(Refs) \in SUBSET Ids
    BY Types, CancellableIds DEF TypeInv
  <2>4. \E k \in DOMAIN pipe' : pipe'[k].kind = "cancel" /\ i \in pipe'[k].ids
    BY <1>0, <2>1, <2>2, <2>3, CancelOrder
  <2> QED BY <2>4 DEF Requested
<1>2. CASE task[u].pc = "send"
  BY <1>0, <1>2, RequestedNext DEF SendCovered
<1>3. ASSUME NEW t \in Tasks, FlattenAll(t) \/ HandleClose(t) \/ SendExit(t)
      PROVE  task[u].pc = "send"
  <2>1. /\ Idle.pc = "idle"
        /\ [Idle EXCEPT !.pc = "close", !.qty = account].pc = "close"
    BY DEF Idle
  <2>2. \/ task' = [task EXCEPT ![t] = [Idle EXCEPT !.pc = "close", !.qty = account]]
        \/ task' = [task EXCEPT ![t] = Idle]
    BY <1>3 DEF FlattenAll, HandleClose, SendExit
  <2> QED BY <1>0, <2>1, <2>2
<1>4. ~Stop
  BY DEF Stop, Idle
<1>5. task' = task => task[u].pc = "send"
  OBVIOUS
<1>6. task[u].pc = "send" \/ \E t \in Tasks : ClosePosition(t)
  BY <1>3, <1>4, <1>5
  DEF Next, BrokerFillEntry, BrokerFillLeg, BrokerFillExit, BrokerReceive, BrokerCancel,
      on_order_status, SyncAccount, WindowOpens, Trip, ExpireStale, ShutdownGracefully, vars, process, Tasks
<1> QED BY <1>1, <1>2, <1>6

LEMMA PlaceCoveredNext ==
  TypeInv /\ SendCovered /\ PlaceCovered /\ [Next]_vars => PlaceCovered'
<1> SUFFICES ASSUME TypeInv, SendCovered, PlaceCovered, [Next]_vars,
                    NEW k \in DOMAIN pipe', pipe'[k].kind = "place",
                    NEW i \in Bracket, Resting(i)'
             PROVE  \E j \in DOMAIN pipe' : /\ j < k /\ pipe'[j].kind = "cancel"
                                            /\ i \in pipe'[j].ids
  BY DEF PlaceCovered
<1>0. pipe \in Seq(Request) /\ i \in Ids /\ Resting(i)
  BY Types, IdFacts, LiveNext DEF TypeInv
<1>1. ASSUME k \in DOMAIN pipe, pipe[k].kind = "place",
             \A j \in DOMAIN pipe : j \in DOMAIN pipe' /\ pipe'[j] = pipe[j]
      PROVE  \E j \in DOMAIN pipe' : /\ j < k /\ pipe'[j].kind = "cancel"
                                     /\ i \in pipe'[j].ids
  <2>1. PICK j \in DOMAIN pipe : j < k /\ pipe[j].kind = "cancel" /\ i \in pipe[j].ids
    BY <1>0, <1>1 DEF PlaceCovered
  <2> QED BY <1>1, <2>1
<1>2. CASE pipe' = pipe
  BY <1>1, <1>2
<1>3. ASSUME NEW I \in SUBSET Ids, pipe' = cancel_order(I)
      PROVE  \E j \in DOMAIN pipe' : /\ j < k /\ pipe'[j].kind = "cancel"
                                     /\ i \in pipe'[j].ids
  <2>1. /\ \A j \in DOMAIN pipe : j \in DOMAIN pipe' /\ pipe'[j] = pipe[j]
        /\ \A j \in DOMAIN pipe' \ DOMAIN pipe : pipe'[j].kind = "cancel"
    BY <1>0, <1>3, CancelOrder
  <2> QED BY <1>1, <2>1
<1>4. ASSUME NEW t \in Tasks, SendExit(t)
      PROVE  \E j \in DOMAIN pipe' : /\ j < k /\ pipe'[j].kind = "cancel"
                                     /\ i \in pipe'[j].ids
  <2>1. pipe' = Append(pipe, [kind |-> "place", ids |-> {nextId}]) /\ task[t].pc = "send"
    BY <1>4 DEF SendExit
  <2>2. /\ \A j \in DOMAIN pipe : j \in DOMAIN pipe' /\ pipe'[j] = pipe[j] /\ j < Len(pipe) + 1
        /\ k \in DOMAIN pipe \/ k = Len(pipe) + 1
    BY <1>0, <2>1
  <2>3. CASE k \in DOMAIN pipe
    BY <1>1, <2>2, <2>3
  <2>4. CASE k = Len(pipe) + 1
    <3>1. PICK j \in DOMAIN pipe : pipe[j].kind = "cancel" /\ i \in pipe[j].ids
      BY <1>0, <2>1 DEF SendCovered, Requested
    <3> QED BY <2>2, <2>4, <3>1
  <2> QED BY <2>2, <2>3, <2>4
<1>5. CASE BrokerReceive
  <2>1. PICK x \in Ids :
          /\ 1 \in DOMAIN pipe
          /\ pipe[1].kind = "cancel" => Accepted(x)
          /\ (pipe[1].ids = {x} /\ Shifted) \/ Shrunk(x)
    BY <1>5, Received
  <2>2. pipe[1].kind = "cancel" => i # x
    <3>1. SUFFICES ASSUME pipe[1].kind = "cancel", i = x PROVE FALSE
      OBVIOUS
    <3> QED BY <1>0, <2>1, <3>1 DEF Accepted, Resting
  <2>3. DOMAIN pipe \subseteq Nat
    BY <1>0
  <2>4. CASE pipe[1].ids = {x} /\ Shifted
    <3>1. k + 1 \in DOMAIN pipe /\ pipe[k + 1].kind = "place"
      BY <2>4 DEF Shifted
    <3>2. PICK j \in DOMAIN pipe : j < k + 1 /\ pipe[j].kind = "cancel" /\ i \in pipe[j].ids
      BY <1>0, <3>1 DEF PlaceCovered
    <3>3. j # 1
      BY <2>2, <2>4, <3>2
    <3>4. j - 1 \in DOMAIN pipe' /\ (j - 1) + 1 = j
      BY <2>3, <2>4, <3>3 DEF Shifted
    <3>5. pipe'[j - 1] = pipe[j]
      BY <2>4, <3>4 DEF Shifted
    <3>6. j - 1 < k
      <4>1. k + 1 \in Nat /\ j \in Nat /\ k \in Int
        <5>1. Len(pipe') \in Nat /\ DOMAIN pipe' = 1..Len(pipe')
          BY <1>5, Received
        <5> QED BY <2>3, <3>1, <5>1
      <4> QED BY <3>2, <4>1
    <3> QED BY <3>2, <3>4, <3>5, <3>6
  <2>5. CASE Shrunk(x)
    <3>1. k \in DOMAIN pipe /\ pipe[k].kind = "place"
      BY <2>1, <2>5 DEF Shrunk
    <3>2. PICK j \in DOMAIN pipe : j < k /\ pipe[j].kind = "cancel" /\ i \in pipe[j].ids
      BY <1>0, <3>1 DEF PlaceCovered
    <3> QED BY <2>2, <2>5, <3>2 DEF Shrunk
  <2> QED BY <2>1, <2>4, <2>5
<1> QED BY <1>2, <1>3, <1>4, <1>5, PipeNext

LEMMA ExitInit == Init => ExitInv
<1> SUFFICES ASSUME Init PROVE ExitInv OBVIOUS
<1> USE DEF Init
<1>1. pipe = <<>> /\ \A k \in DOMAIN pipe : FALSE
  OBVIOUS
<1>2. RowsLag
  BY IdFacts DEF RowsLag, WorkingState
<1>3. SendCovered /\ PlaceCovered
  BY <1>1 DEF SendCovered, PlaceCovered, Idle
<1>4. CancelsComeFirst
  BY IdFacts DEF CancelsComeFirst, Live, Resting, NoOrder
<1> QED BY <1>2, <1>3, <1>4 DEF ExitInv

LEMMA ExitNext == TypeInv /\ ExitInv /\ [Next]_vars => ExitInv'
<1> SUFFICES ASSUME TypeInv, ExitInv, [Next]_vars PROVE ExitInv'
  OBVIOUS
<1>1. RowsLag' /\ SendCovered' /\ PlaceCovered'
  BY RowsLagNext, SendCoveredNext, PlaceCoveredNext DEF ExitInv
<1>2. CancelsComeFirst'
  <2>1. SUFFICES ASSUME NEW i \in Exits, Live(i)', NEW b \in Bracket, Resting(b)'
                PROVE  FALSE
    BY DEF CancelsComeFirst
  <2>2. Resting(b)
    BY <2>1, LiveNext
  <2>3. ~Live(i)
    BY <2>1, <2>2 DEF ExitInv, CancelsComeFirst
  <2>4. 1 \in DOMAIN pipe /\ pipe[1].kind = "place"
    BY <2>1, <2>3, LiveNext
  <2>5. PICK j \in DOMAIN pipe : j < 1
    BY <2>1, <2>2, <2>4 DEF ExitInv, PlaceCovered
  <2>6. DOMAIN pipe = 1..Len(pipe) /\ Len(pipe) \in Nat
    BY Types DEF TypeInv
  <2> QED BY <2>5, <2>6
<1> QED BY <1>1, <1>2 DEF ExitInv

\* No exit ever comes to work beside an order of the bracket that the broker has not been
\* asked to cancel, however the flattens, the closes, the expiry and the shutdown overlap,
\* however late the rows are, and however long the broker takes over each cancel.
THEOREM CancelsComeFirstHolds == Spec => []CancelsComeFirst
<1>1. Spec => []TypeInv
  BY TypeInit, TypeNext, PTL DEF Spec
<1>2. ExitInv => CancelsComeFirst
  BY DEF ExitInv
<1> QED BY <1>1, <1>2, ExitInit, ExitNext, PTL DEF Spec

-----------------------------------------------------------------------------
(* Before any exit path has begun, only the entry is ever asked to be      *)
(* cancelled, and the legs are at work until they are no longer needed.    *)

Untouched ==
  /\ nextId = 4
  /\ \A t \in Tasks : task[t].pc = "idle"
  /\ \A r \in ExitRefs : rows[r] = NoRow
  /\ \A k \in DOMAIN pipe : pipe[k].kind = "cancel" /\ pipe[k].ids \subseteq {ENTRY}

Guarded == Resting(STOP) /\ Resting(TARGET) /\ position = book[ENTRY].filled

Over == position = 0 /\ \A i \in Bracket : ~Live(i)

StopInv == ~taken => Untouched /\ (Guarded \/ Over)

LEMMA StopInit == Init => StopInv
<1> SUFFICES ASSUME Init PROVE Untouched /\ Guarded
  BY DEF StopInv
<1> USE DEF Init
<1>1. ENTRY \in Ids /\ STOP \in Ids /\ TARGET \in Ids /\ Bracket = {ENTRY, STOP, TARGET}
  BY IdFacts
<1>2. Guarded
  BY <1>1 DEF Guarded, Live, Resting
<1>3. pipe = <<>> /\ \A k \in DOMAIN pipe : FALSE
  OBVIOUS
<1>4. Untouched
  BY <1>3 DEF Untouched, Idle, ExitRefs
<1> QED BY <1>2, <1>4

\* A pass of cancels that asks for the entry at most.
LEMMA EntryCancelled ==
  ASSUME TypeInv, Untouched, NEW I \in SUBSET {ENTRY}, pipe' = cancel_order(I)
  PROVE  \A k \in DOMAIN pipe' : pipe'[k].kind = "cancel" /\ pipe'[k].ids \subseteq {ENTRY}
<1>1. pipe \in Seq(Request) /\ I \in SUBSET Ids
  BY Types, IdFacts DEF TypeInv
<1>2. /\ \A k \in DOMAIN pipe : k \in DOMAIN pipe' /\ pipe'[k] = pipe[k]
      /\ \A k \in DOMAIN pipe' \ DOMAIN pipe : pipe'[k].kind = "cancel" /\ pipe'[k].ids \subseteq I
  BY <1>1, CancelOrder
<1> QED BY <1>2 DEF Untouched

LEMMA StopNext == TypeInv /\ RowsLag /\ StopInv /\ [Next]_vars => StopInv'
<1> SUFFICES ASSUME TypeInv, RowsLag, StopInv, [Next]_vars, ~taken'
             PROVE  Untouched' /\ (Guarded' \/ Over')
  BY DEF StopInv
<1>0. /\ rows \in [Refs -> RowType] /\ task \in [Tasks -> TaskType]
      /\ book \in [Ids -> BookOrder] /\ pipe \in Seq(Request) /\ position \in Int
      /\ ENTRY \in Ids /\ STOP \in Ids /\ TARGET \in Ids
      /\ Legs = {STOP, TARGET} /\ Bracket = {ENTRY, STOP, TARGET}
      /\ ENTRY # STOP /\ ENTRY # TARGET /\ STOP # TARGET
  BY Types, IdFacts DEF TypeInv, Legs, ENTRY, STOP, TARGET
<1>1. Untouched /\ (Guarded \/ Over)
  <2>1. ~taken
    BY DEF Next, BrokerFillEntry, BrokerFillLeg, BrokerFillExit, BrokerReceive, BrokerCancel,
           on_order_status, SyncAccount, WindowOpens, Trip, FlattenAll, HandleClose, ClosePosition, SendExit,
           ExpireStale, ShutdownGracefully, Stop, vars, broker
  <2> QED BY <2>1 DEF StopInv
<1>2. ASSUME UNCHANGED <<rows, task, pipe, nextId>> PROVE Untouched'
  BY <1>1, <1>2 DEF Untouched
<1>3. ASSUME UNCHANGED <<book, position>> PROVE Guarded' \/ Over'
  BY <1>1, <1>3 DEF Guarded, Over, Live, Resting
<1>4. \A i \in Exits : ~Live(i)
  BY <1>0, <1>1, IdFacts DEF Untouched, TypeInv, BookSound, Live, Resting
<1>5. CASE BrokerFillEntry
  <2>1. Guarded
    BY <1>0, <1>1, <1>5 DEF BrokerFillEntry, Over
  <2> DEFINE st == IF book[ENTRY].filled + 1 = Qty THEN "Filled" ELSE book[ENTRY].st
             o == [book[ENTRY] EXCEPT !.filled = @ + 1, !.st = st]
  <2>2. book' = [book EXCEPT ![ENTRY] = o] /\ position' = position + 1
    BY <1>0, <1>5 DEF BrokerFillEntry
  <2>3. o.filled = book[ENTRY].filled + 1
    BY <1>0 DEF BookOrder
  <2> HIDE DEF o
  <2>4. Guarded'
    BY <1>0, <2>1, <2>2, <2>3 DEF Guarded, Live, Resting
  <2> QED BY <1>2, <1>5, <2>4 DEF BrokerFillEntry, process
<1>6. ASSUME NEW i \in Legs, BrokerFillLeg(i) PROVE Untouched' /\ Over'
  <2>1. Guarded /\ ~Live(ENTRY)
    BY <1>0, <1>1, <1>6 DEF BrokerFillLeg, Over
  <2> DEFINE n == book[ENTRY].filled
             o(j) == IF j = i THEN [book[j] EXCEPT !.st = "Filled", !.filled = n]
                     ELSE IF j \in Legs /\ Live(j) THEN [book[j] EXCEPT !.st = "Cancelled"]
                     ELSE book[j]
  <2>2. position' = 0
    <3>1. n \in Int
      BY <1>0, QtyAssumption DEF BookOrder
    <3>2. position = n /\ position' = position - n
      BY <1>6, <2>1 DEF BrokerFillLeg, Guarded
    <3> QED BY ONLY <3>1, <3>2
  <2>3. book' = [j \in Ids |-> o(j)]
    BY <1>6 DEF BrokerFillLeg
  <2> HIDE DEF n
  <2>4. \A j \in Bracket : ~Live(j)'
    <3>1. o(ENTRY) = book[ENTRY]
      BY <1>0, <1>6
    <3>2. \A j \in Legs : o(j).st \notin {"Submitted", "PendingCancel"}
      BY <1>0 DEF BookOrder, Live, Resting
    <3> HIDE DEF o
    <3> QED BY <1>0, <2>1, <2>3, <3>1, <3>2 DEF Live, Resting
  <2> QED BY <1>2, <1>6, <2>2, <2>4 DEF BrokerFillLeg, process, Over
<1>7. \A i \in Exits : ~BrokerFillExit(i)
  BY <1>4 DEF BrokerFillExit
<1>8. CASE BrokerReceive
  <2>1. PICK x \in Ids :
          /\ 1 \in DOMAIN pipe /\ x \in pipe[1].ids
          /\ pipe[1].kind = "cancel" => Accepted(x)
          /\ (pipe[1].ids = {x} /\ Shifted) \/ Shrunk(x)
    BY <1>8, Received
  <2>2. pipe[1].kind = "cancel" /\ x = ENTRY
    BY <1>1, <2>1 DEF Untouched
  <2>3. UNCHANGED <<process, position, nextId>>
    BY <1>8 DEF BrokerReceive
  <2>4. \A k \in DOMAIN pipe' : pipe'[k].kind = "cancel" /\ pipe'[k].ids \subseteq {ENTRY}
    <3>1. CASE Shifted
      BY <1>1, <3>1 DEF Shifted, Untouched
    <3>2. CASE Shrunk(x)
      BY <1>1, <2>1, <3>2 DEF Shrunk, Untouched
    <3> QED BY <2>1, <3>1, <3>2
  <2>5. Untouched'
    BY <1>1, <2>3, <2>4 DEF Untouched, process
  <2>6. /\ book'[STOP] = book[STOP] /\ book'[TARGET] = book[TARGET]
        /\ book'[ENTRY].filled = book[ENTRY].filled
        /\ Live(ENTRY)' => Live(ENTRY)
    BY <1>0, <2>1, <2>2 DEF Accepted, Live, Resting
  <2> QED BY <1>0, <1>1, <2>3, <2>5, <2>6 DEF Guarded, Over, Live, Resting
<1>20. ASSUME NEW i \in Ids, BrokerCancel(i) PROVE Untouched' /\ (Guarded' \/ Over')
  <2>1. UNCHANGED <<process, pipe, position, nextId, taken>>
    BY <1>20 DEF BrokerCancel
  <2>2. Untouched'
    BY <1>2, <2>1 DEF process
  <2>3. Guarded /\ i = ENTRY /\ Live(ENTRY)
    BY <1>0, <1>1, <1>4, <1>20, IdFacts DEF BrokerCancel, Guarded, Over, Live, Resting
  <2>4. CASE book[ENTRY].filled = 0
    <3>1. \A j \in Bracket : book'[j].st = "Cancelled"
      BY <1>0, <1>20, <2>3, <2>4, Cancels DEF Guarded, Live
    <3> QED BY <2>1, <2>2, <2>3, <2>4, <3>1 DEF Guarded, Over, Live, Resting
  <2>5. CASE book[ENTRY].filled # 0
    <3>1. /\ book'[STOP] = book[STOP] /\ book'[TARGET] = book[TARGET]
          /\ book'[ENTRY].filled = book[ENTRY].filled
      BY <1>0, <1>20, <2>3, <2>5, Cancels
    <3> QED BY <2>1, <2>2, <2>3, <3>1 DEF Guarded, Resting
  <2> QED BY <2>4, <2>5
<1>9. ASSUME NEW j \in Ids, on_order_status(j) PROVE Untouched'
  <2>1. /\ book[j].st \notin {"None", "Sent"}
        /\ rows' = [rows EXCEPT ![book[j].ref] = Reported(j)]
        /\ UNCHANGED <<task, pipe, nextId>>
    BY <1>9 DEF on_order_status, broker
  <2>2. j \in Bracket
    BY <1>1, <2>1, IdFacts DEF Untouched, TypeInv, BookSound
  <2>3. book[j].ref = j /\ j \notin ExitRefs
    BY <2>2 DEF TypeInv, BookSound, ExitRefs
  <2> QED BY <1>0, <1>1, <2>1, <2>3 DEF Untouched, ExitRefs
<1>10. ASSUME NEW I \in SUBSET {ENTRY}, pipe' = cancel_order(I), UNCHANGED <<rows, task, nextId>>
       PROVE  Untouched'
  BY <1>1, <1>10, EntryCancelled DEF Untouched
<1>11. \A r \in working_orders : ~parent_ref(r) => r = ENTRY /\ rows[r].id = ENTRY
  <2>1. \A r \in working_orders : r \in Refs /\ r \notin ExitRefs
    BY <1>1 DEF working_orders, Untouched, NoRow, WorkingState
  <2> QED BY <1>0, <2>1 DEF parent_ref, ExitRefs, RowsLag
<1>12. ASSUME NEW r \in Refs, ExpireStale(r) PROVE Untouched'
  <2>1. {rows[r].id} \in SUBSET {ENTRY}
    BY <1>11, <1>12 DEF ExpireStale, Stale
  <2> QED BY <1>10, <1>12, <2>1 DEF ExpireStale, process
<1>13. CASE ShutdownGracefully
  <2>1. Leaving \in SUBSET {ENTRY}
    BY <1>11 DEF Leaving
  <2> QED BY <1>3, <1>10, <1>13, <2>1 DEF ShutdownGracefully
<1>14. CASE Stop
  <2>1. Untouched'
    BY <1>1, <1>14 DEF Untouched, Stop, broker, Idle
  <2> QED BY <1>3, <1>14, <2>1 DEF Stop, broker
<1>15. \A t \in Tasks : ~ClosePosition(t) /\ ~SendExit(t)
  BY <1>1 DEF Untouched, ClosePosition, SendExit
<1>16. \A t \in Tasks : ~FlattenAll(t) /\ ~HandleClose(t)
  BY DEF FlattenAll, HandleClose
<1>17. CASE SyncAccount \/ WindowOpens \/ Trip \/ UNCHANGED vars
  BY <1>2, <1>3, <1>17 DEF SyncAccount, WindowOpens, Trip, vars, process, broker
<1>18. CASE \E j \in Ids : on_order_status(j)
  BY <1>3, <1>9, <1>18 DEF on_order_status, broker
<1>19. CASE \E r \in Refs : ExpireStale(r)
  BY <1>3, <1>12, <1>19 DEF ExpireStale
<1> QED
  BY <1>5, <1>6, <1>7, <1>8, <1>13, <1>14, <1>15, <1>16, <1>17, <1>18, <1>19, <1>20
  DEF Next, Tasks

\* Until an exit path begins, shares that were bought have their stop at work, unasked: the
\* expiry and the shutdown, whenever they come, cancel the entry at most, and an entry
\* that has bought anything leaves its legs behind.
THEOREM StopStaysHolds == Spec => []StopStays
<1>1. Spec => []TypeInv
  BY TypeInit, TypeNext, PTL DEF Spec
<1>2. ExitInv => RowsLag
  BY DEF ExitInv
<1>3. StopInv => StopStays
  BY DEF StopInv, Guarded, Over, StopStays
<1> QED BY <1>1, <1>2, <1>3, ExitInit, ExitNext, StopInit, StopNext, PTL DEF Spec
=============================================================================

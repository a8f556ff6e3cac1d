-------------------------- MODULE WriteAheadLedger --------------------------
(***************************************************************************)
(* What the order manager promises an auditor: the intent of an order is   *)
(* on record before the order is sent, is never erased, and an order is    *)
(* sent at most once, whatever happens to the process or the connection.   *)
(***************************************************************************)
EXTENDS Naturals

CONSTANT Refs

VARIABLES
  intended,   \* the orders on record
  sent        \* how often each order was sent

Init ==
  /\ intended = {}
  /\ sent = [r \in Refs |-> 0]

Intend ==
  /\ intended \subseteq intended'
  /\ intended' \subseteq Refs
  /\ UNCHANGED sent

Send ==
  /\ sent' \in [Refs -> Nat]
  /\ \A r \in Refs : sent'[r] # sent[r] => r \in intended /\ sent[r] = 0 /\ sent'[r] = 1
  /\ UNCHANGED intended

Next == Intend \/ Send

Spec == Init /\ [][Next]_<<intended, sent>>
=============================================================================

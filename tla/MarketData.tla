------------------------------ MODULE MarketData ------------------------------
(***************************************************************************)
(* The streams of quotes and bars: the focus list and its updates, the     *)
(* subscriptions of MarketDataService with their budget of lines, the      *)
(* adapter's caches of what it has asked for, and the hook that renews     *)
(* everything after a reconnect.                                           *)
(*                                                                         *)
(* The decision loop's coroutine and the hook's interleave at the awaits   *)
(* of the message pacer.  A request that waits there when the socket is    *)
(* lost fails before the next connection, whose first attempt is seconds   *)
(* away; a wait for history, for the plan or for the reconciliation may    *)
(* outlast it.  A person's approval is a coroutine of the dashboard: it    *)
(* enters a position at any moment, an update under way or not.  Positions *)
(* are the program's own.  The streams of a symbol count once, however     *)
(* often they were asked for.                                              *)
(***************************************************************************)
EXTENDS FocusList

CONSTANTS
  Scores,    \* the scores a symbol can have
  Capacity   \* max_market_data_lines, in symbols of two lines each

ASSUME DataAssumption == Scores \subseteq Int /\ Capacity \in Nat

VARIABLES
  connected, ready,    \* the socket; GatewayService.ready
  refreshed,           \* history: the last hook had something to renew, and met no
                       \* subscription half way
  premarket_done,      \* the list was seeded: cycles may run
  current, streak,     \* FocusListManager
  held,                \* symbols with a position or a working order
  subscribed,          \* MarketDataService.subscribed
  reserved,            \* MarketDataLineBudget._reserved
  tickers, bar_subs,   \* the adapter's caches
  quotes, bars,        \* the broker: symbols that stream
  task,                \* the coroutines "cycle" and "hook"
  waited               \* history: updates a symbol has had data outside the list

focus   == <<premarket_done, current, streak, waited>>
service == <<subscribed, reserved, tickers, bar_subs>>
streams == <<quotes, bars>>
vars    == <<connected, ready, refreshed, focus, held, service, streams, task>>

Tasks == {"cycle", "hook"}

\* pc: "next" in subscribe, "quote" and "bars" at its pacer; "load" in load_intraday;
\* "drop" in unsubscribe, "dropquote" and "dropbars" at its pacer, sub being the handle
\* of bars that is to be cancelled there.  late: what an approval entered while the
\* cycle was about to unsubscribe it (history).
Idle   == [pc |-> "idle", todo |-> {}, drop |-> {}, sym |-> {}, sub |-> {}, late |-> {}]
AtPacer(t) == task[t].pc \in {"next", "quote", "bars", "drop", "dropquote", "dropbars"}

Init ==
  /\ connected = TRUE /\ ready = TRUE /\ refreshed = TRUE
  /\ premarket_done = FALSE /\ current = {} /\ streak = NoStreak /\ waited = NoStreak
  /\ held \in SUBSET Symbols
  /\ subscribed = {} /\ reserved = {} /\ tickers = {} /\ bar_subs = {}
  /\ quotes = {} /\ bars = {}
  /\ task = [t \in Tasks |-> Idle]

-----------------------------------------------------------------------------
(* The connection, and what is held. *)

Disconnect ==
  /\ connected
  /\ connected' = FALSE /\ ready' = FALSE
  /\ quotes' = {} /\ bars' = {}
  /\ UNCHANGED <<refreshed, focus, held, service, task>>

Reconnect ==
  /\ ~connected /\ task["hook"].pc = "idle" /\ ~AtPacer("cycle")
  /\ connected' = TRUE /\ ready' = FALSE
  /\ task' = [task EXCEPT !["hook"].pc = "reconcile"]
  /\ UNCHANGED <<refreshed, focus, held, service, streams>>

\* An order of the cycle's own, for a name of the focus list.
Enter(s) ==
  /\ connected /\ ready /\ task["cycle"].pc = "idle"
  /\ s \in current \ held
  /\ held' = held \cup {s}
  /\ UNCHANGED <<connected, ready, refreshed, focus, service, streams, task>>

\* What the cycle is about to unsubscribe.
Leaving == task["cycle"].drop \cup
             (IF task["cycle"].pc \in {"dropquote", "dropbars"} THEN task["cycle"].sym ELSE {})

\* An order for an idea a person says yes to: all it takes is a quote.
ApproveProposal(s) ==
  /\ s \in tickers \ held
  /\ held' = held \cup {s}
  /\ task' = [task EXCEPT !["cycle"].late = @ \cup ({s} \cap Leaving)]
  /\ UNCHANGED <<connected, ready, refreshed, focus, service, streams>>

Exit(s) ==
  /\ s \in held
  /\ held' = held \ {s}
  /\ UNCHANGED <<connected, ready, refreshed, focus, service, streams, task>>

-----------------------------------------------------------------------------
(* The focus list. *)

\* A symbol with data outside the list has waited one update more; Persistence - 1 is
\* as good as more.
Waits(scored) ==
  [s \in Symbols |-> IF s \notin scored \ current' THEN 0
                     ELSE IF waited[s] + 1 < Persistence THEN waited[s] + 1 ELSE waited[s]]

\* update_focus of a cycle.
update_focus ==
  /\ connected /\ ready /\ premarket_done /\ task["cycle"].pc = "idle"
  /\ \E scored \in SUBSET Symbols : \E score \in [scored -> Scores] :
     \E order \in Orders(score) :
       LET u == Update(current, streak, score, held, order)
       IN  /\ current' = u.focus
           /\ streak' = u.streak
           /\ waited' = Waits(scored)
           /\ task' = [task EXCEPT !["cycle"] =
                         [Idle EXCEPT !.pc = IF u.added = {} THEN "drop" ELSE "next",
                                      !.todo = u.added, !.drop = current \ u.focus]]
  /\ UNCHANGED <<connected, ready, refreshed, premarket_done, held, service, streams>>

\* run_premarket seeds the list when the plan is there, connected or not.
SeedFocus ==
  /\ ~premarket_done /\ premarket_done' = TRUE
  /\ \E seed \in {S \in SUBSET Symbols : Cardinality(S) <= Size} :
       /\ current' = seed
       /\ task' = [task EXCEPT !["cycle"] = [Idle EXCEPT !.pc = "next", !.todo = seed]]
  /\ UNCHANGED <<connected, ready, refreshed, streak, waited, held, service, streams>>

-----------------------------------------------------------------------------
(* subscribe. *)

\* Mutant: lines are not counted.
ReserveAnyway(s) == reserved' = reserved \cup {s}

\* MarketDataLineBudget.reserve, when it succeeds.
Reserve(s) ==
  /\ s \in reserved \/ Cardinality(reserved) < Capacity
  /\ reserved' = reserved \cup {s}

\* The next symbol of the list; those already in `subscribed`, and those no line is
\* left for, are skipped.
SubscribeNext(t, s) ==
  /\ task[t].pc = "next" /\ s \in task[t].todo
  /\ \/ /\ s \notin subscribed
        /\ Reserve(s)
        /\ task' = [task EXCEPT ![t].pc = "quote", ![t].todo = @ \ {s}, ![t].sym = {s}]
     \/ /\ s \in subscribed \/ (s \notin reserved /\ Cardinality(reserved) >= Capacity)
        /\ task' = [task EXCEPT ![t].todo = @ \ {s}]
        /\ UNCHANGED reserved
  /\ UNCHANGED <<connected, ready, refreshed, focus, held, subscribed, tickers, bar_subs, streams>>

\* A request on a lost socket raises; the lines are given back, a ticker that is
\* already there stays.
SubscribeFails(t) ==
  /\ ~connected
  /\ \/ task[t].pc = "quote" /\ task[t].sym \cap tickers = {}
     \/ task[t].pc = "bars" /\ task[t].sym \cap bar_subs = {}
  /\ reserved' = reserved \ task[t].sym
  /\ task' = [task EXCEPT ![t].pc = "next", ![t].sym = {}]
  /\ UNCHANGED <<connected, ready, refreshed, focus, held, subscribed, tickers, bar_subs, streams>>

subscribe_quote(t) ==
  /\ task[t].pc = "quote"
  /\ connected \/ task[t].sym \subseteq tickers
  /\ tickers' = tickers \cup task[t].sym
  /\ quotes' = quotes \cup (task[t].sym \ tickers)
  /\ task' = [task EXCEPT ![t].pc = "bars"]
  /\ UNCHANGED <<connected, ready, refreshed, focus, held, subscribed, reserved, bar_subs, bars>>

subscribe_bars(t) ==
  /\ task[t].pc = "bars"
  /\ connected \/ task[t].sym \subseteq bar_subs
  /\ bar_subs' = bar_subs \cup task[t].sym
  /\ bars' = bars \cup (task[t].sym \ bar_subs)
  /\ subscribed' = subscribed \cup task[t].sym
  /\ task' = [task EXCEPT ![t].pc = "next", ![t].sym = {}]
  /\ UNCHANGED <<connected, ready, refreshed, focus, held, reserved, tickers, quotes>>

\* The cycle goes on with its history, the hook is over and declares itself ready.
Subscribed(t) ==
  /\ task[t].pc = "next" /\ task[t].todo = {}
  /\ task' = [task EXCEPT ![t].pc = IF t = "cycle" THEN "load" ELSE "idle"]
  /\ ready' = (ready \/ t = "hook")
  /\ UNCHANGED <<connected, refreshed, focus, held, service, streams>>

load_intraday ==
  /\ task["cycle"].pc = "load"
  /\ task' = [task EXCEPT !["cycle"].pc = "drop"]
  /\ UNCHANGED <<connected, ready, refreshed, focus, held, service, streams>>

-----------------------------------------------------------------------------
(* unsubscribe, of the cycle. *)

UnsubscribeNext(s) ==
  /\ task["cycle"].pc = "drop" /\ s \in task["cycle"].drop
  /\ task' = [task EXCEPT !["cycle"].drop = @ \ {s},
                          !["cycle"].pc = IF s \in subscribed THEN "dropquote" ELSE "drop",
                          !["cycle"].sym = IF s \in subscribed THEN {s} ELSE {}]
  /\ UNCHANGED <<connected, ready, refreshed, focus, held, service, streams>>

\* The ticker is dropped, and the handle of the bars taken from the cache.
unsubscribe_quote ==
  /\ task["cycle"].pc = "dropquote"
  /\ tickers' = tickers \ task["cycle"].sym
  /\ quotes' = quotes \ (task["cycle"].sym \cap tickers)
  /\ bar_subs' = bar_subs \ task["cycle"].sym
  /\ task' = [task EXCEPT !["cycle"].pc = "dropbars",
                          !["cycle"].sub = task["cycle"].sym \cap bar_subs]
  /\ UNCHANGED <<connected, ready, refreshed, focus, held, subscribed, reserved, bars>>

unsubscribe_bars ==
  /\ task["cycle"].pc = "dropbars"
  /\ bars' = bars \ (task["cycle"].sub \ bar_subs)
  /\ subscribed' = subscribed \ task["cycle"].sym
  /\ reserved' = reserved \ task["cycle"].sym
  /\ task' = [task EXCEPT !["cycle"].pc = "drop", !["cycle"].sym = {}, !["cycle"].sub = {}]
  /\ UNCHANGED <<connected, ready, refreshed, focus, held, tickers, bar_subs, quotes>>

FocusUpdated ==
  /\ task["cycle"].pc = "drop" /\ task["cycle"].drop = {}
  /\ task' = [task EXCEPT !["cycle"] = Idle]
  /\ UNCHANGED <<connected, ready, refreshed, focus, held, service, streams>>

-----------------------------------------------------------------------------
(* The reconnect hook. *)

\* Mutant: the adapter goes on believing in what it asked the old session for.
CacheOutlivesSession == UNCHANGED <<tickers, bar_subs>>

clear_subscription_cache == tickers' = {} /\ bar_subs' = {}

\* Reconciled: renew the focus list's streams and those of what is held, when there
\* are any.
resubscribe ==
  /\ task["hook"].pc = "reconcile" /\ connected
  /\ LET targets == current \cup held
     IN  /\ refreshed' = (targets # {} /\ ~AtPacer("cycle"))
         /\ IF targets = {} THEN UNCHANGED <<subscribed, tickers, bar_subs>>
            ELSE clear_subscription_cache /\ subscribed' = {}
         /\ task' = [task EXCEPT !["hook"] = [Idle EXCEPT !.pc = "next", !.todo = targets]]
  /\ UNCHANGED <<connected, ready, focus, held, reserved, streams>>

\* The reconciliation raises: nothing is renewed and nothing is tradeable.
HookFails ==
  /\ task["hook"].pc = "reconcile"
  /\ task' = [task EXCEPT !["hook"] = Idle]
  /\ UNCHANGED <<connected, ready, refreshed, focus, held, service, streams>>

-----------------------------------------------------------------------------
Next ==
  \/ Disconnect \/ Reconnect
  \/ \E s \in Symbols : Enter(s) \/ ApproveProposal(s) \/ Exit(s)
  \/ update_focus \/ SeedFocus
  \/ \E t \in Tasks :
       \/ \E s \in Symbols : SubscribeNext(t, s)
       \/ SubscribeFails(t) \/ subscribe_quote(t) \/ subscribe_bars(t) \/ Subscribed(t)
  \/ load_intraday
  \/ \E s \in Symbols : UnsubscribeNext(s)
  \/ unsubscribe_quote \/ unsubscribe_bars \/ FocusUpdated
  \/ resubscribe \/ HookFails

Spec == Init /\ [][Next]_vars

-----------------------------------------------------------------------------
\* Every variable keeps its type, and no more lines are reserved than there are.
TypeOK ==
  /\ {connected, ready, refreshed, premarket_done} \subseteq BOOLEAN
  /\ {current, held, subscribed, reserved, tickers, bar_subs, quotes, bars} \subseteq SUBSET Symbols
  /\ streak \in [Symbols -> 0..Persistence] /\ waited \in [Symbols -> 0..Persistence]
  /\ task \in [Tasks -> [pc : {"idle", "reconcile", "next", "quote", "bars", "load", "drop",
                               "dropquote", "dropbars"},
                         todo : SUBSET Symbols, drop : SUBSET Symbols, sym : SUBSET Symbols,
                         sub : SUBSET Symbols, late : SUBSET Symbols]]
  /\ Cardinality(reserved) <= Capacity

\* While the engine may trade, what the service counts as subscribed streams quotes
\* and bars in this session and holds its lines, whatever the loss of the old session
\* interrupted; but for the reconnects that found nothing to renew, and for those whose
\* hook met a subscription half way (a plan that was ready just then).
FeedsAlive ==
  connected /\ ready /\ refreshed /\ task["hook"].pc = "idle" =>
    \A s \in subscribed : \/ s \in quotes \cap bars \cap reserved
                          \/ task["cycle"].pc = "dropbars" /\ s \in task["cycle"].sym

\* A position does not lose its feed to the focus list: what is held stays in the list,
\* with data or without, and is not unsubscribed ("a symbol with an open position must
\* never lose its data feed").  It holds of every position but one that a person's approval
\* opens while an update that drops the symbol waits: the code unsubscribes that one.
HeldKeepsItsFeed ==
  [][connected /\ connected' /\ ready /\ task["hook"] = task'["hook"]
       => (held \cap held' \cap subscribed) \ task["cycle"].late \subseteq subscribed']_vars

\* A name with data leaves the list for another only when the other has had data, and
\* has waited outside, for Persistence updates: no swap on one cycle's spike.
SwapsAreEarned ==
  [][update_focus =>
       LET out    == {s \in current \ current' : waited'[s] > 0}
           room   == Size - Cardinality(held \cap current')
           forced == Cardinality(current \ held) - (IF room > 0 THEN room ELSE 0)
           earned == {s \in current' \ current : waited[s] + 1 >= Persistence}
       IN  Cardinality(out) <= (IF forced > 0 THEN forced ELSE 0) + Cardinality(earned)]_vars

\* "Protected symbols are always members: dropping the data feed for a position we hold
\* would blind the exit logic": between cycles, what is held and in the list is fed.
HeldIsFed ==
  connected /\ ready /\ (\A t \in Tasks : task[t].pc = "idle") /\ Cardinality(reserved) < Capacity
    => held \cap current \subseteq subscribed
=============================================================================

------------------------------- MODULE FocusList -------------------------------
(***************************************************************************)
(* FocusListManager.update of analytics/ranking.py: which symbols are      *)
(* watched closely, with the hysteresis that keeps membership from         *)
(* thrashing.  The list is a set; `order` lists the scored symbols from    *)
(* the highest score down, ties in any order, and stands for the sorts.    *)
(***************************************************************************)
EXTENDS Integers, FiniteSets

CONSTANTS
  Symbols,
  Size,           \* focus_list_size
  MaxPromotions,  \* max_promotions_per_cycle
  Persistence,    \* churn_persistence_cycles
  ChurnMargin     \* churn_margin, in percent

ASSUME FocusAssumption ==
  /\ IsFiniteSet(Symbols)
  /\ {Size, MaxPromotions, Persistence} \subseteq Nat \ {0}
  /\ ChurnMargin \in Nat

NoStreak == [s \in Symbols |-> 0]

\* The orders the sorts may give the scored symbols.
Orders(score) ==
  {order \in [1..Cardinality(DOMAIN score) -> DOMAIN score] :
     \A i, j \in DOMAIN order :
       i < j => order[i] # order[j] /\ score[order[i]] >= score[order[j]]}

\* Mutant: what has no score is not kept, whoever holds it.
KeptIfScored(current, scored, protected) == protected \cap scored

\* Protected names occupy slots before anything else.
Kept(current, scored, protected) == protected \cap (scored \cup current)

Weakest(R, order) == order[CHOOSE i \in DOMAIN order :
                             order[i] \in R /\ \A j \in DOMAIN order : order[j] \in R => j <= i]

Beats(score, a, b) == 100 * score[a] > score[b] * (100 + ChurnMargin)

\* Mutant: a challenger displaces at its first lead.
ContestAtOnce(acc, s, score, order) ==
  LET w == Weakest(acc.retained, order)
  IN  IF Cardinality(acc.added) >= MaxPromotions \/ acc.retained = {} \/ ~Beats(score, s, w)
      THEN acc
      ELSE [acc EXCEPT !.retained = (@ \ {w}) \cup {s}, !.added = @ \cup {s}]

\* One challenger against the weakest of the list so far.
Contest(acc, s, score, order) ==
  LET w == Weakest(acc.retained, order)
  IN  IF Cardinality(acc.added) >= MaxPromotions \/ acc.retained = {} THEN acc
      ELSE IF ~Beats(score, s, w) THEN [acc EXCEPT !.streak[s] = 0]
      ELSE IF acc.streak[s] + 1 < Persistence THEN [acc EXCEPT !.streak[s] = @ + 1]
      ELSE [retained |-> (acc.retained \ {w}) \cup {s},
            added |-> acc.added \cup {s},
            streak |-> [acc.streak EXCEPT ![s] = 0]]

\* The first n of R.
Best(R, n, order) ==
  {order[i] : i \in {i \in DOMAIN order :
                       order[i] \in R /\ Cardinality({j \in 1..i : order[j] \in R}) <= n}}

\* One contest after the other, in the order of the scores.
Contests(first, contested, score, order) ==
  LET acc[n \in 0..Cardinality(DOMAIN score)] ==
        IF n = 0 THEN first
        ELSE IF order[n] \in contested THEN Contest(acc[n - 1], order[n], score, order)
        ELSE acc[n - 1]
  IN  acc[Cardinality(DOMAIN score)]

\* The new list, what is to be subscribed, and the streaks that go on.
Update(current, streak, score, protected, order) ==
  LET scored      == DOMAIN score
      keep        == Kept(current, scored, protected)
      slots       == IF Size > Cardinality(keep) THEN Size - Cardinality(keep) ELSE 0
      incumbents  == (current \cap scored) \ keep
      challengers == scored \ (keep \cup current)
      stay        == Best(incumbents, slots, order)
      free        == slots - Cardinality(stay)
      fill        == Best(challengers, IF free < MaxPromotions THEN free ELSE MaxPromotions, order)
      last        == Contests([retained |-> stay \cup fill, added |-> fill, streak |-> streak],
                              challengers \ fill, score, order)
      focus       == keep \cup last.retained
  IN  [focus |-> focus, added |-> last.added,
       streak |-> [s \in Symbols |-> IF s \in scored \ focus THEN last.streak[s] ELSE 0]]
=============================================================================

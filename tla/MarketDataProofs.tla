--------------------------- MODULE MarketDataProofs ---------------------------
(***************************************************************************)
(* Proofs about the focus list and the streams: what the fold of the       *)
(* contests yields, for every list of scores (by the least position at     *)
(* which it would not hold), and from it that what is believed to stream   *)
(* does stream, that a held symbol is not unsubscribed, and that swaps of  *)
(* the list are earned.                                                    *)
(***************************************************************************)
EXTENDS MarketData, FiniteSetTheorems, WellFoundedInduction, TLAPS

-----------------------------------------------------------------------------
(* The fold of the contests. *)

\* A set of naturals that is not empty has a least member.
LEMMA LeastOf ==
  ASSUME NEW S, S \subseteq Nat, S # {}
  PROVE  \E n \in S : \A m \in S : n <= m
<1>1. PICK x \in S : \A y \in S : <<y, x>> \notin OpToRel(<, Nat)
  BY NatLessThanWellFounded, WFMin, Zenon
<1>2. \A y \in S : ~(y < x)  BY <1>1, Zenon DEF OpToRel
<1> QED  BY <1>2

\* The list after one more position of the order.
Contested(acc, n, contested, score, order) ==
  IF order[n] \in contested THEN Contest(acc, order[n], score, order) ELSE acc

\* f follows the contests from first over the positions up to n.
Follows(f, n, first, contested, score, order) ==
  /\ f = [m \in 0..n |-> f[m]]
  /\ f[0] = first
  /\ \A m \in 1..n : f[m] = Contested(f[m - 1], m, contested, score, order)

LEMMA OneMore ==
  ASSUME NEW n \in Nat \ {0}, NEW g, NEW first, NEW contested, NEW score, NEW order,
         Follows(g, n - 1, first, contested, score, order)
  PROVE  \E f : Follows(f, n, first, contested, score, order)
<1> DEFINE f == [m \in 0..n |-> IF m = n THEN Contested(g[n - 1], n, contested, score, order)
                                         ELSE g[m]]
<1>1. f[0] = first  BY DEF Follows
<1>2. ASSUME NEW m \in 1..n
      PROVE  f[m] = Contested(f[m - 1], m, contested, score, order)
  <2>1. m - 1 \in 0..n /\ m - 1 # n /\ m \in 0..n  OBVIOUS
  <2>2. f[m - 1] = g[m - 1]  BY <2>1
  <2>3. CASE m = n  BY <2>1, <2>2, <2>3
  <2>4. CASE m # n
    <3>1. m \in 1..(n - 1)  BY <2>4
    <3>2. g[m] = Contested(g[m - 1], m, contested, score, order)  BY <3>1 DEF Follows
    <3>3. f[m] = g[m]  BY <2>1, <2>4
    <3> QED  BY <2>2, <3>2, <3>3
  <2> QED  BY <2>3, <2>4
<1>3. f = [m \in 0..n |-> f[m]]  OBVIOUS
<1> QED  BY <1>1, <1>2, <1>3 DEF Follows

LEMMA SomeFollow ==
  ASSUME NEW n \in Nat, NEW first, NEW contested, NEW score, NEW order
  PROVE  \E f : Follows(f, n, first, contested, score, order)
<1> DEFINE F(k) == \E f : Follows(f, k, first, contested, score, order)
           Bad == {k \in Nat : ~F(k)}
<1>1. SUFFICES ASSUME Bad # {} PROVE FALSE  OBVIOUS
<1>2. PICK k \in Bad : \A m \in Bad : k <= m
  <2> HIDE DEF F
  <2> QED  BY <1>1, LeastOf
<1>3. CASE k = 0
  <2> DEFINE f == [m \in 0..0 |-> first]
  <2>1. Follows(f, 0, first, contested, score, order)  BY DEF Follows
  <2> QED  BY <1>3, <2>1
<1>4. CASE k # 0
  <2>1. k - 1 \in Nat /\ k - 1 \notin Bad
    <3> HIDE DEF F
    <3> QED  BY <1>2, <1>4
  <2>2. F(k - 1)
    <3> HIDE DEF F
    <3> QED  BY <2>1
  <2>3. PICK g : Follows(g, k - 1, first, contested, score, order)  BY <2>2
  <2>4. F(k)  BY <2>3, <1>4, OneMore
  <2> QED  BY <2>4
<1> QED  BY <1>3, <1>4

\* The contests yield the end of a function that follows them, one position at a time.
LEMMA ContestsFollow ==
  ASSUME NEW first, NEW contested, NEW score, NEW order, Cardinality(DOMAIN score) \in Nat
  PROVE  \E f : /\ Follows(f, Cardinality(DOMAIN score), first, contested, score, order)
                /\ Contests(first, contested, score, order) = f[Cardinality(DOMAIN score)]
<1> DEFINE N == Cardinality(DOMAIN score)
           Rec(f) == f = [n \in 0..N |->
                            IF n = 0 THEN first
                            ELSE IF order[n] \in contested
                                 THEN Contest(f[n - 1], order[n], score, order)
                                 ELSE f[n - 1]]
           acc == CHOOSE f : Rec(f)
<1>1. PICK f : Follows(f, N, first, contested, score, order)  BY SomeFollow
<1>2. Rec(f)
  <2>1. ASSUME NEW n \in 0..N
        PROVE  f[n] = IF n = 0 THEN first
                      ELSE IF order[n] \in contested
                           THEN Contest(f[n - 1], order[n], score, order)
                           ELSE f[n - 1]
    <3>1. CASE n = 0  BY <1>1, <3>1 DEF Follows
    <3>2. CASE n # 0
      <4>1. n \in 1..N  BY <3>2
      <4> QED  BY <1>1, <3>2, <4>1 DEF Follows, Contested
    <3> QED  BY <3>1, <3>2
  <2>2. f = [n \in 0..N |-> f[n]]  BY <1>1 DEF Follows
  <2> QED  BY <2>1, <2>2
<1>3. Rec(acc)  BY <1>2
<1>4. Contests(first, contested, score, order) = acc[N]  BY DEF Contests
<1>5. Follows(acc, N, first, contested, score, order)
  <2> HIDE DEF acc
  <2>1. \A n \in 0..N : acc[n] = IF n = 0 THEN first
                                 ELSE IF order[n] \in contested
                                      THEN Contest(acc[n - 1], order[n], score, order)
                                      ELSE acc[n - 1]
    BY <1>3
  <2>2. acc = [n \in 0..N |-> acc[n]]  BY <1>3
  <2>3. acc[0] = first  BY <2>1
  <2>4. ASSUME NEW n \in 1..N
        PROVE  acc[n] = Contested(acc[n - 1], n, contested, score, order)
    <3>1. n \in 0..N /\ n # 0  OBVIOUS
    <3> QED  BY <2>1, <3>1 DEF Contested
  <2> QED  BY <2>2, <2>3, <2>4 DEF Follows
<1> QED  BY <1>4, <1>5

-----------------------------------------------------------------------------
(* What the contests do to the list. *)

Streaks == [Symbols -> 0..(Persistence - 1)]

\* Those of R that are new to the list and have waited outside it long enough.
Earned(R, list, wait) == {s \in R \ list : wait[s] + 1 >= Persistence}

LEMMA FiniteSymbols ==
  ASSUME NEW S \in SUBSET Symbols
  PROVE  IsFiniteSet(S) /\ Cardinality(S) \in Nat
BY FS_Subset, FS_CardinalityType, FocusAssumption

LEMMA SubsetSmaller ==
  ASSUME NEW S \in SUBSET Symbols, NEW T \in SUBSET S
  PROVE  Cardinality(T) <= Cardinality(S)
BY FS_Subset, FiniteSymbols

LEMMA OrderOf ==
  ASSUME NEW scored \in SUBSET Symbols, NEW score, DOMAIN score = scored, NEW order \in Orders(score)
  PROVE  /\ Cardinality(scored) \in Nat
         /\ order \in [1..Cardinality(scored) -> scored]
         /\ \A i, j \in 1..Cardinality(scored) : i # j => order[i] # order[j]
<1>1. Cardinality(scored) \in Nat  BY FiniteSymbols
<1>2. order \in [1..Cardinality(scored) -> scored]  BY DEF Orders
<1>3. \A i, j \in 1..Cardinality(scored) : i < j => order[i] # order[j]  BY <1>2 DEF Orders
<1>4. ASSUME NEW i \in 1..Cardinality(scored), NEW j \in 1..Cardinality(scored), i # j
      PROVE  order[i] # order[j]
  <2>1. i < j \/ j < i  BY <1>1, <1>4
  <2> QED  BY <1>3, <2>1
<1> QED  BY <1>1, <1>2, <1>4

\* One contest either leaves the list alone, or takes s in for at most one member.
LEMMA OneSwap ==
  ASSUME NEW list \in SUBSET Symbols, NEW inc \in SUBSET list, NEW R \in SUBSET Symbols,
         NEW s \in Symbols \ list, s \notin R, NEW w, NEW wait \in [Symbols -> Nat],
         wait[s] + 1 >= Persistence
  PROVE  LET S == (R \ {w}) \cup {s}
         IN  Cardinality(inc \ S) + Cardinality(Earned(R, list, wait))
               <= Cardinality(inc \ R) + Cardinality(Earned(S, list, wait))
<1> DEFINE S == (R \ {w}) \cup {s}
           E == Earned(R, list, wait)
           D == Earned(S, list, wait)
<1> SUFFICES Cardinality(inc \ S) + Cardinality(E) <= Cardinality(inc \ R) + Cardinality(D)
  OBVIOUS
<1>1. S \in SUBSET Symbols /\ E \in SUBSET Symbols /\ D \in SUBSET Symbols
      /\ inc \ R \in SUBSET Symbols /\ inc \ S \in SUBSET Symbols
  BY DEF Earned
<1>2. /\ Cardinality(E) \in Nat /\ Cardinality(D) \in Nat
      /\ Cardinality(inc \ R) \in Nat /\ Cardinality(inc \ S) \in Nat
      /\ IsFiniteSet(E) /\ IsFiniteSet(inc \ R)
  <2> HIDE DEF E, D, S
  <2> QED  BY <1>1, FiniteSymbols
<1>3. s \in D /\ s \notin E  BY DEF Earned
<1>4. CASE w \in inc
  <2>1. D = E \cup {s}  BY <1>3, <1>4 DEF Earned
  <2>2. Cardinality(D) = Cardinality(E) + 1
    <3> HIDE DEF E, D
    <3> QED  BY <2>1, <1>2, <1>3, FS_AddElement
  <2>3. inc \ S \subseteq (inc \ R) \cup {w}  OBVIOUS
  <2>4. Cardinality((inc \ R) \cup {w}) <= Cardinality(inc \ R) + 1
    <3>1. Cardinality((inc \ R) \cup {w}) =
            IF w \in inc \ R THEN Cardinality(inc \ R) ELSE Cardinality(inc \ R) + 1
      BY <1>2, FS_AddElement
    <3> QED  BY <3>1, <1>2
  <2>5. (inc \ R) \cup {w} \in SUBSET Symbols  BY <1>4
  <2>6. Cardinality(inc \ S) <= Cardinality((inc \ R) \cup {w})
    <3> HIDE DEF S
    <3> QED  BY <2>3, <2>5, SubsetSmaller
  <2>7. Cardinality((inc \ R) \cup {w}) \in Nat  BY <2>5, FiniteSymbols
  <2> HIDE DEF E, D, S
  <2> QED  BY <2>2, <2>4, <2>6, <2>7, <1>2
<1>5. CASE w \notin inc
  <2>1. inc \ S = inc \ R  BY <1>5
  <2>2. Cardinality(E) <= Cardinality(D)
    <3>1. (E \ {w}) \cup {s} = D  BY <1>3 DEF Earned
    <3>2. IsFiniteSet(E \ {w}) /\ Cardinality(E \ {w}) >= Cardinality(E) - 1
      <4> HIDE DEF E
      <4>1. IsFiniteSet(E \ {w})
            /\ Cardinality(E \ {w}) = IF w \in E THEN Cardinality(E) - 1 ELSE Cardinality(E)
        BY <1>2, FS_RemoveElement
      <4> QED  BY <4>1, <1>2
    <3>3. s \notin E \ {w}  BY <1>3
    <3>4. Cardinality((E \ {w}) \cup {s}) = Cardinality(E \ {w}) + 1
      <4> HIDE DEF E
      <4> QED  BY <3>2, <3>3, FS_AddElement
    <3>5. Cardinality(E \ {w}) \in Nat
      <4> HIDE DEF E
      <4> QED  BY <3>2, FS_CardinalityType
    <3>6. Cardinality(D) = Cardinality(E \ {w}) + 1  BY <3>1, <3>4
    <3> HIDE DEF E, D
    <3> QED  BY <3>2, <3>5, <3>6, <1>2
  <2> HIDE DEF E, D, S
  <2> QED  BY <2>1, <2>2, <1>2
<1> QED  BY <1>4, <1>5

\* What the update goes by: the list it finds, the scores in their order, the streaks so
\* far and the updates that were waited for.
Ranked(list, score, order, str, wait) ==
  /\ list \in SUBSET Symbols /\ DOMAIN score \in SUBSET Symbols /\ order \in Orders(score)
  /\ str \in Streaks /\ wait \in [Symbols -> Nat] /\ \A s \in Symbols : str[s] <= wait[s]

\* The contests begin with challengers that are outside.
Opens(first, contested, list, score, str) ==
  /\ first \in [retained : SUBSET DOMAIN score, added : SUBSET DOMAIN score, streak : {str}]
  /\ contested \in SUBSET (DOMAIN score \ list) /\ contested \cap first.retained = {}

\* They add challengers and nobody else, keep the streaks below the persistence, one step
\* at a time, and displace a member of inc for an earned one only.
Settles(last, first, contested, inc, list, str, wait) ==
  /\ last.retained \subseteq first.retained \cup contested
  /\ last.added \subseteq first.added \cup contested
  /\ last.streak \in Streaks
  /\ \A s \in Symbols : last.streak[s] <= str[s] + 1
  /\ Cardinality(inc \ last.retained)
       <= Cardinality(inc \ first.retained) + Cardinality(Earned(last.retained, list, wait))

LEMMA ContestsYield ==
  ASSUME NEW list, NEW score, NEW order, NEW str, NEW wait, Ranked(list, score, order, str, wait),
         NEW first, NEW contested, Opens(first, contested, list, score, str),
         NEW inc, inc \in SUBSET list
  PROVE  Settles(Contests(first, contested, score, order), first, contested, inc, list, str, wait)
<1>0. PICK scored, F, A, last :
        /\ list \in SUBSET Symbols /\ scored \in SUBSET Symbols /\ DOMAIN score = scored
        /\ order \in Orders(score) /\ str \in Streaks /\ wait \in [Symbols -> Nat]
        /\ \A s \in Symbols : str[s] <= wait[s]
        /\ F \in SUBSET scored /\ A \in SUBSET scored
        /\ contested \in SUBSET (scored \ list) /\ contested \cap F = {}
        /\ first = [retained |-> F, added |-> A, streak |-> str]
        /\ last = Contests(first, contested, score, order)
  BY DEF Ranked, Opens
<1> USE <1>0
<1> DEFINE N == Cardinality(scored)
           Acc == [retained : SUBSET (F \cup contested), added : SUBSET (A \cup contested),
                   streak : Streaks]
           Ahead(acc, n) == \A i \in (n + 1)..N :
                              order[i] \in contested => /\ acc.streak[order[i]] = str[order[i]]
                                                        /\ order[i] \notin acc.retained
           Slow(acc) == \A s \in Symbols : acc.streak[s] <= str[s] + 1
           Paid(acc) == Cardinality(inc \ acc.retained)
                          <= Cardinality(inc \ F) + Cardinality(Earned(acc.retained, list, wait))
           Good(acc, n) == acc \in Acc /\ Ahead(acc, n) /\ Slow(acc) /\ Paid(acc)
<1>1. /\ N \in Nat /\ order \in [1..N -> scored]
      /\ \A i, j \in 1..N : i # j => order[i] # order[j]
  <2> HIDE DEF Acc, Ahead, Slow, Paid, Good
  <2>1. scored \in SUBSET Symbols /\ DOMAIN score = scored /\ order \in Orders(score)
    OBVIOUS
  <2> QED  BY ONLY <2>1, OrderOf
<1>2. Persistence \in Nat /\ Persistence > 0  BY FocusAssumption
<1>3. /\ \A R \in SUBSET Symbols : Cardinality(inc \ R) \in Nat
      /\ \A R \in SUBSET Symbols : Cardinality(Earned(R, list, wait)) \in Nat
  <2>1. ASSUME NEW R \in SUBSET Symbols
        PROVE  inc \ R \in SUBSET Symbols /\ Earned(R, list, wait) \in SUBSET Symbols
    BY DEF Earned
  <2> QED  BY <2>1, FiniteSymbols
<1>4. Good(first, 0)
  <2>1. first \in Acc  OBVIOUS
  <2>2. Ahead(first, 0)  OBVIOUS
  <2>3. Slow(first)
    <3>1. \A s \in Symbols : str[s] \in 0..(Persistence - 1)  BY DEF Streaks
    <3> QED  BY <3>1, <1>2
  <2>4. Paid(first)
    <3>1. F \in SUBSET Symbols  OBVIOUS
    <3>2. Cardinality(inc \ F) \in Nat /\ Cardinality(Earned(F, list, wait)) \in Nat
      BY <3>1, <1>3
    <3> QED  BY <3>2
  <2> QED  BY <2>1, <2>2, <2>3, <2>4
<1>5. ASSUME NEW n \in 1..N, NEW acc, Good(acc, n - 1)
      PROVE  Good(Contested(acc, n, contested, score, order), n)
  <2> DEFINE s == order[n]
             w == Weakest(acc.retained, order)
             new == Contested(acc, n, contested, score, order)
  <2> SUFFICES Good(new, n)  OBVIOUS
  <2>1. n \in 1..N /\ s \in scored /\ s \in Symbols /\ n \in Nat  BY <1>1
  <2>2. /\ acc \in Acc /\ acc.retained \in SUBSET Symbols
        /\ \A t \in Symbols : acc.streak[t] \in 0..(Persistence - 1)
        /\ \A t \in Symbols : str[t] \in 0..(Persistence - 1)
    BY <1>5 DEF Streaks
  <2>3. \A i \in (n + 1)..N : i \in ((n - 1) + 1)..N /\ i \in 1..N /\ i # n /\ order[i] # s
    BY <1>1, <2>1
  <2>4. Ahead(acc, n)  BY <1>5, <2>3
  <2>5. CASE new = acc  BY <1>5, <2>4, <2>5
  <2>6. CASE s \in contested /\ new = [acc EXCEPT !.streak[s] = 0]
    <3>1. /\ new.retained = acc.retained /\ new.added = acc.added
          /\ new.streak = [acc.streak EXCEPT ![s] = 0]
      BY <2>2, <2>6
    <3>2. new.streak \in Streaks  BY <2>1, <2>2, <3>1, <1>2 DEF Streaks
    <3>3. new \in Acc  BY <2>2, <2>6, <3>2, <3>1
    <3>4. Ahead(new, n)  BY <2>2, <2>3, <2>4, <3>1 DEF Streaks
    <3>5. Slow(new)
      <4>1. ASSUME NEW t \in Symbols PROVE new.streak[t] <= str[t] + 1
        <5>1. new.streak[t] = IF t = s THEN 0 ELSE acc.streak[t]
          BY <3>1, <2>2, <2>1 DEF Streaks
        <5>2. acc.streak[t] <= str[t] + 1  BY <1>5
        <5> QED  BY <5>1, <5>2, <2>2, <1>2
      <4> QED  BY <4>1
    <3>6. Paid(new)  BY <1>5, <3>1
    <3> HIDE DEF new, Ahead, Slow, Paid, Acc
    <3> QED  BY <3>3, <3>4, <3>5, <3>6
  <2>7. CASE /\ s \in contested /\ acc.streak[s] + 1 < Persistence
             /\ new = [acc EXCEPT !.streak[s] = @ + 1]
    <3>1. /\ new.retained = acc.retained /\ new.added = acc.added
          /\ new.streak = [acc.streak EXCEPT ![s] = acc.streak[s] + 1]
      BY <2>2, <2>7
    <3>2. acc.streak[s] = str[s]
      <4>1. n \in ((n - 1) + 1)..N  BY <2>1
      <4> QED  BY <4>1, <1>5, <2>7
    <3>3. acc.streak[s] + 1 \in 0..(Persistence - 1)  BY <2>1, <2>2, <2>7, <1>2
    <3>4. new.streak \in Streaks  BY <2>1, <2>2, <3>1, <3>3 DEF Streaks
    <3>5. new \in Acc  BY <2>2, <2>7, <3>4, <3>1
    <3>6. Ahead(new, n)  BY <2>2, <2>3, <2>4, <3>1 DEF Streaks
    <3>7. Slow(new)
      <4>1. ASSUME NEW t \in Symbols PROVE new.streak[t] <= str[t] + 1
        <5>1. new.streak[t] = IF t = s THEN str[s] + 1 ELSE acc.streak[t]
          BY <3>1, <3>2, <2>2, <2>1 DEF Streaks
        <5>2. acc.streak[t] <= str[t] + 1  BY <1>5
        <5> QED  BY <5>1, <5>2, <2>2, <1>2
      <4> QED  BY <4>1
    <3>8. Paid(new)  BY <1>5, <3>1
    <3> HIDE DEF new, Ahead, Slow, Paid, Acc
    <3> QED  BY <3>5, <3>6, <3>7, <3>8
  <2>8. CASE /\ s \in contested /\ ~(acc.streak[s] + 1 < Persistence)
             /\ new = [retained |-> (acc.retained \ {w}) \cup {s}, added |-> acc.added \cup {s},
                       streak |-> [acc.streak EXCEPT ![s] = 0]]
    <3> DEFINE S == (acc.retained \ {w}) \cup {s}
    <3>1. /\ new.retained = S /\ new.added = acc.added \cup {s}
          /\ new.streak = [acc.streak EXCEPT ![s] = 0]
      BY <2>8
    <3>2. acc.streak[s] = str[s] /\ s \notin acc.retained
      <4>1. n \in ((n - 1) + 1)..N  BY <2>1
      <4> QED  BY <4>1, <1>5, <2>8
    <3>3. wait[s] + 1 >= Persistence
      <4>1. wait[s] \in Nat /\ str[s] <= wait[s]  BY <2>1
      <4> QED  BY <4>1, <2>8, <3>2, <2>1, <2>2, <1>2
    <3>4. new.streak \in Streaks  BY <2>1, <2>2, <3>1, <1>2 DEF Streaks
    <3>5. S \subseteq F \cup contested /\ S \in SUBSET Symbols
      BY <2>2, <2>8
    <3>6. new \in Acc  BY <2>2, <2>8, <3>4, <3>1, <3>5
    <3>7. Ahead(new, n)
      <4>1. ASSUME NEW i \in (n + 1)..N, order[i] \in contested
            PROVE  new.streak[order[i]] = str[order[i]] /\ order[i] \notin new.retained
        <5>1. order[i] # s /\ i \in 1..N  BY <2>3
        <5>2. order[i] \in Symbols  BY <5>1, <1>1
        <5>3. acc.streak[order[i]] = str[order[i]] /\ order[i] \notin acc.retained
          BY <2>4, <4>1
        <5> QED  BY <5>1, <5>2, <5>3, <3>1, <2>2 DEF Streaks
      <4> QED  BY <4>1
    <3>8. Slow(new)
      <4>1. ASSUME NEW t \in Symbols PROVE new.streak[t] <= str[t] + 1
        <5>1. new.streak[t] = IF t = s THEN 0 ELSE acc.streak[t]
          BY <3>1, <2>2, <2>1 DEF Streaks
        <5>2. acc.streak[t] <= str[t] + 1  BY <1>5
        <5> QED  BY <5>1, <5>2, <2>2, <1>2
      <4> QED  BY <4>1
    <3>9. Paid(new)
      <4>1. s \in Symbols \ list  BY <2>1, <2>8
      <4>2. Cardinality(inc \ S) + Cardinality(Earned(acc.retained, list, wait))
              <= Cardinality(inc \ acc.retained) + Cardinality(Earned(S, list, wait))
        BY <4>1, <3>2, <3>3, <2>2, OneSwap
      <4>3. Cardinality(inc \ acc.retained)
              <= Cardinality(inc \ F) + Cardinality(Earned(acc.retained, list, wait))
        BY <1>5
      <4>4. /\ Cardinality(inc \ S) \in Nat /\ Cardinality(inc \ acc.retained) \in Nat
            /\ Cardinality(inc \ F) \in Nat /\ Cardinality(Earned(S, list, wait)) \in Nat
            /\ Cardinality(Earned(acc.retained, list, wait)) \in Nat
        BY <1>3, <2>2, <3>5
      <4>5. Cardinality(inc \ S) <= Cardinality(inc \ F) + Cardinality(Earned(S, list, wait))
        <5> HIDE DEF S
        <5> QED  BY <4>2, <4>3, <4>4
      <4> QED  BY <4>5, <3>1
    <3> HIDE DEF new, Ahead, Slow, Paid, Acc
    <3> QED  BY <3>6, <3>7, <3>8, <3>9
  <2> QED
    <3>1. \/ new = acc
          \/ s \in contested /\ new = [acc EXCEPT !.streak[s] = 0]
          \/ /\ s \in contested /\ acc.streak[s] + 1 < Persistence
             /\ new = [acc EXCEPT !.streak[s] = @ + 1]
          \/ /\ s \in contested /\ ~(acc.streak[s] + 1 < Persistence)
             /\ new = [retained |-> (acc.retained \ {w}) \cup {s}, added |-> acc.added \cup {s},
                       streak |-> [acc.streak EXCEPT ![s] = 0]]
      BY Zenon DEF Contested, Contest
    <3> HIDE DEF Good
    <3> QED  BY <3>1, <2>5, <2>6, <2>7, <2>8
<1>6. PICK f : Follows(f, N, first, contested, score, order) /\ last = f[N]
  BY <1>1, ContestsFollow
<1>7. \A n \in 0..N : Good(f[n], n)
  <2> HIDE DEF Good
  <2> DEFINE Bad == {n \in 0..N : ~Good(f[n], n)}
  <2>1. SUFFICES ASSUME Bad # {} PROVE FALSE  OBVIOUS
  <2>2. PICK n \in Bad : \A m \in Bad : n <= m
    <3>1. Bad \subseteq Nat  BY <1>1
    <3> HIDE DEF Bad
    <3> QED  BY <2>1, <3>1, LeastOf, Zenon
  <2>3. n # 0  BY <1>4, <1>6, <2>2 DEF Follows
  <2>4. n \in 1..N /\ n - 1 \in 0..N /\ n - 1 \notin Bad  BY <1>1, <2>2, <2>3
  <2>5. Good(f[n - 1], n - 1)  BY <2>4
  <2>6. f[n] = Contested(f[n - 1], n, contested, score, order)  BY <2>4, <1>6 DEF Follows
  <2>7. Good(f[n], n)  BY <2>4, <2>5, <2>6, <1>5
  <2> QED  BY <2>2, <2>7
<1>8. Good(last, N)
  <2> HIDE DEF Good
  <2> QED  BY <1>1, <1>6, <1>7
<1>9. /\ last.retained \subseteq F \cup contested /\ last.added \subseteq A \cup contested
      /\ last.streak \in Streaks /\ Slow(last) /\ Paid(last)
  <2> HIDE DEF Slow, Paid
  <2> QED  BY <1>8
<1> QED  BY <1>9 DEF Settles

-----------------------------------------------------------------------------
(* The first n of a set. *)

LEMMA OrderIsOnto ==
  ASSUME NEW scored \in SUBSET Symbols, NEW score, DOMAIN score = scored, NEW order \in Orders(score),
         NEW s \in scored
  PROVE  \E i \in 1..Cardinality(scored) : order[i] = s
<1> DEFINE N == Cardinality(scored)
<1>1. N \in Nat /\ order \in [1..N -> scored] /\ \A i, j \in 1..N : i # j => order[i] # order[j]
  <2>1. scored \in SUBSET Symbols /\ DOMAIN score = scored /\ order \in Orders(score)
    OBVIOUS
  <2> QED  BY ONLY <2>1, OrderOf
<1>2. IsFiniteSet(1..N) /\ Cardinality(1..N) = N
  <2> HIDE DEF N
  <2>1. IsFiniteSet(1..N) /\ Cardinality(1..N) = IF 1 > N THEN 0 ELSE N - 1 + 1
    BY <1>1, FS_Interval
  <2> QED  BY <2>1, <1>1
<1>3. order \in Injection(1..N, scored)
  BY <1>1 DEF Injection, IsInjective
<1>4. IsFiniteSet(scored)  BY FiniteSymbols
<1>5. order \in Surjection(1..N, scored)
  <2>1. Cardinality(1..N) = Cardinality(scored) <=> order \in Surjection(1..N, scored)
    BY <1>3, <1>4, FS_Injection
  <2> QED  BY <2>1, <1>2
<1> QED  BY <1>5 DEF Surjection

\* Best(R, n, order) leaves out of R no more than what exceeds n.
LEMMA BestCounts ==
  ASSUME NEW scored \in SUBSET Symbols, NEW score, DOMAIN score = scored, NEW order \in Orders(score),
         NEW R \in SUBSET scored, NEW n \in Nat
  PROVE  /\ Best(R, n, order) \in SUBSET R
         /\ Cardinality(R \ Best(R, n, order))
              <= IF Cardinality(R) > n THEN Cardinality(R) - n ELSE 0
<1> DEFINE N == Cardinality(scored)
           B == Best(R, n, order)
           upto(i) == {j \in 1..i : order[j] \in R}
<1> SUFFICES /\ B \in SUBSET R
             /\ Cardinality(R \ B) <= IF Cardinality(R) > n THEN Cardinality(R) - n ELSE 0
  OBVIOUS
<1>1. N \in Nat /\ order \in [1..N -> scored] /\ \A i, j \in 1..N : i # j => order[i] # order[j]
  <2>1. scored \in SUBSET Symbols /\ DOMAIN score = scored /\ order \in Orders(score)
    OBVIOUS
  <2> QED  BY ONLY <2>1, OrderOf
<1>2. B = {order[i] : i \in {i \in 1..N : order[i] \in R /\ Cardinality(upto(i)) <= n}}
  BY <1>1 DEF Best
<1>3. B \subseteq R  BY <1>2
<1>4. /\ IsFiniteSet(R) /\ Cardinality(R) \in Nat
      /\ Cardinality(R \ B) \in Nat
  <2>1. R \in SUBSET Symbols /\ R \ B \in SUBSET Symbols  OBVIOUS
  <2> HIDE DEF B
  <2> QED  BY <2>1, FiniteSymbols
<1>5. ASSUME NEW i \in Nat
      PROVE  IsFiniteSet(upto(i)) /\ Cardinality(upto(i)) \in Nat
  <2>1. IsFiniteSet(1..i)  BY FS_Interval
  <2>2. upto(i) \in SUBSET (1..i)  OBVIOUS
  <2> HIDE DEF upto
  <2> QED  BY <2>1, <2>2, FS_Subset, FS_CardinalityType
<1>6. CASE R \ B = {}
  <2>1. Cardinality(R \ B) = 0  BY <1>6, FS_EmptySet
  <2> HIDE DEF B
  <2> QED  BY <2>1, <1>3, <1>4
<1>7. CASE R \ B # {}
  <2> DEFINE Far == {i \in 0..N : Cardinality(upto(i)) >= n}
  <2>1. PICK r : r \in R /\ r \notin B  BY <1>7
  <2>2. PICK k \in 1..N : order[k] = r
    <3>1. scored \in SUBSET Symbols /\ DOMAIN score = scored /\ order \in Orders(score) /\ r \in scored
      BY <2>1
    <3> QED  BY ONLY <3>1, OrderIsOnto
  <2>3. ~(Cardinality(upto(k)) <= n)
    <3> HIDE DEF upto
    <3> QED  BY <1>2, <2>1, <2>2
  <2>4. k \in Far
    <3>1. k \in Nat /\ k \in 0..N  BY <1>1
    <3>2. Cardinality(upto(k)) \in Nat  BY <3>1, <1>5
    <3> HIDE DEF upto
    <3> QED  BY <2>3, <3>1, <3>2
  <2>5. PICK i \in Far : \A m \in Far : i <= m
    <3>1. Far \subseteq 0..N  OBVIOUS
    <3>2. 0..N \subseteq Nat  BY <1>1
    <3>3. Far \subseteq Nat /\ Far # {}
      <4> HIDE DEF Far
      <4> QED  BY <3>1, <3>2, <2>4
    <3> HIDE DEF Far
    <3> QED  BY <3>3, LeastOf, Zenon
  <2>6. i \in Nat /\ i <= N /\ Cardinality(upto(i)) \in Nat /\ Cardinality(upto(i)) >= n
    <3>1. i \in Nat /\ i <= N  BY <1>1
    <3> QED  BY <3>1, <1>5
  <2>7. Cardinality(upto(i)) = n
    <3>1. CASE i = 0
      <4>1. upto(i) = {}  BY <3>1
      <4>2. Cardinality(upto(i)) = 0
        <5> HIDE DEF upto
        <5> QED  BY <4>1, FS_EmptySet
      <4> HIDE DEF upto
      <4> QED  BY <4>2, <2>6
    <3>2. CASE i # 0
      <4>1. i - 1 \in Nat /\ i - 1 \in 0..N /\ ~(i <= i - 1)  BY <1>1, <2>6, <3>2
      <4>2. i - 1 \notin Far
        <5> HIDE DEF Far
        <5> QED  BY <4>1, <2>5
      <4>3. IsFiniteSet(upto(i - 1)) /\ Cardinality(upto(i - 1)) \in Nat  BY <4>1, <1>5
      <4>4. Cardinality(upto(i - 1)) < n
        <5> HIDE DEF upto
        <5> QED  BY <4>1, <4>2, <4>3
      <4>5. \/ upto(i) = upto(i - 1)
            \/ upto(i) = upto(i - 1) \cup {i}
        <5>1. 1..i = (1..(i - 1)) \cup {i}  BY <2>6, <3>2
        <5> QED  BY <5>1
      <4>6. Cardinality(upto(i)) <= Cardinality(upto(i - 1)) + 1
        <5> HIDE DEF upto
        <5>1. CASE upto(i) = upto(i - 1)  BY <5>1, <4>3
        <5>2. CASE upto(i) = upto(i - 1) \cup {i}
          <6>1. Cardinality(upto(i - 1) \cup {i}) =
                  IF i \in upto(i - 1) THEN Cardinality(upto(i - 1)) ELSE Cardinality(upto(i - 1)) + 1
            BY <4>3, FS_AddElement
          <6> QED  BY <6>1, <5>2, <4>3
        <5> QED  BY <4>5, <5>1, <5>2
      <4> HIDE DEF upto
      <4> QED  BY <2>6, <4>3, <4>4, <4>6
    <3> QED  BY <3>1, <3>2
  <2> DEFINE P == upto(i)
             Q == {order[j] : j \in P}
             g == [j \in P |-> order[j]]
  <2>8. P \subseteq 1..N  BY <1>1, <2>6
  <2>9. Q \subseteq B
    <3>1. ASSUME NEW j \in P PROVE order[j] \in B
      <4>1. j \in 1..N /\ j \in Nat /\ j <= i /\ order[j] \in R  BY <2>6, <2>8
      <4>2. upto(j) \in SUBSET upto(i)  BY <4>1, <2>6
      <4>3. IsFiniteSet(upto(i))  BY <2>6, <1>5
      <4>4. Cardinality(upto(j)) <= Cardinality(upto(i)) /\ Cardinality(upto(j)) \in Nat
        <5>1. Cardinality(upto(j)) \in Nat  BY <4>1, <1>5
        <5> HIDE DEF upto
        <5> QED  BY <5>1, <4>2, <4>3, FS_Subset
      <4>5. Cardinality(upto(j)) <= n
        <5> HIDE DEF upto
        <5> QED  BY <4>4, <2>7
      <4> HIDE DEF upto, B
      <4> QED  BY <1>2, <4>1, <4>5
    <3> HIDE DEF P, B
    <3> QED  BY <3>1
  <2>10. Cardinality(Q) = n /\ IsFiniteSet(Q)
    <3>1. g \in Surjection(P, Q)
      <4> HIDE DEF P
      <4> QED  BY DEF Surjection
    <3>2. \A a, b \in P : a # b => order[a] # order[b]
      <4> HIDE DEF P
      <4> QED  BY <2>8, <1>1
    <3>3. g \in Injection(P, Q)
      <4> HIDE DEF P
      <4> QED  BY <3>2 DEF Injection, IsInjective
    <3>4. IsFiniteSet(P) /\ Cardinality(P) = n  BY <2>6, <2>7, <1>5
    <3> HIDE DEF P, Q, g
    <3>5. IsFiniteSet(Q) /\ (Cardinality(Q) = Cardinality(P) <=> g \in Injection(P, Q))
      BY <3>1, <3>4, FS_Surjection
    <3> QED  BY <3>3, <3>4, <3>5
  <2>11. IsFiniteSet(B) /\ Cardinality(B) \in Nat
    <3>1. B \in SUBSET R  BY <1>3
    <3> HIDE DEF B
    <3> QED  BY <3>1, <1>4, FS_Subset, FS_CardinalityType
  <2>12. n <= Cardinality(B)
    <3> HIDE DEF B, Q
    <3> QED  BY <2>9, <2>10, <2>11, FS_Subset
  <2>13. Cardinality(R \ B) = Cardinality(R) - Cardinality(B)
    <3>1. R \cap B = B  BY <1>3
    <3>2. Cardinality(R \ B) = Cardinality(R) - Cardinality(R \cap B)
      <4> HIDE DEF B
      <4> QED  BY <1>4, FS_Difference
    <3> QED  BY <3>1, <3>2
  <2> HIDE DEF B
  <2> QED  BY <1>3, <1>4, <2>11, <2>12, <2>13
<1> QED  BY <1>6, <1>7

-----------------------------------------------------------------------------
(* The update of the list. *)

Slots(K) == IF Size > Cardinality(K) THEN Size - Cardinality(K) ELSE 0

\* What no list of the size could keep, when prot goes first and takes K of its slots.
Forced(list, prot, K) ==
  IF Cardinality(list \ prot) > Slots(K) THEN Cardinality(list \ prot) - Slots(K) ELSE 0

\* The new list holds what is protected of the old one; members with a score leave it
\* because they must, or for one that has earned it.
Updates(u, list, scored, str, wait, prot) ==
  /\ u.focus \in SUBSET Symbols /\ u.added \in SUBSET Symbols
  /\ prot \cap list \subseteq u.focus
  /\ u.streak \in Streaks
  /\ \A s \in Symbols : u.streak[s] <= IF s \in scored \ u.focus THEN str[s] + 1 ELSE 0
  /\ Cardinality((list \cap scored) \ u.focus)
       <= Forced(list, prot, prot \cap u.focus) + Cardinality(Earned(u.focus, list, wait))

LEMMA UpdateYields ==
  ASSUME NEW list, NEW score, NEW order, NEW str, NEW wait, Ranked(list, score, order, str, wait),
         NEW prot \in SUBSET Symbols
  PROVE  Updates(Update(list, str, score, prot, order), list, DOMAIN score, str, wait, prot)
<1>0. PICK scored :
        /\ list \in SUBSET Symbols /\ scored \in SUBSET Symbols /\ DOMAIN score = scored
        /\ order \in Orders(score) /\ str \in Streaks /\ wait \in [Symbols -> Nat]
        /\ \A s \in Symbols : str[s] <= wait[s]
  BY DEF Ranked
<1> USE <1>0
<1> DEFINE keep        == Kept(list, scored, prot)
           slots       == IF Size > Cardinality(keep) THEN Size - Cardinality(keep) ELSE 0
           incumbents  == (list \cap scored) \ keep
           challengers == scored \ (keep \cup list)
           stay        == Best(incumbents, slots, order)
           free        == slots - Cardinality(stay)
           most        == IF free < MaxPromotions THEN free ELSE MaxPromotions
           fill        == Best(challengers, most, order)
           first       == [retained |-> stay \cup fill, added |-> fill, streak |-> str]
           last        == Contests(first, challengers \ fill, score, order)
           focus1      == keep \cup last.retained
           streak1     == [s \in Symbols |-> IF s \in scored \ focus1 THEN last.streak[s] ELSE 0]
           u           == Update(list, str, score, prot, order)
<1>1. u = [focus |-> focus1, added |-> last.added, streak |-> streak1]
  BY SMTT(60) DEF Update
<1>2. u.focus = focus1 /\ u.added = last.added /\ u.streak = streak1
  <2> HIDE DEF u, focus1, last, streak1
  <2> QED  BY <1>1
<1>3. keep = prot \cap (scored \cup list) /\ keep \in SUBSET Symbols  BY DEF Kept
<1>4. Size \in Nat /\ MaxPromotions \in Nat /\ Persistence \in Nat /\ Persistence > 0
  BY FocusAssumption
<1>5. Cardinality(keep) \in Nat /\ slots \in Nat
  <2> HIDE DEF keep
  <2>1. Cardinality(keep) \in Nat  BY <1>3, FiniteSymbols
  <2> QED  BY <2>1, <1>4
<1>6. /\ incumbents \in SUBSET scored /\ incumbents \in SUBSET list
      /\ challengers \in SUBSET (scored \ list) /\ challengers \in SUBSET scored
  OBVIOUS
<1>7. /\ stay \in SUBSET incumbents
      /\ Cardinality(incumbents \ stay)
           <= IF Cardinality(incumbents) > slots THEN Cardinality(incumbents) - slots ELSE 0
  <2> HIDE DEF incumbents, slots
  <2> QED  BY <1>5, <1>6, BestCounts
<1>8. fill \in SUBSET challengers
  <2>1. ASSUME NEW x \in fill PROVE x \in challengers
    <3> HIDE DEF challengers, most
    <3> QED  BY DEF Best
  <2> HIDE DEF fill, challengers
  <2> QED  BY <2>1
<1>9. /\ last.retained \subseteq (stay \cup fill) \cup (challengers \ fill)
      /\ last.added \subseteq fill \cup (challengers \ fill)
      /\ last.streak \in Streaks
      /\ \A s \in Symbols : last.streak[s] <= str[s] + 1
      /\ Cardinality(incumbents \ last.retained)
           <= Cardinality(incumbents \ (stay \cup fill))
                + Cardinality(Earned(last.retained, list, wait))
  <2>1. Opens(first, challengers \ fill, list, score, str)
    <3>1. /\ stay \cup fill \in SUBSET scored /\ fill \in SUBSET scored
          /\ challengers \ fill \in SUBSET (scored \ list)
          /\ (challengers \ fill) \cap (stay \cup fill) = {}
      <4> HIDE DEF stay, fill
      <4> QED  BY <1>6, <1>7, <1>8
    <3> HIDE DEF stay, fill, challengers
    <3> QED  BY <3>1 DEF Opens
  <2>2. Settles(last, first, challengers \ fill, incumbents, list, str, wait)
    <3>1. Ranked(list, score, order, str, wait) /\ incumbents \in SUBSET list
      BY <1>6
    <3> HIDE DEF first, fill, challengers, incumbents
    <3> QED  BY ONLY <3>1, <2>1, ContestsYield
  <2>3. first.retained = stay \cup fill /\ first.added = fill
    <3> HIDE DEF stay, fill
    <3> QED  OBVIOUS
  <2> HIDE DEF last, first, fill, stay, challengers, incumbents
  <2> QED  BY <2>2, <2>3 DEF Settles
<1>10. last.retained \subseteq scored \ keep /\ last.added \subseteq scored
  <2> HIDE DEF stay, fill, last, keep
  <2> QED  BY <1>7, <1>8, <1>9
<1>11. /\ focus1 \in SUBSET Symbols /\ last.added \in SUBSET Symbols
       /\ prot \cap list \subseteq focus1
       /\ prot \cap focus1 = keep
  <2> HIDE DEF last, keep
  <2> QED  BY <1>3, <1>10
<1>12. streak1 \in Streaks
  <2>1. ASSUME NEW s \in Symbols PROVE streak1[s] \in 0..(Persistence - 1)
    <3>1. last.streak[s] \in 0..(Persistence - 1)
      <4> HIDE DEF last
      <4> QED  BY <1>9 DEF Streaks
    <3> HIDE DEF last, focus1
    <3> QED  BY <3>1, <1>4
  <2>2. streak1 = [s \in Symbols |-> streak1[s]]  OBVIOUS
  <2> HIDE DEF streak1
  <2> QED  BY <2>1, <2>2 DEF Streaks
<1>13. ASSUME NEW s \in Symbols
       PROVE  streak1[s] <= IF s \in scored \ focus1 THEN str[s] + 1 ELSE 0
  <2>1. last.streak[s] <= str[s] + 1
    <3> HIDE DEF last
    <3> QED  BY <1>9
  <2> HIDE DEF last, focus1
  <2> QED  BY <2>1
<1>14. Cardinality((list \cap scored) \ focus1)
         <= Forced(list, prot, keep) + Cardinality(Earned(focus1, list, wait))
  <2>1. (list \cap scored) \ focus1 = incumbents \ last.retained
    <3> HIDE DEF last, keep
    <3> QED  OBVIOUS
  <2>2. Cardinality(Earned(last.retained, list, wait)) <= Cardinality(Earned(focus1, list, wait))
        /\ Cardinality(Earned(focus1, list, wait)) \in Nat
    <3>1. Earned(focus1, list, wait) \in SUBSET Symbols
          /\ Earned(last.retained, list, wait) \in SUBSET Earned(focus1, list, wait)
      <4> HIDE DEF last, keep
      <4> QED  BY <1>11 DEF Earned
    <3> HIDE DEF last, focus1
    <3> QED  BY <3>1, SubsetSmaller, FiniteSymbols
  <2>3. Cardinality(incumbents \ (stay \cup fill)) <= Cardinality(incumbents \ stay)
        /\ Cardinality(incumbents \ stay) \in Nat
    <3>1. incumbents \ stay \in SUBSET Symbols
          /\ incumbents \ (stay \cup fill) \in SUBSET (incumbents \ stay)
      <4> HIDE DEF stay, fill, keep
      <4> QED  OBVIOUS
    <3> HIDE DEF stay, fill, incumbents
    <3> QED  BY <3>1, SubsetSmaller, FiniteSymbols
  <2>4. Cardinality(incumbents) <= Cardinality(list \ prot)
        /\ Cardinality(list \ prot) \in Nat /\ Cardinality(incumbents) \in Nat
    <3>1. list \ prot \in SUBSET Symbols /\ incumbents \in SUBSET (list \ prot)
          /\ incumbents \in SUBSET Symbols
      BY <1>3
    <3> HIDE DEF incumbents
    <3> QED  BY <3>1, SubsetSmaller, FiniteSymbols
  <2>5. Cardinality(incumbents \ stay) <= Forced(list, prot, keep)
        /\ Forced(list, prot, keep) \in Nat
    <3> HIDE DEF stay, incumbents, keep
    <3> QED  BY <1>5, <1>7, <2>3, <2>4 DEF Forced, Slots
  <2>6. /\ Cardinality(incumbents \ last.retained) \in Nat
        /\ Cardinality(incumbents \ (stay \cup fill)) \in Nat
        /\ Cardinality(Earned(last.retained, list, wait)) \in Nat
    <3>1. /\ incumbents \ last.retained \in SUBSET Symbols
          /\ incumbents \ (stay \cup fill) \in SUBSET Symbols
          /\ Earned(last.retained, list, wait) \in SUBSET Symbols
      <4>1. incumbents \in SUBSET Symbols  OBVIOUS
      <4> HIDE DEF stay, fill, last, incumbents
      <4> QED  BY <1>10, <4>1 DEF Earned
    <3> HIDE DEF stay, fill, last, incumbents
    <3> QED  BY <3>1, FiniteSymbols
  <2>7. Cardinality((list \cap scored) \ focus1) = Cardinality(incumbents \ last.retained)
    BY <2>1
  <2>8. Cardinality(incumbents \ last.retained)
          <= Cardinality(incumbents \ (stay \cup fill))
               + Cardinality(Earned(last.retained, list, wait))
    BY <1>9
  <2> HIDE DEF stay, fill, last, incumbents, focus1, keep
  <2> QED  BY ONLY <2>2, <2>3, <2>5, <2>6, <2>7, <2>8
<1>15. Updates(u, list, scored, str, wait, prot)
  <2> HIDE DEF u, focus1, streak1, last, keep
  <2> QED  BY <1>2, <1>11, <1>12, <1>13, <1>14 DEF Updates
<1> QED  BY <1>15

-----------------------------------------------------------------------------
(* The invariants. *)

\* What a coroutine may be doing, and what it has in hand there.
CyclePcs == {"idle", "next", "quote", "bars", "load", "drop", "dropquote", "dropbars"}
HookPcs  == {"idle", "reconcile", "next", "quote", "bars"}

TasksSound ==
  /\ task["cycle"].pc \in CyclePcs /\ task["hook"].pc \in HookPcs
  /\ task["hook"].pc # "idle" => ~ready
  /\ ~premarket_done => task["cycle"].pc = "idle"
  /\ task["cycle"].pc = "idle" => task["cycle"].drop = {}
  /\ \A t \in Tasks :
       /\ task[t].pc \in {"idle", "reconcile", "next", "load", "drop"} => task[t].sym = {}
       /\ task[t].sub \subseteq task[t].sym
       /\ task[t].pc # "dropbars" => task[t].sub = {}

\* What the cycle is about to unsubscribe is not in the list any more, and held only since
\* a late approval.
DropClear == Leaving \cap (current \cup (held \ task["cycle"].late)) = {}

\* The streams of this session were asked for in this session.
Fresh ==
  /\ connected /\ refreshed /\ task["hook"].pc # "reconcile"
  /\ ready \/ task["hook"].pc # "idle"

StreamsSound ==
  Fresh =>
    /\ tickers \subseteq quotes /\ bar_subs \subseteq bars
    /\ \A t \in Tasks :
         /\ task[t].pc \in {"quote", "bars"} => task[t].sym \subseteq reserved
         /\ task[t].pc = "bars" => task[t].sym \subseteq tickers
    /\ task["hook"].todo \cap task["hook"].sym = {}
    /\ task["hook"].pc # "idle" =>
         /\ Leaving \cap subscribed \cap (task["hook"].todo \cup task["hook"].sym) = {}
         /\ task["cycle"].pc \in {"next", "quote", "bars"} => task["cycle"].drop = {}
    /\ task["cycle"].pc \in {"dropquote", "dropbars"} => task["cycle"].sym \subseteq subscribed
    /\ \A s \in subscribed :
         s \in reserved /\ (\/ s \in tickers \cap bar_subs
                            \/ task["cycle"].pc = "dropbars" /\ s \in task["cycle"].sym)

\* A streak counts updates a symbol has waited for with data.
StreakIsWaited == \A s \in Symbols : streak[s] <= waited[s] /\ streak[s] < Persistence

DataInv == TypeOK /\ TasksSound /\ DropClear /\ StreamsSound /\ StreakIsWaited

LEMMA Start == Init => DataInv
<1> SUFFICES ASSUME Init PROVE DataInv  OBVIOUS
<1>1. Persistence \in Nat /\ Persistence > 0 /\ Capacity \in Nat
  BY FocusAssumption, DataAssumption
<1>2. TypeOK
  <2>1. Cardinality(reserved) = 0  BY FS_EmptySet DEF Init
  <2>2. streak \in [Symbols -> 0..Persistence] /\ waited \in [Symbols -> 0..Persistence]
    BY <1>1 DEF Init, NoStreak
  <2>3. task \in [Tasks -> [pc : {"idle", "reconcile", "next", "quote", "bars", "load", "drop",
                                "dropquote", "dropbars"},
                          todo : SUBSET Symbols, drop : SUBSET Symbols, sym : SUBSET Symbols,
                          sub : SUBSET Symbols, late : SUBSET Symbols]]
    BY DEF Init, Tasks, Idle
  <2>4. {connected, ready, refreshed, premarket_done} \subseteq BOOLEAN  BY DEF Init
  <2>5. {current, held, subscribed, reserved, tickers, bar_subs, quotes, bars} \subseteq SUBSET Symbols
    BY DEF Init
  <2> QED  BY <1>1, <2>1, <2>2, <2>3, <2>4, <2>5 DEF TypeOK
<1>3. TasksSound  BY DEF Init, TasksSound, Tasks, Idle, CyclePcs, HookPcs
<1>4. DropClear  BY DEF Init, DropClear, Leaving, Tasks, Idle
<1>5. StreamsSound  BY DEF Init, StreamsSound, Tasks, Idle
<1>6. StreakIsWaited  BY <1>1 DEF Init, StreakIsWaited, NoStreak
<1> QED  BY <1>2, <1>3, <1>4, <1>5, <1>6 DEF DataInv

\* What update_focus does, for the list of that cycle.
Refocused(scored, added) ==
  /\ current' \in SUBSET Symbols
  /\ held \cap current \subseteq current'
  /\ streak' \in Streaks
  /\ \A s \in Symbols : streak'[s] <= IF s \in scored \ current' THEN streak[s] + 1 ELSE 0
  /\ Cardinality((current \cap scored) \ current')
       <= Forced(current, held, held \cap current') + Cardinality(Earned(current', current, waited))
  /\ waited' = Waits(scored)
  /\ task' = [task EXCEPT !["cycle"] =
                [Idle EXCEPT !.pc = IF added = {} THEN "drop" ELSE "next",
                             !.todo = added, !.drop = current \ current']]

LEMMA FocusMoves ==
  ASSUME TypeOK, StreakIsWaited, update_focus
  PROVE  \E scored, added \in SUBSET Symbols : Refocused(scored, added)
<1> DEFINE Moved(scored, score, order) ==
             LET u == Update(current, streak, score, held, order)
             IN  /\ current' = u.focus
                 /\ streak' = u.streak
                 /\ waited' = Waits(scored)
                 /\ task' = [task EXCEPT !["cycle"] =
                               [Idle EXCEPT !.pc = IF u.added = {} THEN "drop" ELSE "next",
                                            !.todo = u.added, !.drop = current \ u.focus]]
<1>1. PICK scored \in SUBSET Symbols :
        \E score \in [scored -> Scores] : \E order \in Orders(score) : Moved(scored, score, order)
  BY DEF update_focus
<1>2. PICK score, order :
        score \in [scored -> Scores] /\ order \in Orders(score) /\ Moved(scored, score, order)
  <2> HIDE DEF Moved
  <2> QED  BY <1>1, Zenon
<1> DEFINE u == Update(current, streak, score, held, order)
<1>3. Ranked(current, score, order, streak, waited)
  <2>1. streak \in Streaks
    <3>1. Persistence \in Nat  BY FocusAssumption
    <3> QED  BY <3>1 DEF TypeOK, StreakIsWaited, Streaks
  <2>2. waited \in [Symbols -> Nat]  BY DEF TypeOK
  <2>3. DOMAIN score = scored /\ current \in SUBSET Symbols  BY <1>2 DEF TypeOK
  <2> QED  BY <1>2, <2>1, <2>2, <2>3 DEF Ranked, StreakIsWaited
<1>4. held \in SUBSET Symbols  BY DEF TypeOK
<1>5. Updates(u, current, scored, streak, waited, held)
  <2>1. DOMAIN score = scored  BY <1>2
  <2>2. Updates(u, current, DOMAIN score, streak, waited, held)
    BY ONLY <1>3, <1>4, UpdateYields
  <2> HIDE DEF u
  <2> QED  BY <2>1, <2>2
<1>6. u.added \in SUBSET Symbols
  <2> HIDE DEF u
  <2> QED  BY <1>5 DEF Updates
<1>7. /\ current' = u.focus /\ streak' = u.streak /\ waited' = Waits(scored)
      /\ task' = [task EXCEPT !["cycle"] =
                   [Idle EXCEPT !.pc = IF u.added = {} THEN "drop" ELSE "next",
                                !.todo = u.added, !.drop = current \ u.focus]]
  BY <1>2, Zenon
<1>8. Refocused(scored, u.added)
  <2> HIDE DEF u
  <2> QED  BY <1>5, <1>7 DEF Updates, Refocused
<1> QED  BY <1>2, <1>6, <1>8, Zenon

-----------------------------------------------------------------------------
(* Types. *)

TaskRecord ==
  [pc : {"idle", "reconcile", "next", "quote", "bars", "load", "drop", "dropquote", "dropbars"},
   todo : SUBSET Symbols, drop : SUBSET Symbols, sym : SUBSET Symbols, sub : SUBSET Symbols,
   late : SUBSET Symbols]

LEMMA FewerLines ==
  ASSUME TypeOK, NEW S
  PROVE  Cardinality(reserved \ S) <= Capacity
<1>1. reserved \in SUBSET Symbols /\ reserved \ S \in SUBSET reserved /\ reserved \ S \in SUBSET Symbols
      /\ Cardinality(reserved) <= Capacity
  BY DEF TypeOK
<1> QED  BY <1>1, SubsetSmaller, FiniteSymbols, DataAssumption

LEMMA OneLineMore ==
  ASSUME TypeOK, NEW s \in Symbols, Reserve(s)
  PROVE  Cardinality(reserved') <= Capacity
<1>1. reserved \in SUBSET Symbols /\ Cardinality(reserved) <= Capacity  BY DEF TypeOK
<1>2. IsFiniteSet(reserved) /\ Cardinality(reserved) \in Nat  BY <1>1, FiniteSymbols
<1>3. Cardinality(reserved \cup {s}) =
        IF s \in reserved THEN Cardinality(reserved) ELSE Cardinality(reserved) + 1
  BY <1>2, FS_AddElement
<1> QED  BY <1>1, <1>2, <1>3, DataAssumption DEF Reserve

LEMMA TypeNext ==
  ASSUME TypeOK, StreakIsWaited, [Next]_vars
  PROVE  TypeOK'
<1>1. task \in [Tasks -> TaskRecord]  BY DEF TypeOK, TaskRecord
<1> DEFINE Flags == {connected, ready, refreshed, premarket_done} \subseteq BOOLEAN
           Sets == /\ current \in SUBSET Symbols /\ held \in SUBSET Symbols
                   /\ subscribed \in SUBSET Symbols /\ reserved \in SUBSET Symbols
                   /\ tickers \in SUBSET Symbols /\ bar_subs \in SUBSET Symbols
                   /\ quotes \in SUBSET Symbols /\ bars \in SUBSET Symbols
           Counts == streak \in [Symbols -> 0..Persistence] /\ waited \in [Symbols -> 0..Persistence]
           Typed == Flags' /\ Sets' /\ Counts' /\ task' \in [Tasks -> TaskRecord]
                      /\ Cardinality(reserved') <= Capacity
<1>2. Sets  BY DEF TypeOK
<1> SUFFICES Typed  BY DEF TypeOK, TaskRecord
<1>3. ASSUME Disconnect PROVE Typed
  <2>1. Flags' /\ Counts'  BY <1>3 DEF TypeOK, Disconnect, focus
  <2>2. Sets'  BY <1>2, <1>3 DEF Disconnect, focus, service, streams
  <2>3. task' \in [Tasks -> TaskRecord]
    BY <1>1, <1>2, <1>3 DEF Disconnect, Tasks, TaskRecord
  <2>4. Cardinality(reserved') <= Capacity  BY <1>3 DEF TypeOK, Disconnect, service
  <2> QED  BY <2>1, <2>2, <2>3, <2>4
<1>4. ASSUME Reconnect PROVE Typed
  BY <1>1, <1>4 DEF TypeOK, Reconnect, focus, service, streams, Tasks, TaskRecord
<1>5. ASSUME NEW s \in Symbols, Enter(s) PROVE Typed
  BY <1>1, <1>5 DEF TypeOK, Enter, focus, service, streams, Tasks, TaskRecord
<1>22. ASSUME NEW s \in Symbols, ApproveProposal(s) PROVE Typed
  BY <1>1, <1>22 DEF TypeOK, ApproveProposal, focus, service, streams, Tasks, TaskRecord
<1>6. ASSUME NEW s \in Symbols, Exit(s) PROVE Typed
  BY <1>1, <1>6 DEF TypeOK, Exit, focus, service, streams, Tasks, TaskRecord
<1>7. ASSUME update_focus PROVE Typed
  <2>1. PICK scored, added \in SUBSET Symbols : Refocused(scored, added)
    BY <1>7, FocusMoves
  <2>2. Persistence \in Nat /\ Persistence > 0  BY FocusAssumption
  <2>3. streak' \in [Symbols -> 0..Persistence]  BY <2>1, <2>2 DEF Refocused, Streaks
  <2>4. waited' \in [Symbols -> 0..Persistence]  BY <2>1, <2>2 DEF Refocused, Waits, TypeOK
  <2>5. task' \in [Tasks -> TaskRecord]
    BY <1>1, <2>1 DEF Refocused, TypeOK, TaskRecord, Tasks, Idle
  <2>6. Sets'  BY <2>1, <1>7 DEF Refocused, TypeOK, update_focus, service, streams
  <2>7. Flags' /\ Cardinality(reserved') <= Capacity
    BY <1>7 DEF TypeOK, update_focus, service
  <2> QED  BY <2>3, <2>4, <2>5, <2>6, <2>7
<1>8. ASSUME SeedFocus PROVE Typed
  <2>1. PICK seed \in SUBSET Symbols :
          /\ current' = seed
          /\ task' = [task EXCEPT !["cycle"] = [Idle EXCEPT !.pc = "next", !.todo = seed]]
    BY <1>8 DEF SeedFocus
  <2>2. task' \in [Tasks -> TaskRecord]  BY <1>1, <2>1 DEF TaskRecord, Tasks, Idle
  <2>3. Sets' /\ Flags' /\ Counts' /\ Cardinality(reserved') <= Capacity
    BY <2>1, <1>8 DEF TypeOK, SeedFocus, service, streams
  <2> QED  BY <2>2, <2>3
<1>9. ASSUME NEW t \in Tasks, NEW s \in Symbols, SubscribeNext(t, s) PROVE Typed
  BY <1>1, <1>9, OneLineMore DEF TypeOK, SubscribeNext, focus, service, streams, Tasks,
       TaskRecord, Reserve
<1>10. ASSUME NEW t \in Tasks, SubscribeFails(t) PROVE Typed
  <2>1. Flags' /\ Counts'  BY <1>10 DEF TypeOK, SubscribeFails, focus
  <2>2. Sets'
    BY <1>1, <1>10 DEF TypeOK, SubscribeFails, focus, service, streams, Tasks, TaskRecord
  <2>3. task' \in [Tasks -> TaskRecord]
    BY <1>1, <1>10 DEF SubscribeFails, Tasks, TaskRecord
  <2>4. Cardinality(reserved') <= Capacity  BY <1>10, FewerLines DEF SubscribeFails
  <2> QED  BY <2>1, <2>2, <2>3, <2>4
<1>11. ASSUME NEW t \in Tasks, subscribe_quote(t) PROVE Typed
  BY <1>1, <1>11 DEF TypeOK, subscribe_quote, focus, service, streams, Tasks, TaskRecord
<1>12. ASSUME NEW t \in Tasks, subscribe_bars(t) PROVE Typed
  <2>1. Flags' /\ Counts'  BY <1>12 DEF TypeOK, subscribe_bars, focus
  <2>2. task[t].sym \in SUBSET Symbols  BY <1>1 DEF TaskRecord
  <2>3. Sets'  BY <1>2, <1>12, <2>2 DEF subscribe_bars, focus
  <2>4. [task[t] EXCEPT !.pc = "next", !.sym = {}] \in TaskRecord  BY <1>1 DEF TaskRecord
  <2>5. task' = [task EXCEPT ![t] = [task[t] EXCEPT !.pc = "next", !.sym = {}]]
    BY <1>1, <1>12 DEF subscribe_bars
  <2>6. task' \in [Tasks -> TaskRecord]  BY <1>1, <2>4, <2>5
  <2>7. Cardinality(reserved') <= Capacity  BY <1>12 DEF TypeOK, subscribe_bars
  <2> QED  BY <2>1, <2>3, <2>6, <2>7
<1>13. ASSUME NEW t \in Tasks, Subscribed(t) PROVE Typed
  BY <1>1, <1>13 DEF TypeOK, Subscribed, focus, service, streams, Tasks, TaskRecord
<1>14. ASSUME load_intraday PROVE Typed
  BY <1>1, <1>14 DEF TypeOK, load_intraday, focus, service, streams, Tasks, TaskRecord
<1>15. ASSUME NEW s \in Symbols, UnsubscribeNext(s) PROVE Typed
  <2>1. Flags' /\ Counts'  BY <1>15 DEF TypeOK, UnsubscribeNext, focus
  <2>2. Sets'  BY <1>2, <1>15 DEF UnsubscribeNext, focus, service, streams
  <2>3. task' \in [Tasks -> TaskRecord]
    <3>1. PICK pc \in {"drop", "dropquote"}, sym \in SUBSET Symbols :
            task' = [task EXCEPT !["cycle"].drop = @ \ {s}, !["cycle"].pc = pc,
                                 !["cycle"].sym = sym]
      BY <1>15 DEF UnsubscribeNext
    <3> DEFINE new == [task["cycle"] EXCEPT !.drop = @ \ {s}, !.pc = pc, !.sym = sym]
    <3>2. new \in TaskRecord  BY <1>1 DEF Tasks, TaskRecord
    <3>3. task' = [task EXCEPT !["cycle"] = new]  BY <1>1, <3>1
    <3> HIDE DEF new
    <3> QED  BY <1>1, <3>2, <3>3
  <2>4. Cardinality(reserved') <= Capacity  BY <1>15 DEF TypeOK, UnsubscribeNext, service
  <2> QED  BY <2>1, <2>2, <2>3, <2>4
<1>16. ASSUME unsubscribe_quote PROVE Typed
  <2>1. Flags' /\ Counts'  BY <1>16 DEF TypeOK, unsubscribe_quote, focus
  <2>2. Sets'
    BY <1>1, <1>16 DEF TypeOK, unsubscribe_quote, focus, service, streams, Tasks, TaskRecord
  <2>3. task' \in [Tasks -> TaskRecord]
    BY <1>1, <1>16 DEF unsubscribe_quote, Tasks, TaskRecord
  <2>4. Cardinality(reserved') <= Capacity  BY <1>16 DEF TypeOK, unsubscribe_quote
  <2> QED  BY <2>1, <2>2, <2>3, <2>4
<1>17. ASSUME unsubscribe_bars PROVE Typed
  <2>1. Flags' /\ Counts'  BY <1>17 DEF TypeOK, unsubscribe_bars, focus
  <2>2. Sets'
    BY <1>1, <1>17 DEF TypeOK, unsubscribe_bars, focus, service, streams, Tasks, TaskRecord
  <2>3. task' \in [Tasks -> TaskRecord]
    <3> DEFINE new == [task["cycle"] EXCEPT !.pc = "drop", !.sym = {}, !.sub = {}]
    <3>1. new \in TaskRecord  BY <1>1 DEF Tasks, TaskRecord
    <3>2. task' = [task EXCEPT !["cycle"] = new]  BY <1>1, <1>17 DEF unsubscribe_bars
    <3> HIDE DEF new
    <3> QED  BY <1>1, <3>1, <3>2
  <2>4. Cardinality(reserved') <= Capacity  BY <1>17, FewerLines DEF unsubscribe_bars
  <2> QED  BY <2>1, <2>2, <2>3, <2>4
<1>18. ASSUME FocusUpdated PROVE Typed
  BY <1>1, <1>18 DEF TypeOK, FocusUpdated, focus, service, streams, Tasks, TaskRecord, Idle
<1>19. ASSUME resubscribe PROVE Typed
  <2>1. Flags' /\ Counts'  BY <1>19 DEF TypeOK, resubscribe, focus
  <2>2. Sets'
    BY <1>2, <1>19 DEF resubscribe, focus, service, streams, clear_subscription_cache
  <2>3. task' \in [Tasks -> TaskRecord]
    BY <1>1, <1>2, <1>19 DEF resubscribe, Tasks, TaskRecord, Idle, clear_subscription_cache
  <2>4. Cardinality(reserved') <= Capacity  BY <1>19 DEF TypeOK, resubscribe
  <2> QED  BY <2>1, <2>2, <2>3, <2>4
<1>20. ASSUME HookFails PROVE Typed
  BY <1>1, <1>20 DEF TypeOK, HookFails, focus, service, streams, Tasks, TaskRecord, Idle
<1>21. ASSUME UNCHANGED vars PROVE Typed
  BY <1>1, <1>21 DEF TypeOK, vars, focus, service, streams, Tasks, TaskRecord
<1> QED  BY <1>3, <1>4, <1>5, <1>6, <1>7, <1>8, <1>9, <1>10, <1>11, <1>12, <1>13,
          <1>14, <1>15, <1>16, <1>17, <1>18, <1>19, <1>20, <1>21, <1>22 DEF Next

-----------------------------------------------------------------------------
(* What the coroutines have in hand. *)

LEMMA TasksNext ==
  ASSUME TypeOK, StreakIsWaited, TasksSound, [Next]_vars
  PROVE  TasksSound'
<1>1. task \in [Tasks -> TaskRecord]  BY DEF TypeOK, TaskRecord
<1>2. {ready, premarket_done} \subseteq BOOLEAN  BY DEF TypeOK
<1>3. ASSUME Disconnect PROVE TasksSound'
  BY <1>1, <1>2, <1>3 DEF TasksSound, CyclePcs, HookPcs, Disconnect, focus, Tasks,
       TaskRecord
<1>4. ASSUME Reconnect PROVE TasksSound'
  BY <1>1, <1>2, <1>4 DEF TasksSound, CyclePcs, HookPcs, Reconnect, focus, Tasks, TaskRecord
<1>5. ASSUME NEW s \in Symbols, Enter(s) PROVE TasksSound'
  BY <1>1, <1>2, <1>5 DEF TasksSound, CyclePcs, HookPcs, Enter, focus, Tasks, TaskRecord
<1>22. ASSUME NEW s \in Symbols, ApproveProposal(s) PROVE TasksSound'
  BY <1>1, <1>2, <1>22 DEF TasksSound, CyclePcs, HookPcs, ApproveProposal, focus, Tasks, TaskRecord
<1>6. ASSUME NEW s \in Symbols, Exit(s) PROVE TasksSound'
  BY <1>1, <1>2, <1>6 DEF TasksSound, CyclePcs, HookPcs, Exit, focus, Tasks, TaskRecord
<1>7. ASSUME update_focus PROVE TasksSound'
  <2>1. PICK scored, added \in SUBSET Symbols : Refocused(scored, added)
    BY <1>7, FocusMoves
  <2>2. PICK pc \in {"drop", "next"} :
          task' = [task EXCEPT !["cycle"] =
                     [Idle EXCEPT !.pc = pc, !.todo = added, !.drop = current \ current']]
    BY <2>1 DEF Refocused
  <2>3. ready' = ready /\ premarket_done' = premarket_done /\ premarket_done
    BY <1>7 DEF update_focus
  <2> QED  BY <1>1, <2>2, <2>3 DEF TasksSound, CyclePcs, HookPcs, Tasks, TaskRecord, Idle
<1>8. ASSUME SeedFocus PROVE TasksSound'
  <2>1. PICK seed \in SUBSET Symbols :
          task' = [task EXCEPT !["cycle"] = [Idle EXCEPT !.pc = "next", !.todo = seed]]
    BY <1>8 DEF SeedFocus
  <2>2. ready' = ready /\ premarket_done' = TRUE  BY <1>8 DEF SeedFocus
  <2> QED  BY <1>1, <2>1, <2>2 DEF TasksSound, CyclePcs, HookPcs, Tasks, TaskRecord, Idle
<1>9. ASSUME NEW t \in Tasks, NEW s \in Symbols, SubscribeNext(t, s) PROVE TasksSound'
  BY <1>1, <1>2, <1>9 DEF TasksSound, CyclePcs, HookPcs, SubscribeNext, focus, Tasks,
       TaskRecord
<1>10. ASSUME NEW t \in Tasks, SubscribeFails(t) PROVE TasksSound'
  BY <1>1, <1>2, <1>10 DEF TasksSound, CyclePcs, HookPcs, SubscribeFails, focus, Tasks,
       TaskRecord
<1>11. ASSUME NEW t \in Tasks, subscribe_quote(t) PROVE TasksSound'
  BY <1>1, <1>2, <1>11 DEF TasksSound, CyclePcs, HookPcs, subscribe_quote, focus, Tasks,
       TaskRecord
<1>12. ASSUME NEW t \in Tasks, subscribe_bars(t) PROVE TasksSound'
  BY <1>1, <1>2, <1>12 DEF TasksSound, CyclePcs, HookPcs, subscribe_bars, focus, Tasks,
       TaskRecord
<1>13. ASSUME NEW t \in Tasks, Subscribed(t) PROVE TasksSound'
  BY <1>1, <1>2, <1>13 DEF TasksSound, CyclePcs, HookPcs, Subscribed, focus, Tasks,
       TaskRecord
<1>14. ASSUME load_intraday PROVE TasksSound'
  BY <1>1, <1>2, <1>14 DEF TasksSound, CyclePcs, HookPcs, load_intraday, focus, Tasks,
       TaskRecord
<1>15. ASSUME NEW s \in Symbols, UnsubscribeNext(s) PROVE TasksSound'
  BY <1>1, <1>2, <1>15 DEF TasksSound, CyclePcs, HookPcs, UnsubscribeNext, focus, Tasks,
       TaskRecord
<1>16. ASSUME unsubscribe_quote PROVE TasksSound'
  BY <1>1, <1>2, <1>16 DEF TasksSound, CyclePcs, HookPcs, unsubscribe_quote, focus, Tasks,
       TaskRecord
<1>17. ASSUME unsubscribe_bars PROVE TasksSound'
  BY <1>1, <1>2, <1>17 DEF TasksSound, CyclePcs, HookPcs, unsubscribe_bars, focus, Tasks,
       TaskRecord
<1>18. ASSUME FocusUpdated PROVE TasksSound'
  BY <1>1, <1>2, <1>18 DEF TasksSound, CyclePcs, HookPcs, FocusUpdated, focus, Tasks,
       TaskRecord, Idle
<1>19. ASSUME resubscribe PROVE TasksSound'
  BY <1>1, <1>2, <1>19 DEF TasksSound, CyclePcs, HookPcs, resubscribe, focus, Tasks,
       TaskRecord, Idle
<1>20. ASSUME HookFails PROVE TasksSound'
  BY <1>1, <1>2, <1>20 DEF TasksSound, CyclePcs, HookPcs, HookFails, focus, Tasks,
       TaskRecord, Idle
<1>21. ASSUME UNCHANGED vars PROVE TasksSound'
  BY <1>21 DEF TasksSound, vars, focus
<1> QED  BY <1>3, <1>4, <1>5, <1>6, <1>7, <1>8, <1>9, <1>10, <1>11, <1>12, <1>13,
          <1>14, <1>15, <1>16, <1>17, <1>18, <1>19, <1>20, <1>21, <1>22 DEF Next

LEMMA StreakNext ==
  ASSUME TypeOK, StreakIsWaited, [Next]_vars
  PROVE  StreakIsWaited'
<1>1. ASSUME Disconnect PROVE StreakIsWaited'
  BY <1>1 DEF StreakIsWaited, Disconnect, focus
<1>2. ASSUME Reconnect PROVE StreakIsWaited'
  BY <1>2 DEF StreakIsWaited, Reconnect, focus
<1>3. ASSUME NEW s \in Symbols, Enter(s) PROVE StreakIsWaited'
  BY <1>3 DEF StreakIsWaited, Enter, focus
<1>20. ASSUME NEW s \in Symbols, ApproveProposal(s) PROVE StreakIsWaited'
  BY <1>20 DEF StreakIsWaited, ApproveProposal, focus
<1>4. ASSUME NEW s \in Symbols, Exit(s) PROVE StreakIsWaited'
  BY <1>4 DEF StreakIsWaited, Exit, focus
<1>5. ASSUME update_focus PROVE StreakIsWaited'
  <2>1. PICK scored, added \in SUBSET Symbols : Refocused(scored, added)
    BY <1>5, FocusMoves
  <2>2. Persistence \in Nat /\ Persistence > 0  BY FocusAssumption
  <2>3. ASSUME NEW s \in Symbols PROVE streak'[s] <= waited'[s] /\ streak'[s] < Persistence
    <3>1. streak'[s] \in 0..(Persistence - 1)  BY <2>1 DEF Refocused, Streaks
    <3>2. streak[s] \in Nat /\ waited[s] \in Nat /\ streak[s] <= waited[s]
      BY <2>2 DEF TypeOK, StreakIsWaited
    <3>3. streak'[s] <= IF s \in scored \ current' THEN streak[s] + 1 ELSE 0
      BY <2>1 DEF Refocused
    <3>4. waited'[s] = IF s \notin scored \ current' THEN 0
                       ELSE IF waited[s] + 1 < Persistence THEN waited[s] + 1 ELSE waited[s]
      BY <2>1 DEF Refocused, Waits
    <3> QED  BY <2>2, <3>1, <3>2, <3>3, <3>4
  <2> QED  BY <2>3 DEF StreakIsWaited
<1>6. ASSUME SeedFocus PROVE StreakIsWaited'
  BY <1>6 DEF StreakIsWaited, SeedFocus
<1>7. ASSUME NEW t \in Tasks, NEW s \in Symbols, SubscribeNext(t, s) PROVE StreakIsWaited'
  BY <1>7 DEF StreakIsWaited, SubscribeNext, focus
<1>8. ASSUME NEW t \in Tasks, SubscribeFails(t) PROVE StreakIsWaited'
  BY <1>8 DEF StreakIsWaited, SubscribeFails, focus
<1>9. ASSUME NEW t \in Tasks, subscribe_quote(t) PROVE StreakIsWaited'
  BY <1>9 DEF StreakIsWaited, subscribe_quote, focus
<1>10. ASSUME NEW t \in Tasks, subscribe_bars(t) PROVE StreakIsWaited'
  BY <1>10 DEF StreakIsWaited, subscribe_bars, focus
<1>11. ASSUME NEW t \in Tasks, Subscribed(t) PROVE StreakIsWaited'
  BY <1>11 DEF StreakIsWaited, Subscribed, focus
<1>12. ASSUME load_intraday PROVE StreakIsWaited'
  BY <1>12 DEF StreakIsWaited, load_intraday, focus
<1>13. ASSUME NEW s \in Symbols, UnsubscribeNext(s) PROVE StreakIsWaited'
  BY <1>13 DEF StreakIsWaited, UnsubscribeNext, focus
<1>14. ASSUME unsubscribe_quote PROVE StreakIsWaited'
  BY <1>14 DEF StreakIsWaited, unsubscribe_quote, focus
<1>15. ASSUME unsubscribe_bars PROVE StreakIsWaited'
  BY <1>15 DEF StreakIsWaited, unsubscribe_bars, focus
<1>16. ASSUME FocusUpdated PROVE StreakIsWaited'
  BY <1>16 DEF StreakIsWaited, FocusUpdated, focus
<1>17. ASSUME resubscribe PROVE StreakIsWaited'
  BY <1>17 DEF StreakIsWaited, resubscribe, focus
<1>18. ASSUME HookFails PROVE StreakIsWaited'
  BY <1>18 DEF StreakIsWaited, HookFails, focus
<1>19. ASSUME UNCHANGED vars PROVE StreakIsWaited'
  BY <1>19 DEF StreakIsWaited, vars, focus
<1> QED  BY <1>1, <1>2, <1>3, <1>4, <1>5, <1>6, <1>7, <1>8, <1>9, <1>10, <1>11, <1>12,
          <1>13, <1>14, <1>15, <1>16, <1>17, <1>18, <1>19, <1>20 DEF Next

LEMMA DropNext ==
  ASSUME TypeOK, StreakIsWaited, TasksSound, DropClear, [Next]_vars
  PROVE  DropClear'
<1>1. task \in [Tasks -> TaskRecord]  BY DEF TypeOK, TaskRecord
<1>2. task["cycle"].pc = "idle" => Leaving = {}  BY DEF TasksSound, Leaving
<1>3. ASSUME Disconnect PROVE DropClear'
  BY <1>1, <1>2, <1>3 DEF DropClear, Leaving, Disconnect, focus, Tasks, TaskRecord
<1>4. ASSUME Reconnect PROVE DropClear'
  BY <1>1, <1>2, <1>4 DEF DropClear, Leaving, Reconnect, focus, Tasks, TaskRecord
<1>5. ASSUME NEW s \in Symbols, Enter(s) PROVE DropClear'
  BY <1>1, <1>2, <1>5 DEF DropClear, Leaving, Enter, focus, Tasks, TaskRecord
<1>22. ASSUME NEW s \in Symbols, ApproveProposal(s) PROVE DropClear'
  BY <1>1, <1>22 DEF DropClear, Leaving, ApproveProposal, focus, Tasks, TaskRecord
<1>6. ASSUME NEW s \in Symbols, Exit(s) PROVE DropClear'
  BY <1>1, <1>2, <1>6 DEF DropClear, Leaving, Exit, focus, Tasks, TaskRecord
<1>7. ASSUME update_focus PROVE DropClear'
  <2>1. PICK scored, added \in SUBSET Symbols : Refocused(scored, added)
    BY <1>7, FocusMoves
  <2>2. PICK pc \in {"drop", "next"} :
          task' = [task EXCEPT !["cycle"] =
                     [Idle EXCEPT !.pc = pc, !.todo = added, !.drop = current \ current']]
    BY <2>1 DEF Refocused
  <2>3. Leaving' = current \ current'  BY <1>1, <2>2 DEF Leaving, Tasks, TaskRecord, Idle
  <2>4. held' = held /\ held \cap current \subseteq current'
    BY <1>7, <2>1 DEF update_focus, Refocused
  <2> QED  BY <2>3, <2>4 DEF DropClear
<1>8. ASSUME SeedFocus PROVE DropClear'
  <2>1. PICK seed \in SUBSET Symbols :
          task' = [task EXCEPT !["cycle"] = [Idle EXCEPT !.pc = "next", !.todo = seed]]
    BY <1>8 DEF SeedFocus
  <2>2. Leaving' = {}  BY <1>1, <2>1 DEF Leaving, Tasks, TaskRecord, Idle
  <2> QED  BY <2>2 DEF DropClear
<1>9. ASSUME NEW t \in Tasks, NEW s \in Symbols, SubscribeNext(t, s) PROVE DropClear'
  BY <1>1, <1>2, <1>9 DEF DropClear, Leaving, SubscribeNext, focus, Tasks, TaskRecord
<1>10. ASSUME NEW t \in Tasks, SubscribeFails(t) PROVE DropClear'
  BY <1>1, <1>2, <1>10 DEF DropClear, Leaving, SubscribeFails, focus, Tasks, TaskRecord
<1>11. ASSUME NEW t \in Tasks, subscribe_quote(t) PROVE DropClear'
  BY <1>1, <1>2, <1>11 DEF DropClear, Leaving, subscribe_quote, focus, Tasks, TaskRecord
<1>12. ASSUME NEW t \in Tasks, subscribe_bars(t) PROVE DropClear'
  BY <1>1, <1>2, <1>12 DEF DropClear, Leaving, subscribe_bars, focus, Tasks, TaskRecord
<1>13. ASSUME NEW t \in Tasks, Subscribed(t) PROVE DropClear'
  BY <1>1, <1>2, <1>13 DEF DropClear, Leaving, Subscribed, focus, Tasks, TaskRecord
<1>14. ASSUME load_intraday PROVE DropClear'
  BY <1>1, <1>2, <1>14 DEF DropClear, Leaving, load_intraday, focus, Tasks, TaskRecord
<1>15. ASSUME NEW s \in Symbols, UnsubscribeNext(s) PROVE DropClear'
  BY <1>1, <1>2, <1>15 DEF DropClear, Leaving, UnsubscribeNext, focus, Tasks, TaskRecord
<1>16. ASSUME unsubscribe_quote PROVE DropClear'
  BY <1>1, <1>2, <1>16 DEF DropClear, Leaving, unsubscribe_quote, focus, Tasks, TaskRecord
<1>17. ASSUME unsubscribe_bars PROVE DropClear'
  BY <1>1, <1>2, <1>17 DEF DropClear, Leaving, unsubscribe_bars, focus, Tasks, TaskRecord
<1>18. ASSUME FocusUpdated PROVE DropClear'
  BY <1>1, <1>2, <1>18 DEF DropClear, Leaving, FocusUpdated, focus, Tasks, TaskRecord, Idle
<1>19. ASSUME resubscribe PROVE DropClear'
  BY <1>1, <1>2, <1>19 DEF DropClear, Leaving, resubscribe, focus, Tasks, TaskRecord, Idle
<1>20. ASSUME HookFails PROVE DropClear'
  BY <1>1, <1>2, <1>20 DEF DropClear, Leaving, HookFails, focus, Tasks, TaskRecord, Idle
<1>21. ASSUME UNCHANGED vars PROVE DropClear'
  BY <1>21 DEF DropClear, Leaving, vars, focus
<1> QED  BY <1>3, <1>4, <1>5, <1>6, <1>7, <1>8, <1>9, <1>10, <1>11, <1>12, <1>13,
          <1>14, <1>15, <1>16, <1>17, <1>18, <1>19, <1>20, <1>21, <1>22 DEF Next

-----------------------------------------------------------------------------
(* The streams of the session. *)

LEMMA StreamsNext ==
  ASSUME DataInv, [Next]_vars
  PROVE  StreamsSound'
<1>1. task \in [Tasks -> TaskRecord] /\ {connected, ready, refreshed} \subseteq BOOLEAN
  BY DEF DataInv, TypeOK, TaskRecord
<1>2. TasksSound /\ DropClear /\ StreamsSound  BY DEF DataInv
<1> USE DEF StreamsSound, Fresh
<1>3. ASSUME Disconnect PROVE StreamsSound'
  BY <1>1, <1>2, <1>3 DEF TasksSound, Leaving, Disconnect, focus, service, streams, Tasks,
       TaskRecord
<1>4. ASSUME Reconnect PROVE StreamsSound'
  BY <1>1, <1>2, <1>4 DEF TasksSound, Leaving, Reconnect, focus, service, streams, Tasks,
       TaskRecord
<1>5. ASSUME NEW s \in Symbols, Enter(s) PROVE StreamsSound'
  BY <1>1, <1>2, <1>5 DEF TasksSound, Leaving, Enter, focus, service, streams, Tasks,
       TaskRecord
<1>22. ASSUME NEW s \in Symbols, ApproveProposal(s) PROVE StreamsSound'
  BY <1>1, <1>2, <1>22 DEF TasksSound, Leaving, ApproveProposal, focus, service, streams, Tasks,
       TaskRecord
<1>6. ASSUME NEW s \in Symbols, Exit(s) PROVE StreamsSound'
  BY <1>1, <1>2, <1>6 DEF TasksSound, Leaving, Exit, focus, service, streams, Tasks,
       TaskRecord
<1>7. ASSUME update_focus PROVE StreamsSound'
  BY <1>1, <1>2, <1>7 DEF TasksSound, Leaving, update_focus, focus, service, streams,
       Tasks, TaskRecord
<1>8. ASSUME SeedFocus PROVE StreamsSound'
  <2>1. PICK seed \in SUBSET Symbols :
          task' = [task EXCEPT !["cycle"] = [Idle EXCEPT !.pc = "next", !.todo = seed]]
    BY <1>8 DEF SeedFocus
  <2>2. Leaving' = {}  BY <1>1, <2>1 DEF Leaving, Tasks, TaskRecord, Idle
  <2>3. /\ task'["hook"] = task["hook"] /\ task'["cycle"].pc = "next"
        /\ task'["cycle"].drop = {} /\ task'["cycle"].sym = {} /\ task["cycle"].pc = "idle"
    BY <1>1, <1>2, <1>8, <2>1 DEF SeedFocus, TasksSound, Tasks, TaskRecord, Idle
  <2>4. \A t \in Tasks : t = "cycle" \/ t = "hook"  BY DEF Tasks
  <2> QED  BY <1>2, <1>8, <2>2, <2>3, <2>4 DEF SeedFocus, service, streams, Tasks
<1>9. ASSUME NEW t \in Tasks, NEW s \in Symbols, SubscribeNext(t, s) PROVE StreamsSound'
  BY <1>1, <1>2, <1>9 DEF TasksSound, Leaving, SubscribeNext, focus, service, streams,
       Tasks, TaskRecord
<1>10. ASSUME NEW t \in Tasks, SubscribeFails(t) PROVE StreamsSound'
  BY <1>1, <1>2, <1>10 DEF TasksSound, Leaving, SubscribeFails, focus, service, streams,
       Tasks, TaskRecord
<1>11. ASSUME NEW t \in Tasks, subscribe_quote(t) PROVE StreamsSound'
  BY <1>1, <1>2, <1>11 DEF TasksSound, Leaving, subscribe_quote, focus, service, streams,
       Tasks, TaskRecord
<1>12. ASSUME NEW t \in Tasks, subscribe_bars(t) PROVE StreamsSound'
  BY <1>1, <1>2, <1>12 DEF TasksSound, Leaving, subscribe_bars, focus, service, streams,
       Tasks, TaskRecord
<1>13. ASSUME NEW t \in Tasks, Subscribed(t) PROVE StreamsSound'
  BY <1>1, <1>2, <1>13 DEF TasksSound, Leaving, Subscribed, focus, service, streams, Tasks,
       TaskRecord
<1>14. ASSUME load_intraday PROVE StreamsSound'
  BY <1>1, <1>2, <1>14 DEF TasksSound, Leaving, load_intraday, focus, service, streams,
       Tasks, TaskRecord
<1>15. ASSUME NEW s \in Symbols, UnsubscribeNext(s) PROVE StreamsSound'
  BY <1>1, <1>2, <1>15 DEF TasksSound, Leaving, UnsubscribeNext, focus, service, streams,
       Tasks, TaskRecord
<1>16. ASSUME unsubscribe_quote PROVE StreamsSound'
  BY <1>1, <1>2, <1>16 DEF TasksSound, Leaving, unsubscribe_quote, focus, service, streams,
       Tasks, TaskRecord
<1>17. ASSUME unsubscribe_bars PROVE StreamsSound'
  BY <1>1, <1>2, <1>17 DEF TasksSound, Leaving, unsubscribe_bars, focus, service, streams,
       Tasks, TaskRecord
<1>18. ASSUME FocusUpdated PROVE StreamsSound'
  BY <1>1, <1>2, <1>18 DEF TasksSound, Leaving, FocusUpdated, focus, service, streams,
       Tasks, TaskRecord, Idle
<1>19. ASSUME resubscribe PROVE StreamsSound'
  <2> DEFINE targets == current \cup held
  <2>1. /\ task' = [task EXCEPT !["hook"] = [Idle EXCEPT !.pc = "next", !.todo = targets]]
        /\ refreshed' = (targets # {} /\ ~AtPacer("cycle"))
        /\ targets # {} => tickers' = {} /\ bar_subs' = {} /\ subscribed' = {}
    BY <1>19 DEF resubscribe, clear_subscription_cache
  <2>2. /\ task'["cycle"] = task["cycle"] /\ task'["hook"].todo = targets
        /\ task'["hook"].sym = {} /\ task'["hook"].pc = "next"
    BY <1>1, <2>1 DEF Tasks, TaskRecord, Idle
  <2>3. task["cycle"].sym = {} \/ AtPacer("cycle")
    BY <1>2 DEF TasksSound, AtPacer, CyclePcs, Tasks
  <2>4. \A t \in Tasks : t = "cycle" \/ t = "hook"  BY DEF Tasks
  <2>5. SUFFICES ASSUME Fresh' PROVE StreamsSound'  BY DEF StreamsSound
  <2>6. targets # {} /\ ~AtPacer("cycle")  BY <2>1, <2>5
  <2>7. tickers' = {} /\ bar_subs' = {} /\ subscribed' = {}  BY <2>1, <2>6
  <2>8. task'["cycle"].pc \notin {"next", "quote", "bars", "dropquote", "dropbars"}
    BY <2>2, <2>6 DEF AtPacer
  <2> QED  BY <2>2, <2>3, <2>4, <2>7, <2>8
<1>20. ASSUME HookFails PROVE StreamsSound'
  BY <1>1, <1>2, <1>20 DEF TasksSound, Leaving, HookFails, focus, service, streams, Tasks,
       TaskRecord, Idle
<1>21. ASSUME UNCHANGED vars PROVE StreamsSound'
  BY <1>2, <1>21 DEF Leaving, vars, focus, service, streams
<1> QED  BY <1>3, <1>4, <1>5, <1>6, <1>7, <1>8, <1>9, <1>10, <1>11, <1>12, <1>13,
          <1>14, <1>15, <1>16, <1>17, <1>18, <1>19, <1>20, <1>21, <1>22 DEF Next

-----------------------------------------------------------------------------
(* The theorems. *)

\* The invariants hold of every state: the caches of a session hold nothing that was asked
\* for in an earlier one, and nobody is about to unsubscribe what is listed, or what was held
\* before it was dropped.
THEOREM DataInvariant == Spec => []DataInv
<1>1. Init => DataInv  BY Start
<1>2. DataInv /\ [Next]_vars => DataInv'
  <2> SUFFICES ASSUME DataInv, [Next]_vars PROVE DataInv'  OBVIOUS
  <2>1. TypeOK /\ TasksSound /\ DropClear /\ StreamsSound /\ StreakIsWaited  BY DEF DataInv
  <2>2. TypeOK'  BY <2>1, TypeNext
  <2>3. TasksSound'  BY <2>1, TasksNext
  <2>4. DropClear'  BY <2>1, DropNext
  <2>5. StreamsSound'  BY StreamsNext
  <2>6. StreakIsWaited'  BY <2>1, StreakNext
  <2> QED  BY <2>2, <2>3, <2>4, <2>5, <2>6 DEF DataInv
<1> QED  BY <1>1, <1>2, PTL DEF Spec

\* Every variable keeps its type, and subscribe never reserves more lines than the
\* subscription has (MarketDataLineBudget.reserve).
THEOREM TypeCorrect == Spec => []TypeOK
<1>1. DataInv => TypeOK  BY DEF DataInv
<1> QED  BY <1>1, DataInvariant, PTL

\* What MarketDataService.subscribed holds streams in this session, after the reconnect
\* hook has cleared the adapter's caches and renewed the list.
THEOREM FeedsAliveHolds == Spec => []FeedsAlive
<1>1. DataInv => FeedsAlive
  <2> SUFFICES ASSUME DataInv, connected, ready, refreshed, task["hook"].pc = "idle",
                      NEW s \in subscribed
               PROVE  \/ s \in quotes \cap bars \cap reserved
                      \/ task["cycle"].pc = "dropbars" /\ s \in task["cycle"].sym
    BY DEF FeedsAlive
  <2>1. StreamsSound /\ Fresh  BY DEF DataInv, Fresh
  <2> QED  BY <2>1 DEF StreamsSound
<1> QED  BY <1>1, DataInvariant, PTL

\* unsubscribe never takes the stream of a symbol with a position or a working order,
\* whatever the approvals, exits and reconnects between its awaits, but for one that was
\* not held when FocusListManager dropped it and was approved since.
THEOREM HeldKeepsItsFeedHolds == Spec => HeldKeepsItsFeed
<1> DEFINE Keeps == connected /\ connected' /\ ready /\ task["hook"] = task'["hook"]
                      => (held \cap held' \cap subscribed) \ task["cycle"].late \subseteq subscribed'
<1>1. DataInv /\ [Next]_vars => [Keeps]_vars
  <2> SUFFICES ASSUME DataInv, [Next]_vars, connected, connected', ready,
                      task["hook"] = task'["hook"]
               PROVE  (held \cap held' \cap subscribed) \ task["cycle"].late \subseteq subscribed'
    OBVIOUS
  <2>1. task \in [Tasks -> TaskRecord] /\ TasksSound /\ DropClear
    BY DEF DataInv, TypeOK, TaskRecord
  <2>2. CASE unsubscribe_bars
    <3>1. subscribed' = subscribed \ task["cycle"].sym /\ task["cycle"].pc = "dropbars"
      BY <2>2 DEF unsubscribe_bars
    <3>2. task["cycle"].sym \cap held \subseteq task["cycle"].late
      BY <2>1, <3>1 DEF DropClear, Leaving
    <3> QED  BY <3>1, <3>2
  <2>3. ~resubscribe
    <3>1. ASSUME resubscribe PROVE FALSE
      <4>1. task["hook"].pc = "reconcile" /\ task'["hook"].pc = "next"
        BY <2>1, <3>1 DEF resubscribe, Tasks, TaskRecord, Idle
      <4> QED  BY <4>1
    <3> QED  BY <3>1
  <2>4. CASE [Next]_vars /\ ~unsubscribe_bars
    <3>1. \/ subscribed' = subscribed
          \/ \E t \in Tasks : subscribe_bars(t)
      BY <2>3, <2>4 DEF Next, vars, service, Disconnect, Reconnect, Enter, ApproveProposal, Exit,
           update_focus,
           SeedFocus, SubscribeNext, SubscribeFails, subscribe_quote, Subscribed, load_intraday,
           UnsubscribeNext, unsubscribe_quote, FocusUpdated, HookFails
    <3> QED  BY <3>1 DEF subscribe_bars
  <2> QED  BY <2>2, <2>4
<1> QED  BY <1>1, DataInvariant, PTL DEF Spec, HeldKeepsItsFeed

\* FocusListManager.update lets a challenger displace a member that still has data only
\* when it has waited for churn_persistence_cycles updates with data, for every list of
\* scores, size and margin.
THEOREM SwapsAreEarnedHolds == Spec => SwapsAreEarned
<1> DEFINE out    == {s \in current \ current' : waited'[s] > 0}
           room   == Size - Cardinality(held \cap current')
           forced == Cardinality(current \ held) - (IF room > 0 THEN room ELSE 0)
           earned == {s \in current' \ current : waited[s] + 1 >= Persistence}
           Fair   == update_focus =>
                       Cardinality(out) <= (IF forced > 0 THEN forced ELSE 0) + Cardinality(earned)
<1>1. DataInv /\ [Next]_vars => [Fair]_vars
  <2> SUFFICES ASSUME DataInv, update_focus
               PROVE  Cardinality(out) <= (IF forced > 0 THEN forced ELSE 0) + Cardinality(earned)
    OBVIOUS
  <2>1. TypeOK /\ StreakIsWaited  BY DEF DataInv
  <2>2. PICK scored, added \in SUBSET Symbols : Refocused(scored, added)
    BY <2>1, FocusMoves
  <2>3. current \in SUBSET Symbols /\ current' \in SUBSET Symbols /\ held \in SUBSET Symbols
        /\ waited \in [Symbols -> Nat]
    BY <2>1, <2>2 DEF TypeOK, Refocused
  <2>4. out \subseteq (current \cap scored) \ current'
    <3>1. ASSUME NEW s \in current \ current', s \notin scored PROVE ~(waited'[s] > 0)
      BY <2>2, <2>3, <3>1 DEF Refocused, Waits
    <3> QED  BY <3>1
  <2>5. Cardinality(out) <= Cardinality((current \cap scored) \ current')
        /\ Cardinality(out) \in Nat /\ Cardinality((current \cap scored) \ current') \in Nat
    <3>1. (current \cap scored) \ current' \in SUBSET Symbols /\ out \in SUBSET Symbols
      BY <2>3
    <3> HIDE DEF out
    <3> QED  BY <2>4, <3>1, SubsetSmaller, FiniteSymbols
  <2>6. earned = Earned(current', current, waited) /\ Cardinality(earned) \in Nat
    <3>1. earned \in SUBSET Symbols  BY <2>3
    <3>2. earned = Earned(current', current, waited)  BY DEF Earned
    <3> HIDE DEF earned
    <3> QED  BY <3>1, <3>2, FiniteSymbols
  <2>7. Forced(current, held, held \cap current') = IF forced > 0 THEN forced ELSE 0
    <3>1. Cardinality(held \cap current') \in Nat /\ Cardinality(current \ held) \in Nat
      <4>1. held \cap current' \in SUBSET Symbols /\ current \ held \in SUBSET Symbols
        BY <2>3
      <4> QED  BY <4>1, FiniteSymbols
    <3>2. Size \in Nat  BY FocusAssumption
    <3> QED  BY <3>1, <3>2 DEF Forced, Slots
  <2>8. Cardinality((current \cap scored) \ current')
          <= Forced(current, held, held \cap current') + Cardinality(Earned(current', current, waited))
    BY <2>2 DEF Refocused
  <2> HIDE DEF out, forced, earned
  <2>9. forced \in Int
    <3>1. Cardinality(held \cap current') \in Nat /\ Cardinality(current \ held) \in Nat
      <4>1. held \cap current' \in SUBSET Symbols /\ current \ held \in SUBSET Symbols
        BY <2>3
      <4> QED  BY <4>1, FiniteSymbols
    <3>2. Size \in Nat  BY FocusAssumption
    <3> QED  BY <3>1, <3>2 DEF forced
  <2> QED  BY <2>5, <2>6, <2>7, <2>8, <2>9
<1> QED  BY <1>1, DataInvariant, PTL DEF Spec, SwapsAreEarned

=============================================================================

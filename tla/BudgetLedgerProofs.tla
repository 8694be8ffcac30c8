------------------------- MODULE BudgetLedgerProofs -------------------------
(***************************************************************************)
(* Proofs about BudgetLedger, for any budgets, categories, limits and      *)
(* amounts: types, the hard limits, the report of overruns, and that the   *)
(* totals are the sums over the reservations, which are invariants         *)
(* relative to the types; and that usage records account for what was      *)
(* consumed, however often a usage ID is reported.                         *)
(***************************************************************************)
EXTENDS BudgetLedger, FiniteSetTheorems, TLAPS

-----------------------------------------------------------------------------
(* Totals.                                                                 *)

\* No amounts add up to zero.
LEMMA ZeroTotal == ASSUME NEW S PROVE IsTotal(0, [x \in S |-> 0])
<1>1. Units([x \in S |-> 0]) = {}
  BY DEF Units
<1> QED
  BY <1>1, FS_EmptySet DEF IsTotal

\* A total is a number.
LEMMA TotalType == ASSUME NEW n, NEW f, IsTotal(n, f) PROVE n \in Nat
  BY FS_CardinalityType DEF IsTotal

\* When one amount changes, the total changes by as much.
LEMMA TotalChanges ==
    ASSUME NEW S, NEW f \in [S -> Nat], NEW n, IsTotal(n, f), NEW x \in S, NEW k \in Nat
    PROVE  IsTotal(n - f[x] + k, [f EXCEPT ![x] = k])
<1> DEFINE g == [f EXCEPT ![x] = k]
           own(m) == {x} \X (1 .. m)
           rest == Units(f) \ own(f[x])
<1>1. ASSUME NEW m \in Nat PROVE IsFiniteSet(own(m)) /\ Cardinality(own(m)) = m
  <2>1. IsFiniteSet({x}) /\ Cardinality({x}) = 1
    BY FS_Singleton
  <2>2. IsFiniteSet(1 .. m) /\ Cardinality(1 .. m) = m
    BY FS_Interval
  <2> QED
    BY <2>1, <2>2, FS_Product
<1>2. own(f[x]) \subseteq Units(f)
  BY DEF Units
<1>3. IsFiniteSet(Units(f)) /\ n = Cardinality(Units(f)) /\ f[x] \in Nat
  BY DEF IsTotal
<1>4. IsFiniteSet(rest) /\ Cardinality(rest) = n - f[x]
  <2>1. Units(f) \cap own(f[x]) = own(f[x])
    BY <1>2
  <2>2. Cardinality(own(f[x])) = f[x]
    BY <1>1, <1>3
  <2> HIDE DEF own
  <2>3. IsFiniteSet(rest) /\ Cardinality(rest) = Cardinality(Units(f)) - Cardinality(Units(f) \cap own(f[x]))
    BY <1>3, FS_Difference
  <2> QED
    BY <2>1, <2>2, <2>3, <1>3
<1>5. rest \cap own(k) = {} /\ Units(g) = rest \union own(k)
  <2>1. ASSUME NEW u PROVE u \in Units(f) <=> \E y \in S : \E i \in 1 .. f[y] : u = <<y, i>>
    BY DEF Units
  <2>2. ASSUME NEW u PROVE u \in Units(g) <=> \E y \in S : \E i \in 1 .. g[y] : u = <<y, i>>
    BY DEF Units
  <2>3. ASSUME NEW u, NEW m PROVE u \in own(m) <=> \E i \in 1 .. m : u = <<x, i>>
    OBVIOUS
  <2>4. g[x] = k /\ \A y \in S \ {x} : g[y] = f[y]
    OBVIOUS
  <2>5. ASSUME NEW u PROVE u \in rest <=> \E y \in S \ {x} : \E i \in 1 .. f[y] : u = <<y, i>>
    <3> HIDE DEF own
    <3> QED BY <2>1, <2>3
  <2> HIDE DEF rest, own, g
  <2>6. rest \cap own(k) = {}
    BY <2>3, <2>5
  <2>7. ASSUME NEW u PROVE u \in Units(g) <=> u \in rest \/ u \in own(k)
    BY <2>2, <2>3, <2>4, <2>5
  <2> QED
    BY <2>6, <2>7
<1>6. IsFiniteSet(own(k)) /\ Cardinality(own(k)) = k
  BY <1>1
<1>7. Cardinality({}) = 0
  BY FS_EmptySet
<1> HIDE DEF rest, own, g
<1>8. IsFiniteSet(Units(g)) /\ Cardinality(Units(g)) = Cardinality(rest) + Cardinality(own(k)) - Cardinality(rest \cap own(k))
  BY <1>4, <1>5, <1>6, FS_Union
<1>9. n \in Nat
  BY TotalType
<1>10. Cardinality(Units(g)) = n - f[x] + k
  BY <1>3, <1>4, <1>5, <1>6, <1>7, <1>8, <1>9
<1> QED
  BY <1>8, <1>10 DEF IsTotal, g

-----------------------------------------------------------------------------
(* What a movement between the totals keeps.                               *)

USE LedgerAssumption

\* Totals keep their types when something is moved to and from reservations.
LEMMA MoveType ==
    ASSUME TypeOK, NEW b \in Budgets, NEW c \in Categories, NEW r \in Int, NEW n \in Nat,
           Move(b, c, r, n)
    PROVE  /\ reserved' \in [Budgets -> Int]
           /\ consumed' \in [Budgets -> Nat]
           /\ reservedBy' \in [Budgets \X Categories -> Int]
           /\ consumedBy' \in [Budgets \X Categories -> Nat]
<1> DEFINE bc == <<b, c>>
<1>1. bc \in Budgets \X Categories
  OBVIOUS
<1>2. /\ reserved[b] + r \in Int /\ consumed[b] + n \in Nat
      /\ reservedBy[bc] + r \in Int /\ consumedBy[bc] + n \in Nat
  BY <1>1 DEF TypeOK
<1>3. /\ reserved' = [reserved EXCEPT ![b] = reserved[b] + r]
      /\ consumed' = [consumed EXCEPT ![b] = consumed[b] + n]
      /\ reservedBy' = [reservedBy EXCEPT ![bc] = reservedBy[bc] + r]
      /\ consumedBy' = [consumedBy EXCEPT ![bc] = consumedBy[bc] + n]
  BY DEF Move
<1> HIDE DEF bc
<1> QED
  BY <1>1, <1>2, <1>3 DEF TypeOK

\* The limits hold after a movement that adds nothing, or nothing that does not fit.
LEMMA MoveWithinLimits ==
    ASSUME TypeOK, WithinLimits,
           NEW b \in Budgets, NEW c \in Categories, NEW r \in Int, NEW n \in Nat,
           Move(b, c, r, n),
           r + n <= 0 \/ Fits(b, c, r + n)
    PROVE  WithinLimits'
<1> DEFINE bc == <<b, c>>
<1>1. bc \in Budgets \X Categories
  OBVIOUS
<1>2. /\ consumed[b] \in Nat /\ reserved[b] \in Int /\ HardLimit[b] \in Nat
      /\ consumedBy[bc] \in Nat /\ reservedBy[bc] \in Int /\ CategoryLimit[bc] \in Nat
  BY <1>1 DEF TypeOK
<1>3. /\ consumed[b] + reserved[b] <= HardLimit[b]
      /\ consumedBy[bc] + reservedBy[bc] <= CategoryLimit[bc]
  BY <1>1 DEF WithinLimits
<1>4. \/ r + n <= 0
      \/ /\ consumed[b] + reserved[b] + (r + n) <= HardLimit[b]
         /\ consumedBy[bc] + reservedBy[bc] + (r + n) <= CategoryLimit[bc]
  BY DEF Fits
<1>5. /\ reserved' = [reserved EXCEPT ![b] = reserved[b] + r]
      /\ consumed' = [consumed EXCEPT ![b] = consumed[b] + n]
      /\ reservedBy' = [reservedBy EXCEPT ![bc] = reservedBy[bc] + r]
      /\ consumedBy' = [consumedBy EXCEPT ![bc] = consumedBy[bc] + n]
  BY DEF Move
<1> HIDE DEF bc
<1>6. /\ (consumed[b] + n) + (reserved[b] + r) <= HardLimit[b]
      /\ (consumedBy[bc] + n) + (reservedBy[bc] + r) <= CategoryLimit[bc]
  BY ONLY <1>2, <1>3, <1>4, r \in Int, n \in Nat
<1>7. ASSUME NEW x \in Budgets PROVE consumed'[x] + reserved'[x] <= HardLimit[x]
  <2>1. CASE x = b
    BY <2>1, <1>5, <1>6 DEF TypeOK
  <2>2. CASE x # b
    BY <2>2, <1>5 DEF TypeOK, WithinLimits
  <2> QED
    BY <2>1, <2>2
<1>8. ASSUME NEW x \in Budgets \X Categories
      PROVE  consumedBy'[x] + reservedBy'[x] <= CategoryLimit[x]
  <2>1. CASE x = bc
    BY <2>1, <1>1, <1>5, <1>6 DEF TypeOK
  <2>2. CASE x # bc
    BY <2>2, <1>5 DEF TypeOK, WithinLimits
  <2> QED
    BY <2>1, <2>2
<1> QED
  BY <1>7, <1>8 DEF WithinLimits

-----------------------------------------------------------------------------
(* What each call moves, in terms of the two lemmas.                       *)

\* A reservation that exists is a record.
LEMMA RecordType ==
    ASSUME TypeOK, NEW r \in Reservations, record[r] # None
    PROVE  /\ record[r] \in Record
           /\ record[r].budget \in Budgets /\ record[r].category \in Categories
           /\ record[r].original \in Nat /\ record[r].remaining \in Nat
           /\ record[r].consumed \in Nat /\ record[r].state \in States
  BY DEF TypeOK, Record

\* Every step keeps the types.
LEMMA TypeStep == TypeOK /\ [Next]_vars => TypeOK'
<1> SUFFICES ASSUME TypeOK, [Next]_vars PROVE TypeOK'
  OBVIOUS
<1>1. ASSUME NEW r \in Reservations, NEW b \in Budgets, NEW c \in Categories,
             NEW n \in Amounts, Reserve(r, b, c, n)
      PROVE  TypeOK'
  <2>1. n \in Int /\ n \in Nat /\ 0 \in Nat /\ Move(b, c, n, 0)
    BY <1>1 DEF Reserve
  <2>2. /\ reserved' \in [Budgets -> Int] /\ consumed' \in [Budgets -> Nat]
        /\ reservedBy' \in [Budgets \X Categories -> Int]
        /\ consumedBy' \in [Budgets \X Categories -> Nat]
    BY <2>1, MoveType
  <2> DEFINE new == [budget |-> b, category |-> c, original |-> n, remaining |-> n,
                     consumed |-> 0, state |-> "reserved"]
  <2>3. new \in Record
    BY <2>1 DEF Record, States
  <2>4. record' = [record EXCEPT ![r] = new] /\ UNCHANGED <<usage, replaced, anomalies>>
    BY <1>1 DEF Reserve
  <2> HIDE DEF new
  <2> QED
    BY <2>2, <2>3, <2>4 DEF TypeOK
<1>2. ASSUME NEW r \in Reservations, NEW u \in UsageIds, NEW n \in Amounts, Consume(r, u, n)
      PROVE  TypeOK'
  <2>1. record[r] # None /\ n <= record[r].remaining
    BY <1>2 DEF Consume, Covers
  <2>0. record[r].remaining \in Nat /\ record[r].consumed \in Nat /\ n \in Nat
    BY <2>1, RecordType
  <2>2. -n \in Int /\ record[r].remaining - n \in Nat /\ record[r].consumed + n \in Nat
    BY ONLY <2>0, <2>1
  <2>3. Move(record[r].budget, record[r].category, -n, n)
    BY <1>2 DEF Consume
  <2>4. /\ reserved' \in [Budgets -> Int] /\ consumed' \in [Budgets -> Nat]
        /\ reservedBy' \in [Budgets \X Categories -> Int]
        /\ consumedBy' \in [Budgets \X Categories -> Nat]
    BY <2>0, <2>1, <2>2, <2>3, MoveType, RecordType
  <2>5. Consumed(record[r], n) =
            [record[r] EXCEPT !.remaining = record[r].remaining - n,
                              !.consumed = record[r].consumed + n,
                              !.state = "partially_consumed"]
    BY DEF Consumed
  <2>7. Consumed(record[r], n) \in Record
    BY <2>1, <2>2, <2>5, RecordType DEF Record, States
  <2>6. /\ record' = [record EXCEPT ![r] = Consumed(record[r], n)]
        /\ usage' = [usage EXCEPT ![u] = [reservation |-> r, amount |-> n]]
        /\ replaced' \subseteq replaced \union Reservations /\ UNCHANGED anomalies
    BY <1>2 DEF Consume
  <2> QED
    BY <2>0, <2>4, <2>6, <2>7 DEF TypeOK, Usage
<1>3. ASSUME NEW r \in Reservations, NEW actual \in Actuals, Reconcile(r, actual) PROVE TypeOK'
  <2> DEFINE outstanding == actual - record[r].consumed
             new == [record[r] EXCEPT !.remaining = 0, !.consumed = actual, !.state = "reconciled"]
  <2>1. record[r] # None /\ outstanding >= 0
    BY <1>3 DEF Reconcile
  <2>2. actual \in Nat /\ outstanding \in Nat /\ -(record[r].remaining) \in Int
    BY <2>1, RecordType
  <2>3. Move(record[r].budget, record[r].category, -(record[r].remaining), outstanding)
    BY <1>3 DEF Reconcile
  <2>4. new \in Record
    BY <2>1, <2>2, RecordType DEF Record, States
  <2>5. /\ record' = [record EXCEPT ![r] = new]
        /\ anomalies' \subseteq anomalies \union {r}
        /\ UNCHANGED <<usage, replaced>>
    BY <1>3 DEF Reconcile
  <2> HIDE DEF outstanding, new
  <2>6. /\ reserved' \in [Budgets -> Int] /\ consumed' \in [Budgets -> Nat]
        /\ reservedBy' \in [Budgets \X Categories -> Int]
        /\ consumedBy' \in [Budgets \X Categories -> Nat]
    BY <2>1, <2>2, <2>3, MoveType, RecordType
  <2> QED
    BY <2>4, <2>5, <2>6 DEF TypeOK
<1>4. ASSUME NEW r \in Reservations, NEW n \in Amounts \union {0}, Release(r, n) PROVE TypeOK'
  <2> DEFINE new == [record[r] EXCEPT !.remaining = @ - n,
                          !.state = IF record[r].remaining = n THEN "released" ELSE @]
  <2>1. record[r] # None /\ n <= record[r].remaining
    BY <1>4 DEF Release, Covers
  <2>2. n \in Nat /\ -n \in Int /\ 0 \in Nat /\ record[r].remaining - n \in Nat
    BY <2>1, RecordType
  <2>3. Move(record[r].budget, record[r].category, -n, 0)
    BY <1>4 DEF Release
  <2>4. /\ reserved' \in [Budgets -> Int] /\ consumed' \in [Budgets -> Nat]
        /\ reservedBy' \in [Budgets \X Categories -> Int]
        /\ consumedBy' \in [Budgets \X Categories -> Nat]
    BY <2>1, <2>2, <2>3, MoveType, RecordType
  <2>5. new \in Record
    BY <2>1, <2>2, RecordType DEF Record, States
  <2>6. record' = [record EXCEPT ![r] = new] /\ UNCHANGED <<usage, replaced, anomalies>>
    BY <1>4 DEF Release
  <2> HIDE DEF new
  <2> QED
    BY <2>4, <2>5, <2>6 DEF TypeOK
<1>5. CASE UNCHANGED vars
  BY <1>5 DEF vars, totals, TypeOK
<1> QED
  BY <1>1, <1>2, <1>3, <1>4, <1>5 DEF Next

\* Every step keeps the limits.
LEMMA LimitsStep == TypeOK /\ WithinLimits /\ [Next]_vars => WithinLimits'
<1> SUFFICES ASSUME TypeOK, WithinLimits, [Next]_vars PROVE WithinLimits'
  OBVIOUS
<1>1. ASSUME NEW r \in Reservations, NEW b \in Budgets, NEW c \in Categories,
             NEW n \in Amounts, Reserve(r, b, c, n)
      PROVE  WithinLimits'
  <2>1. n \in Int /\ 0 \in Nat /\ n + 0 = n
    OBVIOUS
  <2>2. Move(b, c, n, 0) /\ Fits(b, c, n)
    BY <1>1 DEF Reserve
  <2> QED
    BY <2>1, <2>2, MoveWithinLimits
<1>2. ASSUME NEW r \in Reservations, NEW u \in UsageIds, NEW n \in Amounts, Consume(r, u, n)
      PROVE  WithinLimits'
  <2>1. n \in Nat /\ -n \in Int /\ -n + n <= 0
    OBVIOUS
  <2>2. record[r] # None /\ Move(record[r].budget, record[r].category, -n, n)
    BY <1>2 DEF Consume
  <2> QED
    BY <2>1, <2>2, RecordType, MoveWithinLimits
<1>3. ASSUME NEW r \in Reservations, NEW actual \in Actuals, Reconcile(r, actual)
      PROVE  WithinLimits'
  <2> DEFINE outstanding == actual - record[r].consumed
             additional == outstanding - record[r].remaining
             rem == record[r].remaining
  <2>1. /\ record[r] # None /\ outstanding >= 0
        /\ additional > 0 => Fits(record[r].budget, record[r].category, additional)
        /\ Move(record[r].budget, record[r].category, -rem, outstanding)
    BY <1>3 DEF Reconcile
  <2>6. record[r].remaining \in Nat /\ record[r].consumed \in Nat /\ actual \in Nat
    BY <2>1, RecordType
  <2>7. actual - record[r].consumed >= 0
    BY <2>1
  <2>4. rem \in Nat /\ outstanding \in Nat
    BY ONLY <2>6, <2>7
  <2>5. additional = outstanding - rem
    OBVIOUS
  <2> HIDE DEF outstanding, additional, rem
  <2>2. -rem \in Int /\ additional \in Int /\ -rem + outstanding = additional
    BY ONLY <2>4, <2>5
  <2>3. -rem + outstanding <= 0 \/ Fits(record[r].budget, record[r].category, -rem + outstanding)
    BY <2>1, <2>2
  <2> QED
    BY <2>1, <2>2, <2>3, <2>4, RecordType, MoveWithinLimits
<1>4. ASSUME NEW r \in Reservations, NEW n \in Amounts \union {0}, Release(r, n)
      PROVE  WithinLimits'
  <2>1. n \in Nat /\ -n \in Int /\ 0 \in Nat /\ -n + 0 <= 0
    OBVIOUS
  <2>2. record[r] # None /\ Move(record[r].budget, record[r].category, -n, 0)
    BY <1>4 DEF Release
  <2> QED
    BY <2>1, <2>2, RecordType, MoveWithinLimits
<1>5. CASE UNCHANGED vars
  BY <1>5 DEF vars, totals, WithinLimits
<1> QED
  BY <1>1, <1>2, <1>3, <1>4, <1>5 DEF Next

-----------------------------------------------------------------------------
(* Overruns.                                                               *)

\* What the invariant asks of a record.
Reported(r, rec, reported) ==
    \/ rec.consumed + rec.remaining <= rec.original
    \/ rec.remaining = 0 /\ r \in reported

\* A step that replaces one record by a reported one keeps the others reported.
LEMMA ReportedStep ==
    ASSUME TypeOK, OverrunsAreReported, NEW r \in Reservations, NEW new,
           record' = [record EXCEPT ![r] = new],
           anomalies \subseteq anomalies', Reported(r, new, anomalies')
    PROVE  OverrunsAreReported'
<1>1. ASSUME NEW x \in Reservations, record'[x] # None PROVE Reported(x, record'[x], anomalies')
  <2>1. CASE x = r
    BY <2>1 DEF TypeOK
  <2>2. CASE x # r
    BY <1>1, <2>2 DEF TypeOK, OverrunsAreReported, Reported
  <2> QED
    BY <2>1, <2>2
<1> QED
  BY <1>1 DEF OverrunsAreReported, Reported

\* Every step keeps overruns reported.
LEMMA OverrunsStep == TypeOK /\ OverrunsAreReported /\ [Next]_vars => OverrunsAreReported'
<1> SUFFICES ASSUME TypeOK, OverrunsAreReported, [Next]_vars PROVE OverrunsAreReported'
  OBVIOUS
<1>1. ASSUME NEW r \in Reservations, NEW b \in Budgets, NEW c \in Categories,
             NEW n \in Amounts, Reserve(r, b, c, n)
      PROVE  OverrunsAreReported'
  <2> DEFINE new == [budget |-> b, category |-> c, original |-> n, remaining |-> n,
                     consumed |-> 0, state |-> "reserved"]
  <2>1. record' = [record EXCEPT ![r] = new] /\ anomalies' = anomalies
    BY <1>1 DEF Reserve
  <2>2. Reported(r, new, anomalies')
    BY DEF Reported
  <2> QED
    BY <2>1, <2>2, ReportedStep
<1>2. ASSUME NEW r \in Reservations, NEW u \in UsageIds, NEW n \in Amounts, Consume(r, u, n)
      PROVE  OverrunsAreReported'
  <2>1. /\ record[r] # None /\ n <= record[r].remaining
        /\ record' = [record EXCEPT ![r] = Consumed(record[r], n)] /\ anomalies' = anomalies
    BY <1>2 DEF Consume, Covers
  <2>0. record[r].remaining \in Nat /\ n \in Nat \ {0}
    BY <2>1, RecordType
  <2>5. record[r].remaining # 0
    BY ONLY <2>0, <2>1
  <2>2. record[r].consumed + record[r].remaining <= record[r].original
    BY <2>1, <2>5 DEF OverrunsAreReported
  <2>3. /\ Consumed(record[r], n).consumed = record[r].consumed + n
        /\ Consumed(record[r], n).remaining = record[r].remaining - n
        /\ Consumed(record[r], n).original = record[r].original
    BY <2>1, RecordType DEF Consumed, Record
  <2>6. record[r].consumed \in Nat /\ record[r].original \in Nat
    BY <2>1, RecordType
  <2>4. Reported(r, Consumed(record[r], n), anomalies')
    BY ONLY <2>0, <2>2, <2>3, <2>6 DEF Reported
  <2> QED
    BY <2>1, <2>4, ReportedStep
<1>3. ASSUME NEW r \in Reservations, NEW actual \in Actuals, Reconcile(r, actual)
      PROVE  OverrunsAreReported'
  <2> DEFINE new == [record[r] EXCEPT !.remaining = 0, !.consumed = actual, !.state = "reconciled"]
  <2>1. /\ record[r] # None /\ record' = [record EXCEPT ![r] = new]
        /\ anomalies' = IF actual > record[r].original THEN anomalies \union {r} ELSE anomalies
    BY <1>3 DEF Reconcile, Overrun
  <2>2. new.consumed = actual /\ new.remaining = 0 /\ new.original = record[r].original
    BY <2>1, RecordType DEF Record
  <2> HIDE DEF new
  <2>3. Reported(r, new, anomalies')
    BY <2>1, <2>2, RecordType DEF Reported
  <2> QED
    BY <2>1, <2>3, ReportedStep
<1>4. ASSUME NEW r \in Reservations, NEW n \in Amounts \union {0}, Release(r, n)
      PROVE  OverrunsAreReported'
  <2> DEFINE new == [record[r] EXCEPT !.remaining = @ - n,
                          !.state = IF record[r].remaining = n THEN "released" ELSE @]
  <2>1. /\ record[r] # None /\ n <= record[r].remaining
        /\ record' = [record EXCEPT ![r] = new] /\ anomalies' = anomalies
    BY <1>4 DEF Release, Covers
  <2>2. /\ new.consumed = record[r].consumed /\ new.remaining = record[r].remaining - n
        /\ new.original = record[r].original
    BY <2>1, RecordType DEF Record
  <2> HIDE DEF new
  <2>3. Reported(r, new, anomalies')
    BY <2>1, <2>2, RecordType DEF Reported, OverrunsAreReported
  <2> QED
    BY <2>1, <2>3, ReportedStep
<1>5. CASE UNCHANGED vars
  BY <1>5 DEF vars, OverrunsAreReported
<1> QED
  BY <1>1, <1>2, <1>3, <1>4, <1>5 DEF Next

-----------------------------------------------------------------------------
(* The totals are sums.                                                    *)

\* What becomes of a total of budget x when reservation r of budget b and category c is
\* made or changed: it changes by d if b and c are its own.
Shift(x, Cs, b, c, n, d) == IF x = b /\ c \in Cs THEN n + d ELSE n

\* Reservation r changes from what it was, or is made, by what Move moves.
Rewrites(r, new, dr, dn) ==
    /\ new \in Record
    /\ record' = [record EXCEPT ![r] = new]
    /\ Move(new.budget, new.category, dr, dn)
    /\ \/ record[r] = None /\ new.remaining = dr /\ new.consumed = dn
       \/ /\ record[r] # None
          /\ new.budget = record[r].budget /\ new.category = record[r].category
          /\ new.remaining = record[r].remaining + dr /\ new.consumed = record[r].consumed + dn

\* The sum of what remains follows.
LEMMA RemainingShifts ==
    ASSUME TypeOK, NEW r \in Reservations, NEW new, NEW dr \in Int, NEW dn \in Int,
           Rewrites(r, new, dr, dn), NEW x, NEW Cs, NEW n, IsTotal(n, RemainingIn(x, Cs))
    PROVE  IsTotal(Shift(x, Cs, new.budget, new.category, n, dr), RemainingIn(x, Cs)')
<1> DEFINE f == RemainingIn(x, Cs)
           k == IF new.budget = x /\ new.category \in Cs THEN new.remaining ELSE 0
<1>1. new \in Record /\ new # None /\ new.remaining \in Nat
  BY NoneIsNoRecord DEF Rewrites, Record
<1>2. record' = [record EXCEPT ![r] = new] /\ record \in [Reservations -> Record \union {None}]
  BY DEF Rewrites, TypeOK
<1>3. f \in [Reservations -> Nat]
  BY <1>2 DEF RemainingIn, Record
<1>4. k \in Nat
  BY <1>1
<1>5. RemainingIn(x, Cs)' = [f EXCEPT ![r] = k]
  BY <1>1, <1>2 DEF RemainingIn
<1>6. n - f[r] + k = Shift(x, Cs, new.budget, new.category, n, dr)
  <2>0. n \in Nat
    BY TotalType
  <2>1. CASE record[r] = None
    <3>1. f[r] = 0 /\ new.remaining = dr
      BY <2>1, NoneIsNoRecord, <1>1 DEF RemainingIn, Rewrites
    <3> HIDE DEF f
    <3> QED BY <2>0, <3>1 DEF Shift
  <2>2. CASE record[r] # None
    <3>1. /\ f[r] = IF new.budget = x /\ new.category \in Cs THEN record[r].remaining ELSE 0
          /\ new.remaining = record[r].remaining + dr
      BY <2>2 DEF RemainingIn, Rewrites
    <3>2. record[r].remaining \in Nat
      BY <2>2, RecordType
    <3> HIDE DEF f
    <3> QED BY <2>0, <3>1, <3>2 DEF Shift
  <2> QED
    BY <2>1, <2>2
<1> HIDE DEF f, k
<1>7. IsTotal(n - f[r] + k, [f EXCEPT ![r] = k])
  BY <1>3, <1>4, TotalChanges DEF f
<1> QED
  BY <1>5, <1>6, <1>7

\* The sum of what was consumed follows.
LEMMA ConsumedShifts ==
    ASSUME TypeOK, NEW r \in Reservations, NEW new, NEW dr \in Int, NEW dn \in Int,
           Rewrites(r, new, dr, dn), NEW x, NEW Cs, NEW n, IsTotal(n, ConsumedIn(x, Cs))
    PROVE  IsTotal(Shift(x, Cs, new.budget, new.category, n, dn), ConsumedIn(x, Cs)')
<1> DEFINE f == ConsumedIn(x, Cs)
           k == IF new.budget = x /\ new.category \in Cs THEN new.consumed ELSE 0
<1>1. new \in Record /\ new # None /\ new.consumed \in Nat
  BY NoneIsNoRecord DEF Rewrites, Record
<1>2. record' = [record EXCEPT ![r] = new] /\ record \in [Reservations -> Record \union {None}]
  BY DEF Rewrites, TypeOK
<1>3. f \in [Reservations -> Nat]
  BY <1>2 DEF ConsumedIn, Record
<1>4. k \in Nat
  BY <1>1
<1>5. ConsumedIn(x, Cs)' = [f EXCEPT ![r] = k]
  BY <1>1, <1>2 DEF ConsumedIn
<1>6. n - f[r] + k = Shift(x, Cs, new.budget, new.category, n, dn)
  <2>0. n \in Nat
    BY TotalType
  <2>1. CASE record[r] = None
    <3>1. f[r] = 0 /\ new.consumed = dn
      BY <2>1, NoneIsNoRecord, <1>1 DEF ConsumedIn, Rewrites
    <3> HIDE DEF f
    <3> QED BY <2>0, <3>1 DEF Shift
  <2>2. CASE record[r] # None
    <3>1. /\ f[r] = IF new.budget = x /\ new.category \in Cs THEN record[r].consumed ELSE 0
          /\ new.consumed = record[r].consumed + dn
      BY <2>2 DEF ConsumedIn, Rewrites
    <3>2. record[r].consumed \in Nat
      BY <2>2, RecordType
    <3> HIDE DEF f
    <3> QED BY <2>0, <3>1, <3>2 DEF Shift
  <2> QED
    BY <2>1, <2>2
<1> HIDE DEF f, k
<1>7. IsTotal(n - f[r] + k, [f EXCEPT ![r] = k])
  BY <1>3, <1>4, TotalChanges DEF f
<1> QED
  BY <1>5, <1>6, <1>7

\* ... and so do the totals that are kept.
LEMMA RewriteBalances ==
    ASSUME TypeOK, Balanced, NEW r \in Reservations, NEW new, NEW dr \in Int, NEW dn \in Int,
           Rewrites(r, new, dr, dn)
    PROVE  Balanced'
<1> DEFINE b == new.budget
           c == new.category
<1>1. b \in Budgets /\ c \in Categories /\ Move(b, c, dr, dn)
  BY DEF Rewrites, Record
<1> HIDE DEF b, c
<1>2. ASSUME NEW x \in Budgets
      PROVE  /\ reserved'[x] = Shift(x, Categories, b, c, reserved[x], dr)
             /\ consumed'[x] = Shift(x, Categories, b, c, consumed[x], dn)
  BY <1>1 DEF Move, Shift, TypeOK
<1>3. ASSUME NEW x \in Budgets, NEW y \in Categories
      PROVE  /\ reservedBy'[<<x, y>>] = Shift(x, {y}, b, c, reservedBy[<<x, y>>], dr)
             /\ consumedBy'[<<x, y>>] = Shift(x, {y}, b, c, consumedBy[<<x, y>>], dn)
  BY <1>1 DEF Move, Shift, TypeOK
<1>4. ASSUME NEW x \in Budgets
      PROVE  /\ IsTotal(reserved'[x], RemainingIn(x, Categories)')
             /\ IsTotal(consumed'[x], ConsumedIn(x, Categories)')
  <2>1. IsTotal(reserved[x], RemainingIn(x, Categories)) /\ IsTotal(consumed[x], ConsumedIn(x, Categories))
    BY DEF Balanced
  <2> QED
    BY <2>1, <1>2, RemainingShifts, ConsumedShifts DEF b, c
<1>5. ASSUME NEW x \in Budgets, NEW y \in Categories
      PROVE  /\ IsTotal(reservedBy'[<<x, y>>], RemainingIn(x, {y})')
             /\ IsTotal(consumedBy'[<<x, y>>], ConsumedIn(x, {y})')
  <2>1. IsTotal(reservedBy[<<x, y>>], RemainingIn(x, {y})) /\ IsTotal(consumedBy[<<x, y>>], ConsumedIn(x, {y}))
    BY DEF Balanced
  <2>2. IsTotal(Shift(x, {y}, b, c, reservedBy[<<x, y>>], dr), RemainingIn(x, {y})')
    BY <2>1, RemainingShifts DEF b, c
  <2>3. IsTotal(Shift(x, {y}, b, c, consumedBy[<<x, y>>], dn), ConsumedIn(x, {y})')
    BY <2>1, ConsumedShifts DEF b, c
  <2> QED
    BY ONLY <2>2, <2>3, <1>3
<1>6. /\ \A x \in Budgets : /\ IsTotal(reserved'[x], RemainingIn(x, Categories)')
                            /\ IsTotal(consumed'[x], ConsumedIn(x, Categories)')
      /\ \A x \in Budgets, y \in Categories :
             /\ IsTotal(reservedBy'[<<x, y>>], RemainingIn(x, {y})')
             /\ IsTotal(consumedBy'[<<x, y>>], ConsumedIn(x, {y})')
  BY <1>4, <1>5
<1> QED
  BY ONLY <1>6 DEF Balanced

\* A rewritten record accounts for every step.
LEMMA BalancedStep == TypeOK /\ Balanced /\ [Next]_vars => Balanced'
<1> SUFFICES ASSUME TypeOK, Balanced, [Next]_vars PROVE Balanced'
  OBVIOUS
<1>1. ASSUME NEW r \in Reservations, NEW b \in Budgets, NEW c \in Categories,
             NEW n \in Amounts, Reserve(r, b, c, n)
      PROVE  Balanced'
  <2> DEFINE new == [budget |-> b, category |-> c, original |-> n, remaining |-> n,
                     consumed |-> 0, state |-> "reserved"]
  <2>1. n \in Nat /\ n \in Int /\ 0 \in Int
    OBVIOUS
  <2>2. new \in Record
    BY <2>1 DEF Record, States
  <2>3. /\ new.budget = b /\ new.category = c /\ new.remaining = n /\ new.consumed = 0
        /\ record[r] = None /\ record' = [record EXCEPT ![r] = new] /\ Move(b, c, n, 0)
    BY <1>1 DEF Reserve
  <2> HIDE DEF new
  <2>4. Rewrites(r, new, n, 0)
    BY <2>2, <2>3 DEF Rewrites
  <2> QED
    BY <2>1, <2>4, RewriteBalances
<1>2. ASSUME NEW r \in Reservations, NEW u \in UsageIds, NEW n \in Amounts, Consume(r, u, n)
      PROVE  Balanced'
  <2> DEFINE new == Consumed(record[r], n)
  <2>1. /\ record[r] # None /\ n <= record[r].remaining
        /\ record' = [record EXCEPT ![r] = new]
        /\ Move(record[r].budget, record[r].category, -n, n)
    BY <1>2 DEF Consume, Covers
  <2>2. /\ record[r].remaining \in Nat /\ record[r].consumed \in Nat /\ n \in Nat
        /\ record[r] \in Record
    BY <2>1, RecordType
  <2>3. record[r].remaining - n \in Nat /\ record[r].consumed + n \in Nat /\ -n \in Int /\ n \in Int
    BY ONLY <2>1, <2>2
  <2>4. /\ new \in Record /\ new.budget = record[r].budget /\ new.category = record[r].category
        /\ new.remaining = record[r].remaining - n /\ new.consumed = record[r].consumed + n
    BY <2>2, <2>3 DEF Consumed, Record, States
  <2> HIDE DEF new
  <2>6. new.remaining = record[r].remaining + (-n)
    BY ONLY <2>2, <2>4
  <2>5. Rewrites(r, new, -n, n)
    BY <2>1, <2>4, <2>6 DEF Rewrites
  <2> QED
    BY <2>3, <2>5, RewriteBalances
<1>3. ASSUME NEW r \in Reservations, NEW actual \in Actuals, Reconcile(r, actual) PROVE Balanced'
  <2> DEFINE new == [record[r] EXCEPT !.remaining = 0, !.consumed = actual, !.state = "reconciled"]
             outstanding == actual - record[r].consumed
             rem == record[r].remaining
  <2>1. /\ record[r] # None /\ record' = [record EXCEPT ![r] = new]
        /\ Move(record[r].budget, record[r].category, -rem, outstanding)
    BY <1>3 DEF Reconcile
  <2>2. rem \in Nat /\ record[r].consumed \in Nat /\ actual \in Nat /\ record[r] \in Record
    BY <2>1, RecordType
  <2>3. /\ new \in Record /\ new.budget = record[r].budget /\ new.category = record[r].category
        /\ new.remaining = 0 /\ new.consumed = actual
    BY <2>2 DEF Record, States
  <2> HIDE DEF new
  <2>4. -rem \in Int /\ outstanding \in Int /\ 0 = rem + (-rem) /\ actual = record[r].consumed + outstanding
    BY <2>2
  <2> HIDE DEF outstanding
  <2>5. Rewrites(r, new, -rem, outstanding)
    BY <2>1, <2>3, <2>4 DEF Rewrites
  <2> HIDE DEF rem
  <2> QED
    BY <2>4, <2>5, RewriteBalances
<1>4. ASSUME NEW r \in Reservations, NEW n \in Amounts \union {0}, Release(r, n) PROVE Balanced'
  <2> DEFINE new == [record[r] EXCEPT !.remaining = @ - n,
                          !.state = IF record[r].remaining = n THEN "released" ELSE @]
  <2>1. /\ record[r] # None /\ n <= record[r].remaining
        /\ record' = [record EXCEPT ![r] = new]
        /\ Move(record[r].budget, record[r].category, -n, 0)
    BY <1>4 DEF Release, Covers
  <2>2. /\ record[r].remaining \in Nat /\ record[r].consumed \in Nat /\ n \in Nat
        /\ record[r] \in Record
    BY <2>1, RecordType
  <2>3. record[r].remaining - n \in Nat /\ -n \in Int /\ 0 \in Int
    BY ONLY <2>1, <2>2
  <2>4. /\ new \in Record /\ new.budget = record[r].budget /\ new.category = record[r].category
        /\ new.remaining = record[r].remaining - n /\ new.consumed = record[r].consumed
    BY <2>2, <2>3 DEF Record, States
  <2> HIDE DEF new
  <2>6. new.remaining = record[r].remaining + (-n) /\ new.consumed = record[r].consumed + 0
    BY ONLY <2>2, <2>4
  <2>5. Rewrites(r, new, -n, 0)
    BY <2>1, <2>4, <2>6 DEF Rewrites
  <2> QED
    BY <2>3, <2>5, RewriteBalances
<1>5. CASE UNCHANGED vars
  <2>1. UNCHANGED <<record, reserved, consumed, reservedBy, consumedBy>>
    BY <1>5 DEF vars, totals
  <2>2. \A x, Cs : UNCHANGED <<RemainingIn(x, Cs), ConsumedIn(x, Cs)>>
    BY ONLY <2>1 DEF RemainingIn, ConsumedIn
  <2> QED BY <2>1, <2>2 DEF Balanced
<1> QED
  BY <1>1, <1>2, <1>3, <1>4, <1>5 DEF Next

-----------------------------------------------------------------------------
(* Usage.                                                                  *)

\* What a reservation consumed, which is nothing before it is made.
Spent(r) == IF record[r] = None THEN 0 ELSE record[r].consumed

Closed(r) ==
    record[r] # None /\ record[r].remaining = 0 /\ record[r].state \in {"reconciled", "released"}

\* n units of usage are accounted for: all that a reservation consumed, or less when
\* records were replaced or the reservation settled.
Accounts(r, n) ==
    /\ n \in 0 .. Spent(r)
    /\ IsTotal(n, UsedBy(r))
    /\ n = Spent(r) \/ r \in replaced \/ Closed(r)

UsageInv == \A r \in Reservations : \E n \in Nat : Accounts(r, n)

\* A step that keeps the usage records of x, and adds nothing less to what it consumed.
LEMMA KeepsUsage ==
    ASSUME NEW x \in Reservations, NEW n \in Nat, Accounts(x, n), Spent(x)' \in Nat,
           UsedBy(x)' = UsedBy(x), replaced \subseteq replaced',
           \/ Spent(x)' = Spent(x) /\ (Closed(x) => Closed(x)')
           \/ Closed(x)' /\ Spent(x) <= Spent(x)' /\ Spent(x) \in Nat
    PROVE  Accounts(x, n)'
  BY DEF Accounts

\* A reservation that is not touched.
LEMMA OtherUsage ==
    ASSUME TypeOK, NEW r \in Reservations, NEW new \in Record \union {None},
           record' = [record EXCEPT ![r] = new], replaced \subseteq replaced',
           NEW x \in Reservations, x # r, UsedBy(x)' = UsedBy(x), NEW n \in Nat, Accounts(x, n)
    PROVE  Accounts(x, n)'
<1>1. record'[x] = record[x]
  BY DEF TypeOK
<1>2. Spent(x)' = Spent(x) /\ Closed(x)' = Closed(x)
  BY <1>1 DEF Spent, Closed
<1>3. Spent(x) \in Nat
  BY RecordType DEF Spent
<1> QED BY <1>2, <1>3, KeepsUsage

\* What a use does to the records of its reservation and of the one, if any, whose
\* record it replaces.
LEMMA ConsumeUsage ==
    ASSUME TypeOK, UsageInv, NEW r \in Reservations, NEW u \in UsageIds, NEW k \in Amounts,
           Consume(r, u, k)
    PROVE  UsageInv'
<1> DEFINE used == [reservation |-> r, amount |-> k]
           new == Consumed(record[r], k)
<1>1. /\ record[r] # None /\ k <= record[r].remaining
      /\ record' = [record EXCEPT ![r] = new]
      /\ usage' = [usage EXCEPT ![u] = used]
      /\ replaced' = replaced \union {q \in Reservations : usage[u] # None /\ usage[u].reservation = q}
  BY DEF Consume, Covers
<1>2. /\ record[r] \in Record /\ record[r].remaining \in Nat /\ k \in Nat \ {0}
      /\ record[r].consumed \in Nat
  BY <1>1, RecordType
<1>3. record[r].remaining # 0 /\ record[r].remaining - k \in Nat /\ record[r].consumed + k \in Nat
  BY ONLY <1>1, <1>2
<1>4. new \in Record /\ new.consumed = record[r].consumed + k /\ new # None
  BY <1>2, <1>3, NoneIsNoRecord DEF Consumed, Record, States
<1>5. used \in Usage /\ used # None /\ used.reservation = r /\ used.amount = k
  BY NoneIsNoRecord DEF Usage
<1> HIDE DEF used, new
<1>6. UsedBy(r)' = [UsedBy(r) EXCEPT ![u] = k]
  BY <1>1, <1>5 DEF UsedBy, TypeOK
<1>7. ASSUME NEW x \in Reservations, x # r PROVE UsedBy(x)' = [UsedBy(x) EXCEPT ![u] = 0]
  BY <1>1, <1>5, <1>7 DEF UsedBy, TypeOK
<1>8. ASSUME NEW x \in Reservations
      PROVE  /\ UsedBy(x) \in [UsageIds -> Nat]
             /\ UsedBy(x)[u] = 0 \/ x \in replaced'
  <2>1. UsedBy(x) \in [UsageIds -> Nat]
    BY DEF UsedBy, TypeOK, Usage
  <2>2. UsedBy(x)[u] # 0 => usage[u] # None /\ usage[u].reservation = x
    BY DEF UsedBy
  <2> QED BY <1>1, <2>1, <2>2
<1>9. ASSUME NEW x \in Reservations PROVE \E n \in Nat : Accounts(x, n)'
  <2>1. PICK m \in Nat : Accounts(x, m)
    BY DEF UsageInv
  <2> DEFINE f == UsedBy(x)
  <2>2. IsTotal(m, f) /\ f \in [UsageIds -> Nat] /\ m <= Spent(x) /\ Spent(x) \in Nat
    BY <1>8, <2>1, RecordType DEF Accounts, Spent
  <2>3. f[u] = 0 \/ x \in replaced'
    BY <1>8
  <2> HIDE DEF f
  <2>4. CASE x = r
    <3>0. IsTotal(m - f[u] + k, [f EXCEPT ![u] = k])
      BY <1>2, <2>2, TotalChanges
    <3>1. PICK n \in Nat : n = m - f[u] + k /\ IsTotal(n, [f EXCEPT ![u] = k])
      BY <3>0, TotalType
    <3>2. f[u] \in Nat
      BY <2>2
    <3>3. Spent(x)' = Spent(x) + k /\ Spent(x) = record[r].consumed /\ ~Closed(x)
      <4>1. record'[r] = new
        BY <1>1 DEF TypeOK
      <4> QED BY <1>1, <1>3, <1>4, <2>4, <4>1 DEF Spent, Closed
    <3>4. n <= Spent(x)' /\ (n = Spent(x)' \/ x \in replaced')
      <4>1. m = Spent(x) \/ x \in replaced'
        BY <1>1, <2>1, <3>3 DEF Accounts
      <4> QED BY <1>2, <2>2, <2>3, <3>1, <3>2, <3>3, <4>1
    <3>5. IsTotal(n, UsedBy(x)')
      BY <1>6, <2>4, <3>1 DEF f
    <3>6. n \in 0 .. Spent(x)'
      BY <1>2, <2>2, <3>3, <3>4
    <3>7. Accounts(x, n)'
      BY <3>4, <3>5, <3>6 DEF Accounts
    <3> QED BY <3>7
  <2>5. CASE x # r
    <3>0. IsTotal(m - f[u] + 0, [f EXCEPT ![u] = 0])
      BY <2>2, TotalChanges
    <3>1. PICK n \in Nat : n = m - f[u] + 0 /\ IsTotal(n, [f EXCEPT ![u] = 0])
      BY <3>0, TotalType
    <3>2. f[u] \in Nat
      BY <2>2
    <3>3. Spent(x)' = Spent(x) /\ Closed(x)' = Closed(x)
      <4>1. record'[x] = record[x]
        BY <1>1, <2>5 DEF TypeOK
      <4> QED BY <4>1 DEF Spent, Closed
    <3>4. n = m \/ x \in replaced'
      BY <2>2, <2>3, <3>1, <3>2
    <3>5. IsTotal(n, UsedBy(x)')
      BY <1>7, <2>5, <3>1 DEF f
    <3>6. n \in 0 .. Spent(x)'
      BY <2>2, <3>1, <3>2, <3>3
    <3>7. Accounts(x, n)'
      BY <1>1, <2>1, <3>3, <3>4, <3>5, <3>6 DEF Accounts
    <3> QED BY <3>7
  <2> QED BY <2>4, <2>5
<1> QED BY <1>9 DEF UsageInv

\* No step makes usage records that were not consumed.
LEMMA UsageStep == TypeOK /\ UsageInv /\ [Next]_vars => UsageInv'
<1> SUFFICES ASSUME TypeOK, UsageInv, [Next]_vars PROVE UsageInv'
  OBVIOUS
\* A reservation is made, settled or released.
<1>0. ASSUME NEW r \in Reservations, NEW new \in Record, record' = [record EXCEPT ![r] = new],
             UNCHANGED <<usage, replaced>>, Spent(r) <= new.consumed,
             \/ new.consumed = Spent(r) /\ (Closed(r) => new.remaining = 0)
             \/ new.remaining = 0,
             (new.consumed = Spent(r) /\ ~Closed(r)) \/ new.state \in {"reconciled", "released"}
      PROVE  UsageInv'
  <2>1. ASSUME NEW x \in Reservations PROVE \E n \in Nat : Accounts(x, n)'
    <3>1. PICK n \in Nat : Accounts(x, n)
      BY DEF UsageInv
    <3>2. UsedBy(x)' = UsedBy(x) /\ replaced \subseteq replaced'
      BY <1>0 DEF UsedBy
    <3>3. CASE x # r
      BY <1>0, <3>1, <3>2, <3>3, OtherUsage
    <3>4. CASE x = r
      <4>1. record'[x] = new /\ new # None /\ new.consumed \in Nat
        BY <1>0, <3>4, NoneIsNoRecord DEF TypeOK, Record
      <4>2. Spent(x)' = new.consumed /\ Spent(x) \in Nat
        BY <4>1, RecordType DEF Spent
      <4>3. Closed(x)' <=> new.remaining = 0 /\ new.state \in {"reconciled", "released"}
        BY <4>1 DEF Closed
      <4> QED BY <1>0, <3>1, <3>2, <3>4, <4>1, <4>2, <4>3, KeepsUsage
    <3> QED BY <3>3, <3>4
  <2> QED BY <2>1 DEF UsageInv
<1>1. ASSUME NEW r \in Reservations, NEW b \in Budgets, NEW c \in Categories,
             NEW n \in Amounts, Reserve(r, b, c, n)
      PROVE  UsageInv'
  <2> DEFINE new == [budget |-> b, category |-> c, original |-> n, remaining |-> n,
                     consumed |-> 0, state |-> "reserved"]
  <2>1. record' = [record EXCEPT ![r] = new] /\ UNCHANGED <<usage, replaced>> /\ record[r] = None
    BY <1>1 DEF Reserve
  <2>2. new \in Record /\ new.consumed = 0
    BY DEF Record, States
  <2> HIDE DEF new
  <2>3. Spent(r) = 0 /\ ~Closed(r)
    BY <2>1 DEF Spent, Closed
  <2>4. Spent(r) <= new.consumed /\ new.consumed = Spent(r)
    BY <2>2, <2>3
  <2> QED BY <1>0, <2>1, <2>2, <2>3, <2>4
<1>2. ASSUME NEW r \in Reservations, NEW u \in UsageIds, NEW n \in Amounts, Consume(r, u, n)
      PROVE  UsageInv'
  BY <1>2, ConsumeUsage
<1>3. ASSUME NEW r \in Reservations, NEW actual \in Actuals, Reconcile(r, actual) PROVE UsageInv'
  <2> DEFINE new == [record[r] EXCEPT !.remaining = 0, !.consumed = actual, !.state = "reconciled"]
  <2>1. /\ record[r] # None /\ record' = [record EXCEPT ![r] = new] /\ UNCHANGED <<usage, replaced>>
        /\ actual - record[r].consumed >= 0
    BY <1>3 DEF Reconcile
  <2>2. record[r].consumed \in Nat /\ actual \in Nat /\ Spent(r) = record[r].consumed
    BY <2>1, RecordType DEF Spent
  <2>3. /\ new \in Record /\ new.remaining = 0 /\ new.state = "reconciled" /\ new.consumed = actual
    BY <2>1, RecordType DEF Record, States
  <2> HIDE DEF new
  <2>4. Spent(r) <= new.consumed
    BY <2>1, <2>2, <2>3
  <2> QED BY <1>0, <2>1, <2>3, <2>4
<1>4. ASSUME NEW r \in Reservations, NEW n \in Amounts \union {0}, Release(r, n) PROVE UsageInv'
  <2> DEFINE new == [record[r] EXCEPT !.remaining = @ - n,
                          !.state = IF record[r].remaining = n THEN "released" ELSE @]
  <2>1. /\ record[r] # None /\ n <= record[r].remaining
        /\ record' = [record EXCEPT ![r] = new] /\ UNCHANGED <<usage, replaced>>
    BY <1>4 DEF Release, Covers
  <2>2. /\ record[r].remaining \in Nat /\ n \in Nat /\ record[r] \in Record
        /\ record[r].consumed \in Nat /\ Spent(r) = record[r].consumed
    BY <2>1, RecordType DEF Spent
  <2>3. record[r].remaining - n \in Nat
    BY ONLY <2>1, <2>2
  <2>4. /\ new \in Record /\ new.consumed = record[r].consumed
        /\ new.remaining = record[r].remaining - n
        /\ new.state = IF record[r].remaining = n THEN "released" ELSE record[r].state
    BY <2>2, <2>3 DEF Record, States
  <2> HIDE DEF new
  <2>5. Closed(r) => new.remaining = 0 /\ new.state \in {"reconciled", "released"}
    <3> SUFFICES ASSUME Closed(r) PROVE new.remaining = 0 /\ new.state \in {"reconciled", "released"}
      OBVIOUS
    <3>1. record[r].remaining = 0 /\ n = 0
      BY <2>1, <2>2 DEF Closed
    <3> QED BY <2>4, <3>1
  <2>6. Spent(r) <= new.consumed /\ new.consumed = Spent(r)
    BY <2>2, <2>4
  <2> QED
    BY <1>0, <2>1, <2>4, <2>5, <2>6
<1>5. CASE UNCHANGED vars
  BY <1>5 DEF vars, UsageInv, Accounts, Spent, Closed, UsedBy
<1> QED
  BY <1>1, <1>2, <1>3, <1>4, <1>5 DEF Next

-----------------------------------------------------------------------------
(* Theorems.                                                               *)

\* Every initial state has the types, is within the limits and has no overrun.
LEMMA InvInit == Init => TypeOK /\ WithinLimits /\ OverrunsAreReported
  BY DEF Init, TypeOK, WithinLimits, OverrunsAreReported

\* The ledger stays well typed.
THEOREM TypeCorrect == Spec => []TypeOK
  BY InvInit, TypeStep, PTL DEF Spec

\* No sequence of calls commits more than the hard limit of a budget or of one of
\* its categories.
THEOREM WithinLimitsHolds == Spec => []WithinLimits
  BY TypeCorrect, InvInit, LimitsStep, PTL DEF Spec

\* A reservation that consumed more than it reserved was reported as an anomaly.
THEOREM OverrunsAreReportedHolds == Spec => []OverrunsAreReported
  BY TypeCorrect, InvInit, OverrunsStep, PTL DEF Spec

\* The totals of a budget and of its categories stay the sums over its reservations.
THEOREM BalancedHolds == Spec => []Balanced
<1>1. Init => Balanced
  <2> SUFFICES ASSUME Init PROVE Balanced
    OBVIOUS
  <2>1. ASSUME NEW b, NEW Cs
        PROVE  /\ RemainingIn(b, Cs) = [r \in Reservations |-> 0]
               /\ ConsumedIn(b, Cs) = [r \in Reservations |-> 0]
    BY DEF Init, RemainingIn, ConsumedIn
  <2>2. ASSUME NEW b, NEW Cs PROVE IsTotal(0, RemainingIn(b, Cs)) /\ IsTotal(0, ConsumedIn(b, Cs))
    BY <2>1, ZeroTotal
  <2> QED
    BY <2>2 DEF Init, Balanced
<1> QED
  BY <1>1, TypeCorrect, BalancedStep, PTL DEF Spec

\* The usage records of a reservation never exceed what it consumed, and add up to it
\* unless it was settled or one of its records was replaced.
THEOREM UsageAccountedHolds == Spec => []UsageAccounted
<1>1. Init => UsageInv
  <2> SUFFICES ASSUME Init PROVE UsageInv
    OBVIOUS
  <2>1. ASSUME NEW r \in Reservations PROVE Accounts(r, 0)
    <3>1. UsedBy(r) = [u \in UsageIds |-> 0]
      BY DEF Init, UsedBy
    <3>2. Spent(r) = 0
      BY DEF Init, Spent
    <3> QED BY <3>1, <3>2, ZeroTotal DEF Accounts
  <2> QED BY <2>1 DEF UsageInv
<1>2. TypeOK /\ UsageInv => UsageAccounted
  <2> SUFFICES ASSUME UsageInv, NEW r \in Reservations, record[r] # None
               PROVE  \E n \in 0 .. record[r].consumed :
                          /\ IsTotal(n, UsedBy(r))
                          /\ \/ n = record[r].consumed
                             \/ r \in replaced
                             \/ record[r].state \in {"reconciled", "released"}
    BY DEF UsageAccounted
  <2> QED BY DEF UsageInv, Accounts, Spent, Closed
<1> QED
  BY <1>1, <1>2, UsageStep, TypeCorrect, PTL DEF Spec
=============================================================================

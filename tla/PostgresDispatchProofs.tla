----------------------- MODULE PostgresDispatchProofs -----------------------
(***************************************************************************)
(* Proofs about PostgresDispatch, for all sets of calls, keys and          *)
(* aggregates, every list of emitted events and any number of faults.      *)
(* What a transaction relies on is protected by a lock that it holds until *)
(* it ends: its key row by the key lock, the versions of its aggregates by *)
(* their locks, the end of the stream by the lock of the stream.  CallInv  *)
(* says so for each place of a call.                                       *)
(***************************************************************************)
EXTENDS PostgresDispatch, FiniteSetTheorems, WellFoundedInduction, TLAPS

-----------------------------------------------------------------------------
(* Highest.                                                                *)

\* A finite, nonempty set of numbers has a greatest one.
LEMMA FiniteMax ==
  ASSUME NEW S \in SUBSET Nat, IsFiniteSet(S), S # {}
  PROVE  \E n \in S : \A m \in S : m <= n
<1> DEFINE HasMax(T) == \E n \in T : \A m \in T : m <= n
           Bad == {T \in FiniteSubsetsOf(S) : T # {} /\ ~HasMax(T)}
<1> SUFFICES ASSUME ~HasMax(S) PROVE FALSE
  OBVIOUS
<1>1. FiniteSubsetsOf(S) = SUBSET S
  BY FS_FiniteSubsetsOfFinite
<1>2. S \in Bad /\ Bad \subseteq FiniteSubsetsOf(S)
  BY <1>1
<1>3. PICK T \in Bad : \A U \in Bad : ~(<<U, T>> \in StrictSubsetOrdering(S))
  <2> HIDE DEF Bad
  <2> QED BY <1>2, WFMin, FS_StrictSubsetOrderingWellFounded
<1>4. T \subseteq S /\ T # {} /\ ~HasMax(T)
  BY <1>1, <1>3
<1>5. PICK x \in T : TRUE
  BY <1>4
<1>6. T \ {x} \notin Bad
  BY <1>1, <1>3, <1>4, <1>5 DEF StrictSubsetOrdering
<1>7. CASE T \ {x} = {}
  <2>1. \A m \in T : m = x
    BY <1>7
  <2>2. x \in Nat
    BY <1>4, <1>5
  <2> QED BY <1>4, <2>1, <2>2
<1>8. CASE HasMax(T \ {x})
  <2>1. PICK n \in T \ {x} : \A m \in T \ {x} : m <= n
    BY <1>8
  <2>2. x \in Nat /\ n \in Nat /\ T \subseteq Nat
    BY <1>4, <1>5, <2>1
  <2>3. CASE x <= n
    BY <1>4, <2>1, <2>3
  <2>4. CASE n <= x
    <3>1. \A m \in T : m <= x
      BY <2>1, <2>2, <2>4
    <3> QED BY <1>4, <1>5, <3>1
  <2> QED BY <2>2, <2>3, <2>4
<1> QED BY <1>1, <1>4, <1>6, <1>7, <1>8

LEMMA HighestIs ==
  ASSUME NEW S \in SUBSET Nat, IsFiniteSet(S)
  PROVE  /\ Highest(S) \in Nat
         /\ \A n \in S : n <= Highest(S)
         /\ S = {} => Highest(S) = 0
         /\ S # {} => Highest(S) \in S
<1>1. CASE S = {}
  BY <1>1 DEF Highest
<1>2. CASE S # {}
  BY <1>2, FiniteMax DEF Highest
<1> QED BY <1>1, <1>2

\* The image of a finite set is finite.
LEMMA FiniteImage ==
  ASSUME NEW S, IsFiniteSet(S), NEW f, DOMAIN f = S
  PROVE  IsFiniteSet({f[x] : x \in S})
<1> DEFINE T == {f[x] : x \in S}
           g == [x \in S |-> f[x]]
<1>1. g \in Surjection(S, T)
  BY DEF Surjection
<1> QED BY <1>1, FS_Surjection

-----------------------------------------------------------------------------
(* Events in order.                                                        *)

Of(S, a) == {f \in S : f.aggregate = a}
UpTo(S, e) == {f \in S : f.aggregate = e.aggregate /\ f.number <= e.number}

Ordered(S) ==
    /\ S \subseteq Event /\ IsFiniteSet(S)
    /\ \A e, f \in S : e.number = f.number => e = f
    /\ \A e \in S : e.version = Cardinality(UpTo(S, e))

\* The version of an aggregate is the number of its events.
LEMMA VersionIsCount ==
  ASSUME NEW S, Ordered(S), NEW a
  PROVE  Version(S, a) = Cardinality(Of(S, a)) /\ Cardinality(Of(S, a)) \in Nat
<1> DEFINE V == {e.version : e \in Of(S, a)}
           N == {e.number : e \in Of(S, a)}
<1>1. IsFiniteSet(Of(S, a)) /\ Cardinality(Of(S, a)) \in Nat
  <2>1. Of(S, a) \in SUBSET S
    BY DEF Of
  <2> QED BY <2>1, FS_Subset, FS_CardinalityType DEF Ordered
<1>2. Version(S, a) = Highest(V)
  BY DEF Version, Of
<1>3. \A e \in Of(S, a) : e \in S /\ e.version \in Nat /\ e.number \in Nat
  BY DEF Ordered, Of, Event
<1>4. IsFiniteSet(V) /\ V \in SUBSET Nat
  <2> DEFINE f == [e \in Of(S, a) |-> e.version]
  <2>1. V = {f[e] : e \in Of(S, a)}
    OBVIOUS
  <2>2. DOMAIN f = Of(S, a)
    OBVIOUS
  <2> HIDE DEF f
  <2>3. IsFiniteSet(V)
    BY <1>1, <2>1, <2>2, FiniteImage
  <2> QED BY <1>3, <2>3
<1>5. IsFiniteSet(N) /\ N \in SUBSET Nat
  <2> DEFINE f == [e \in Of(S, a) |-> e.number]
  <2>1. N = {f[e] : e \in Of(S, a)}
    OBVIOUS
  <2>2. DOMAIN f = Of(S, a)
    OBVIOUS
  <2> HIDE DEF f
  <2>3. IsFiniteSet(N)
    BY <1>1, <2>1, <2>2, FiniteImage
  <2> QED BY <1>3, <2>3
<1>6. \A e \in Of(S, a) : e.version <= Cardinality(Of(S, a))
  <2> SUFFICES ASSUME NEW e \in Of(S, a) PROVE e.version <= Cardinality(Of(S, a))
    OBVIOUS
  <2>1. UpTo(S, e) \in SUBSET Of(S, a)
    BY DEF UpTo, Of
  <2>2. Cardinality(UpTo(S, e)) <= Cardinality(Of(S, a))
    BY <1>1, <2>1, FS_Subset
  <2> QED BY <1>3, <2>2 DEF Ordered
<1>7. CASE Of(S, a) = {}
  BY <1>1, <1>2, <1>4, <1>7, HighestIs, FS_EmptySet
<1>8. CASE Of(S, a) # {}
  <2>1. PICK e \in Of(S, a) : \A f \in Of(S, a) : f.number <= e.number
    <3>1. PICK n \in N : \A m \in N : m <= n
      BY <1>5, <1>8, FiniteMax
    <3> QED BY <3>1
  <2>2. UpTo(S, e) = Of(S, a)
    BY <2>1 DEF UpTo, Of
  <2>3. e.version = Cardinality(Of(S, a))
    BY <1>3, <2>2 DEF Ordered
  <2>4. Highest(V) \in V /\ Highest(V) \in Nat /\ \A n \in V : n <= Highest(V)
    <3>1. V # {}
      BY <1>8
    <3> HIDE DEF V
    <3> QED BY <1>4, <3>1, HighestIs
  <2>5. Highest(V) <= Cardinality(Of(S, a)) /\ Cardinality(Of(S, a)) <= Highest(V)
    BY <1>6, <2>3, <2>4
  <2> QED BY <1>1, <1>2, <2>4, <2>5
<1> QED BY <1>1, <1>7, <1>8

\* An event with a higher number than all, and the next version of its
\* aggregate, keeps the order.
LEMMA OrderedGrows ==
  ASSUME NEW S, Ordered(S), NEW e \in Event,
         \A f \in S : f.number < e.number,
         e.version = Version(S, e.aggregate) + 1
  PROVE  Ordered(S \union {e})
<1> DEFINE T == S \union {e}
<1>1. \A f \in S : f.number \in Nat /\ f.number < e.number /\ e.number \in Nat
  BY DEF Ordered, Event
<1>2. e \notin S /\ T \subseteq Event /\ IsFiniteSet(T)
  BY <1>1, FS_AddElement DEF Ordered
<1>3. \A f, g \in T : f.number = g.number => f = g
  BY <1>1 DEF Ordered
<1>4. ASSUME NEW f \in S PROVE f.version = Cardinality(UpTo(T, f))
  <2>1. UpTo(T, f) = UpTo(S, f)
    BY <1>1 DEF UpTo
  <2> QED BY <2>1 DEF Ordered
<1>5. e.version = Cardinality(UpTo(T, e))
  <2>1. UpTo(T, e) = Of(S, e.aggregate) \union {e}
    <3>1. \A f \in S : f.number <= e.number
      BY <1>1
    <3>2. e.number <= e.number
      BY DEF Event
    <3> QED BY <3>1, <3>2 DEF UpTo, Of
  <2>2. IsFiniteSet(Of(S, e.aggregate)) /\ e \notin Of(S, e.aggregate)
    BY <1>2, FS_Subset DEF Ordered, Of
  <2>3. Cardinality(UpTo(T, e)) = Cardinality(Of(S, e.aggregate)) + 1
    BY <2>1, <2>2, FS_AddElement
  <2> QED BY <2>3, VersionIsCount
<1> QED BY <1>2, <1>3, <1>4, <1>5 DEF Ordered

-----------------------------------------------------------------------------
(* The invariant.                                                          *)

Writing == {"handling", "appending", "numbering"}
Mine(c) == {wrote[c][i] : i \in DOMAIN wrote[c]}
Pending(c) == Len(wrote[c]) < Len(Emits[Key(c)])

\* What the locks of a call protect at the place where it is.
CallInv(c) ==
    /\ pc[c] \notin {"idle", "answering"} => request[c] \in Requests
    /\ pc[c] \notin {"appending", "numbering"} => wrote[c] = << >>
    /\ pc[c] \in {"appending", "numbering"} => seen[c] \in [Aggregates -> Nat]
    /\ pc[c] \in Writing => keyLock[Key(c)] = c /\ Row(c) \in {None, request[c].body}
    /\ pc[c] = "numbering" =>
           /\ Pending(c) /\ aggregateLock[NextAggregate(c)] = c
           /\ Version(Visible(c), NextAggregate(c)) = Declared(c) - 1
    /\ wrote[c] # << >> => streamLock = c
    /\ \A e \in Mine(c) :
           /\ e.key = Key(c) /\ e.body = request[c].body
           /\ aggregateLock[e.aggregate] = c
           /\ \A f \in events : f.number < e.number
    /\ Ordered(Visible(c))

StoreInv == Ordered(events) /\ OneRequestPerKey

IInv == TypeOK /\ StoreInv /\ \A c \in Calls : CallInv(c)

CallStep(c) == Dispatch(c) \/ DispatchStep(c) \/ Fail(c) \/ DeadlockVictim(c)

LEMMA InitInv == Init => IInv
<1> SUFFICES ASSUME Init PROVE IInv
  OBVIOUS
<1>1. TypeOK
  BY PostgresAssumption DEF Init, TypeOK, Statements
<1>2. Ordered(events)
  BY FS_EmptySet DEF Init, Ordered
<1>3. OneRequestPerKey
  BY DEF Init, OneRequestPerKey
<1>4. ASSUME NEW c \in Calls PROVE CallInv(c)
  <2>1. wrote[c] = << >> /\ pc[c] = "idle"
    BY DEF Init
  <2>2. Mine(c) = {} /\ Visible(c) = events
    BY <2>1 DEF Mine, Visible
  <2> QED BY <1>2, <2>1, <2>2 DEF CallInv, Writing
<1> QED BY <1>1, <1>2, <1>3, <1>4 DEF IInv, StoreInv

-----------------------------------------------------------------------------
(* The event that a call inserts.                                          *)

LEMMA DeclaredType ==
  ASSUME TypeOK, NEW c \in Calls, request[c] \in Requests, Pending(c),
         seen[c] \in [Aggregates -> Nat]
  PROVE  /\ Key(c) \in Keys /\ request[c].body \in Bodies
         /\ NextAggregate(c) \in Aggregates
         /\ Declared(c) \in Nat \ {0}
<1>1. Key(c) \in Keys /\ request[c].body \in Bodies
  BY PostgresAssumption DEF Key
<1>2. Emits[Key(c)] \in Seq(Aggregates) /\ wrote[c] \in Seq(Event)
  BY <1>1, PostgresAssumption DEF TypeOK
<1>3. NextAggregate(c) \in Aggregates
  <2>1. Len(wrote[c]) + 1 \in 1 .. Len(Emits[Key(c)])
    BY <1>2 DEF Pending
  <2> QED BY <1>2, <2>1 DEF NextAggregate
<1> DEFINE Own == {i \in DOMAIN wrote[c] : wrote[c][i].aggregate = NextAggregate(c)}
<1>4. Cardinality(Own) \in Nat
  <2>1. IsFiniteSet(1 .. Len(wrote[c])) /\ DOMAIN wrote[c] = 1 .. Len(wrote[c])
    BY <1>2, FS_Interval
  <2>2. Own \in SUBSET (1 .. Len(wrote[c]))
    BY <2>1
  <2> QED BY <2>1, <2>2, FS_Subset, FS_CardinalityType
<1> HIDE DEF Own
<1>5. Declared(c) = seen[c][NextAggregate(c)] + 1 + Cardinality(Own)
  BY DEF Declared, Own
<1> QED BY <1>1, <1>3, <1>4, <1>5

LEMMA InsertedEvent ==
  ASSUME TypeOK, NEW c \in Calls, CallInv(c), InsertEvent(c)
  PROVE  \E e \in Event :
             /\ wrote' = [wrote EXCEPT ![c] = Append(@, e)]
             /\ Mine(c)' = Mine(c) \union {e}
             /\ e.key = Key(c) /\ e.body = request[c].body
             /\ e.aggregate = NextAggregate(c)
             /\ e.version = Version(Visible(c), e.aggregate) + 1
             /\ \A f \in Visible(c) : f.number < e.number
<1> DEFINE N == {f.number : f \in Visible(c)}
           e == [number |-> Highest(N) + 1,
                 aggregate |-> NextAggregate(c), version |-> Declared(c),
                 key |-> Key(c), body |-> request[c].body]
<1>1. /\ Key(c) \in Keys /\ request[c].body \in Bodies
      /\ NextAggregate(c) \in Aggregates /\ Declared(c) \in Nat \ {0}
  BY DeclaredType DEF InsertEvent, CallInv
<1>2. /\ Highest(N) \in Nat /\ \A n \in N : n <= Highest(N)
      /\ N \subseteq Nat
  <2> DEFINE g == [f \in Visible(c) |-> f.number]
  <2>1. N = {g[f] : f \in Visible(c)} /\ DOMAIN g = Visible(c)
    OBVIOUS
  <2>2. IsFiniteSet(Visible(c)) /\ \A f \in Visible(c) : f.number \in Nat
    BY DEF CallInv, Ordered, Event
  <2> HIDE DEF g
  <2>3. IsFiniteSet(N)
    BY <2>1, <2>2, FiniteImage
  <2>4. N \in SUBSET Nat
    BY <2>2
  <2> HIDE DEF N
  <2> QED BY <2>3, <2>4, HighestIs
<1>3. \A f \in Visible(c) : f.number < Highest(N) + 1
  <2>1. \A f \in Visible(c) : f.number \in N
    OBVIOUS
  <2> HIDE DEF N
  <2> SUFFICES ASSUME NEW f \in Visible(c) PROVE f.number < Highest(N) + 1
    OBVIOUS
  <2>2. f.number \in Nat /\ f.number <= Highest(N) /\ Highest(N) \in Nat
    BY <1>2, <2>1
  <2> QED BY <2>2
<1>4. wrote' = [wrote EXCEPT ![c] = Append(@, e)]
  BY DEF InsertEvent
<1>5. e \in Event
  BY <1>1, <1>2 DEF Event
<1>6. /\ e.key = Key(c) /\ e.body = request[c].body /\ e.aggregate = NextAggregate(c)
      /\ e.number = Highest(N) + 1 /\ e.version = Declared(c)
  OBVIOUS
<1> HIDE DEF e
<1>7. Mine(c)' = Mine(c) \union {e}
  <2>1. wrote[c] \in Seq(Event) /\ wrote'[c] = Append(wrote[c], e)
    BY <1>4 DEF TypeOK
  <2>2. /\ DOMAIN wrote'[c] = DOMAIN wrote[c] \union {Len(wrote[c]) + 1}
        /\ \A i \in DOMAIN wrote[c] : wrote'[c][i] = wrote[c][i]
        /\ wrote'[c][Len(wrote[c]) + 1] = e
    BY <1>5, <2>1
  <2> QED BY <2>2 DEF Mine
<1>8. e.version = Version(Visible(c), e.aggregate) + 1
  <2>1. Version(Visible(c), NextAggregate(c)) = Declared(c) - 1
    BY DEF CallInv, InsertEvent
  <2> QED BY <1>1, <1>6, <2>1
<1> QED BY <1>3, <1>4, <1>5, <1>6, <1>7, <1>8

-----------------------------------------------------------------------------
(* Types.                                                                  *)

LEMMA UnlockType ==
  ASSUME TypeOK, NEW c \in Calls, Unlock(c)
  PROVE  /\ keyLock' \in [Keys -> Calls \union {None}]
         /\ aggregateLock' \in [Aggregates -> Calls \union {None}]
         /\ streamLock' \in Calls \union {None}
BY DEF TypeOK, Unlock, Released

LEMMA ForgetType ==
  ASSUME TypeOK, NEW c \in Calls, Forget(c)
  PROVE  /\ request' \in [Calls -> Requests \union {None}]
         /\ seen' \in [Calls -> [Aggregates -> Nat] \union {None}]
         /\ wrote' \in [Calls -> Seq(Event)]
BY DEF TypeOK, Forget

LEMMA RollbackType ==
  ASSUME TypeOK, NEW c \in Calls, Rollback(c), faults' \in Nat
  PROVE  TypeOK'
<1>1. pc' \in [Calls -> Statements] /\ UNCHANGED tables
  BY DEF TypeOK, Rollback, Goto, Statements
<1> QED BY <1>1, UnlockType, ForgetType DEF TypeOK, Rollback, tables

LEMMA TypeStep ==
  ASSUME IInv, NEW c \in Calls, CallStep(c)
  PROVE  TypeOK'
<1> USE PostgresAssumption
<1>0. TypeOK /\ CallInv(c) /\ Ordered(events)
  BY DEF IInv, StoreInv
<1>a. faults \in Nat
  BY <1>0 DEF TypeOK
<1>b. ASSUME NEW l \in Statements, Goto(c, l) PROVE pc' \in [Calls -> Statements]
  BY <1>0, <1>b DEF TypeOK, Goto
<1>1. CASE Dispatch(c)
  <2>1. pc' \in [Calls -> Statements]
    BY <1>1, <1>b DEF Dispatch, Statements
  <2>2. request' \in [Calls -> Requests \union {None}]
    BY <1>0, <1>1 DEF TypeOK, Dispatch
  <2> QED BY <1>0, <1>1, <2>1, <2>2 DEF TypeOK, Dispatch, tables, locks
<1>2. CASE Look(c)
  <2>1. CASE Goto(c, "selecting") /\ UNCHANGED <<locks, locals>>
    <3>1. pc' \in [Calls -> Statements]
      BY <2>1, <1>b DEF Statements
    <3> QED BY <1>0, <1>2, <2>1, <3>1 DEF TypeOK, Look, tables, locks, locals
  <2>2. CASE Goto(c, "answering") /\ Forget(c) /\ UNCHANGED locks
    <3>1. pc' \in [Calls -> Statements]
      BY <2>2, <1>b DEF Statements
    <3> QED BY <1>0, <1>2, <2>2, <3>1, ForgetType DEF TypeOK, Look, tables, locks
  <2>3. CASE Rollback(c)
    BY <1>0, <1>2, <1>a, <2>3, RollbackType DEF Look
  <2> QED BY <1>2, <2>1, <2>2, <2>3 DEF Look
<1>3. CASE Select(c)
  <2>1. CASE Rollback(c)
    BY <1>0, <1>3, <1>a, <2>1, RollbackType DEF Select
  <2>2. CASE ~Rollback(c)
    <3>1. pc' \in [Calls -> Statements]
      BY <1>3, <1>b, <2>2 DEF Select, Statements
    <3>2. keyLock' \in [Keys -> Calls \union {None}]
      BY <1>0, <1>3, <2>2 DEF TypeOK, Select, locks
    <3> QED BY <1>0, <1>3, <2>2, <3>1, <3>2 DEF TypeOK, Select, tables, locks, locals
  <2> QED BY <2>1, <2>2
<1>4. CASE Insert(c)
  <2>1. CASE Rollback(c)
    BY <1>0, <1>4, <1>a, <2>1, RollbackType DEF Insert
  <2>2. CASE ~Rollback(c)
    <3>1. pc' \in [Calls -> Statements]
      BY <1>4, <1>b, <2>2 DEF Insert, Statements
    <3>2. keyLock' \in [Keys -> Calls \union {None}]
      BY <1>0, <1>4, <2>2 DEF TypeOK, Insert
    <3> QED BY <1>0, <1>4, <2>2, <3>1, <3>2 DEF TypeOK, Insert, tables, locals
  <2> QED BY <2>1, <2>2
<1>5. CASE Handle(c)
  <2>1. [a \in Aggregates |-> Version(events, a)] \in [Aggregates -> Nat]
    BY <1>0, VersionIsCount
  <2>2. seen' \in [Calls -> [Aggregates -> Nat] \union {None}] /\ pc' \in [Calls -> Statements]
    BY <1>0, <1>5, <1>b, <2>1 DEF TypeOK, Handle, Statements
  <2> QED BY <1>0, <1>5, <2>2 DEF TypeOK, Handle, tables, locks
<1>6. CASE LockAggregate(c)
  <2>1. CASE Rollback(c)
    BY <1>0, <1>6, <1>a, <2>1, RollbackType DEF LockAggregate
  <2>2. CASE ~Rollback(c)
    <3>0. /\ aggregateLock' = [aggregateLock EXCEPT ![NextAggregate(c)] = c]
          /\ Goto(c, "numbering") /\ "numbering" \in Statements
          /\ UNCHANGED <<keyLock, streamLock, locals, tables, faults>>
      BY <1>6, <2>2 DEF LockAggregate, Statements
    <3>1. /\ pc' \in [Calls -> Statements]
          /\ aggregateLock' \in [Aggregates -> Calls \union {None}]
      BY <1>0, <1>b, <3>0 DEF TypeOK
    <3> QED BY <1>0, <3>0, <3>1 DEF TypeOK, tables, locals
  <2> QED BY <2>1, <2>2
<1>7. CASE InsertEvent(c)
  <2>1. PICK e \in Event : wrote' = [wrote EXCEPT ![c] = Append(@, e)]
    BY <1>0, <1>7, InsertedEvent
  <2>2. wrote[c] \in Seq(Event) /\ Append(wrote[c], e) \in Seq(Event)
    BY <1>0 DEF TypeOK
  <2>3. wrote' \in [Calls -> Seq(Event)]
    BY <1>0, <2>1, <2>2 DEF TypeOK
  <2>4. pc' \in [Calls -> Statements] /\ streamLock' = c
    BY <1>7, <1>b DEF InsertEvent, Statements
  <2> QED BY <1>0, <1>7, <2>3, <2>4 DEF TypeOK, InsertEvent, tables
<1>8. CASE Commit(c)
  <2>1. request[c] \in Requests
    BY <1>0, <1>8 DEF Commit, CallInv
  <2>2. commands' \in [Keys -> Bodies \union {None}] /\ pc' \in [Calls -> Statements]
    BY <1>0, <1>8, <1>b, <2>1 DEF TypeOK, Commit, Statements
  <2>3. events' \subseteq Event
    BY <1>0, <1>8 DEF Commit, CallInv, Ordered
  <2> QED BY <1>0, <1>8, <2>2, <2>3, UnlockType, ForgetType DEF TypeOK, Commit
<1>9. CASE Answer(c)
  <2>1. pc' \in [Calls -> Statements]
    BY <1>9, <1>b DEF Answer, Statements
  <2> QED BY <1>0, <1>9, <2>1 DEF TypeOK, Answer, tables, locks, locals
<1>10. CASE Fail(c)
  BY <1>0, <1>10, <1>a, RollbackType DEF Fail
<1>11. CASE DeadlockVictim(c)
  BY <1>0, <1>11, <1>a, RollbackType DEF DeadlockVictim
<1> QED BY <1>1, <1>2, <1>3, <1>4, <1>5, <1>6, <1>7, <1>8, <1>9, <1>10, <1>11
        DEF CallStep, DispatchStep

-----------------------------------------------------------------------------
(* A step of one call, seen from another.                                  *)

\* The locals of the call are as they were, and it has the locks that it had.
Undisturbed(d) ==
    /\ pc'[d] = pc[d] /\ request'[d] = request[d]
    /\ seen'[d] = seen[d] /\ wrote'[d] = wrote[d]
    /\ \A k \in Keys : keyLock[k] = d => keyLock'[k] = d
    /\ \A a \in Aggregates : aggregateLock[a] = d => aggregateLock'[a] = d
    /\ streamLock = d => streamLock' = d

LEMMA LockIsFree ==
  ASSUME TypeOK, NEW c \in Calls, Granted(c)
  PROVE  /\ pc[c] = "selecting" /\ Row(c) # None => keyLock[Key(c)] \in {None, c}
         /\ pc[c] = "inserting" /\ Row(c) = None => keyLock[Key(c)] \in {None, c}
         /\ pc[c] = "appending" /\ Pending(c) => aggregateLock[NextAggregate(c)] \in {None, c}
         /\ pc[c] = "numbering" => streamLock \in {None, c}
BY PostgresAssumption DEF Granted, WaitsFor, Holder, Pending

LEMMA OthersUndisturbed ==
  ASSUME TypeOK, NEW c \in Calls, CallStep(c), NEW d \in Calls \ {c}
  PROVE  Undisturbed(d)
<1> USE PostgresAssumption DEF Undisturbed, TypeOK
<1>a. ASSUME Unlock(c)
      PROVE  /\ \A k \in Keys : keyLock[k] = d => keyLock'[k] = d
             /\ \A a \in Aggregates : aggregateLock[a] = d => aggregateLock'[a] = d
             /\ streamLock = d => streamLock' = d
  BY <1>a DEF Unlock, Released
<1>b. ASSUME Forget(c)
      PROVE  request'[d] = request[d] /\ seen'[d] = seen[d] /\ wrote'[d] = wrote[d]
  BY <1>b DEF Forget
<1>c. ASSUME NEW l, Goto(c, l) PROVE pc'[d] = pc[d]
  BY <1>c DEF Goto
<1>d. ASSUME Rollback(c) PROVE Undisturbed(d)
  BY <1>a, <1>b, <1>c, <1>d DEF Rollback
<1>1. CASE Dispatch(c)
  BY <1>1, <1>c DEF Dispatch, locks
<1>2. CASE Look(c)
  <2>1. CASE Goto(c, "selecting") /\ UNCHANGED <<locks, locals>>
    BY <1>c, <2>1 DEF locks, locals
  <2>2. CASE Goto(c, "answering") /\ Forget(c) /\ UNCHANGED locks
    BY <1>b, <1>c, <2>2 DEF locks
  <2> QED BY <1>2, <1>d, <2>1, <2>2 DEF Look
<1>3. CASE Select(c)
  <2>1. CASE Goto(c, "inserting") /\ UNCHANGED <<locks, locals>>
    BY <1>c, <2>1 DEF locks, locals
  <2>2. CASE /\ Row(c) # None /\ keyLock' = [keyLock EXCEPT ![Key(c)] = c]
             /\ Goto(c, "handling") /\ UNCHANGED <<aggregateLock, streamLock, locals>>
    <3>1. keyLock[Key(c)] # d
      BY <1>3, <2>2, LockIsFree DEF Select
    <3> QED BY <1>c, <2>2, <3>1 DEF locals
  <2> QED BY <1>3, <1>d, <2>1, <2>2 DEF Select
<1>4. CASE Insert(c)
  <2>1. CASE /\ Row(c) = None /\ keyLock' = [keyLock EXCEPT ![Key(c)] = c]
             /\ Goto(c, "handling") /\ UNCHANGED <<aggregateLock, streamLock, locals>>
    <3>1. keyLock[Key(c)] # d
      BY <1>4, <2>1, LockIsFree DEF Insert
    <3> QED BY <1>c, <2>1, <3>1 DEF locals
  <2> QED BY <1>4, <1>d, <2>1 DEF Insert
<1>5. CASE Handle(c)
  BY <1>5, <1>c DEF Handle, locks
<1>6. CASE LockAggregate(c)
  <2>1. CASE /\ aggregateLock' = [aggregateLock EXCEPT ![NextAggregate(c)] = c]
             /\ Goto(c, "numbering") /\ UNCHANGED <<keyLock, streamLock, locals>>
    <3>1. aggregateLock[NextAggregate(c)] # d
      BY <1>6, LockIsFree DEF LockAggregate, Pending
    <3> QED BY <1>c, <2>1, <3>1 DEF locals
  <2> QED BY <1>6, <1>d, <2>1 DEF LockAggregate
<1>7. CASE InsertEvent(c)
  <2>1. streamLock # d
    BY <1>7, LockIsFree DEF InsertEvent
  <2>2. wrote'[d] = wrote[d] /\ pc'[d] = pc[d]
    BY <1>7, <1>c DEF InsertEvent
  <2> QED BY <1>7, <2>1, <2>2 DEF InsertEvent
<1>8. CASE Commit(c)
  BY <1>8, <1>a, <1>b, <1>c DEF Commit
<1>9. CASE Answer(c)
  BY <1>9, <1>c DEF Answer, locks, locals
<1>10. CASE Fail(c) \/ DeadlockVictim(c)
  BY <1>10, <1>d DEF Fail, DeadlockVictim
<1> QED BY <1>1, <1>2, <1>3, <1>4, <1>5, <1>6, <1>7, <1>8, <1>9, <1>10
        DEF CallStep, DispatchStep

\* The tables change when a call commits, and only then.
LEMMA OnlyCommitWrites ==
  ASSUME NEW c \in Calls, CallStep(c)
  PROVE  UNCHANGED tables \/ Commit(c)
BY DEF CallStep, DispatchStep, Dispatch, Look, Select, Insert, Handle, LockAggregate, InsertEvent,
       Answer, Fail, DeadlockVictim, Rollback

\* While another call commits, what this one relies on stays.
LEMMA OthersKept ==
  ASSUME IInv, NEW c \in Calls, CallStep(c), NEW d \in Calls \ {c}
  PROVE  CallInv(d)'
<1> USE PostgresAssumption
<1>1. TypeOK /\ CallInv(c) /\ CallInv(d) /\ Undisturbed(d) /\ Ordered(events)
  BY OthersUndisturbed DEF IInv, StoreInv
<1>2. /\ pc'[d] = pc[d] /\ request'[d] = request[d]
      /\ seen'[d] = seen[d] /\ wrote'[d] = wrote[d]
      /\ Mine(d)' = Mine(d) /\ Key(d)' = Key(d)
      /\ Pending(d)' = Pending(d) /\ NextAggregate(d)' = NextAggregate(d)
      /\ Declared(d)' = Declared(d)
  BY <1>1 DEF Undisturbed, Mine, Key, Pending, NextAggregate, Declared
<1>3. pc[d] \in Writing => Key(d) \in Keys
  BY <1>1 DEF CallInv, Writing, Key
<1>4. Mine(d) \subseteq Event
  BY <1>1 DEF CallInv, Ordered, Visible, Mine
<1>5. \A e \in Mine(d) : aggregateLock'[e.aggregate] = d
  BY <1>1, <1>4 DEF CallInv, Undisturbed, Event
<1>6. pc[d] = "numbering" =>
          /\ NextAggregate(d) \in Aggregates
          /\ aggregateLock'[NextAggregate(d)] = d
  <2> SUFFICES ASSUME pc[d] = "numbering"
               PROVE  /\ NextAggregate(d) \in Aggregates
                      /\ aggregateLock'[NextAggregate(d)] = d
    OBVIOUS
  <2>1. NextAggregate(d) \in Aggregates
    BY <1>1, DeclaredType DEF CallInv
  <2> QED BY <1>1, <2>1 DEF CallInv, Undisturbed
<1>7. pc[d] \in Writing => keyLock'[Key(d)] = d
  BY <1>1, <1>3 DEF CallInv, Undisturbed
<1>8. wrote[d] # << >> => streamLock' = d
  BY <1>1 DEF CallInv, Undisturbed
<1>9. CASE UNCHANGED tables
  <2>1. Row(d)' = Row(d) /\ events' = events /\ Visible(d)' = Visible(d)
    BY <1>2, <1>9 DEF Row, Visible, tables, Key
  <2>2. Version(Visible(d), NextAggregate(d))' = Version(Visible(d), NextAggregate(d))
    BY <1>2, <2>1 DEF Version, Highest
  <2>3. Ordered(Visible(d))'
    BY <1>1, <2>1 DEF CallInv, Ordered, UpTo, Event
  <2> QED BY <1>1, <1>2, <1>5, <1>6, <1>7, <1>8, <2>1, <2>2, <2>3 DEF CallInv
<1>10. CASE Commit(c)
  <2>1. request[c] \in Requests /\ Key(c) \in Keys
    BY <1>1, <1>10 DEF CallInv, Commit, Key
  <2>2. pc[d] \in Writing => Row(d)' = Row(d)
    <3>1. keyLock[Key(c)] = c
      BY <1>1, <1>10 DEF CallInv, Commit, Writing
    <3>2. pc[d] \in Writing => Key(d) # Key(c)
      BY <1>1, <3>1 DEF CallInv
    <3> QED BY <1>1, <1>2, <1>3, <1>10, <2>1, <3>2 DEF Row, Commit, TypeOK
  <2>3. events' = events \union Mine(c)
    BY <1>10 DEF Commit, Visible, Mine
  <2>4. CASE wrote[d] # << >>
    <3>1. Mine(c) = {}
      BY <1>1, <2>4 DEF CallInv, Mine
    <3>2. events' = events /\ Visible(d)' = Visible(d)
      BY <1>2, <2>3, <3>1 DEF Visible
    <3>3. Version(Visible(d), NextAggregate(d))' = Version(Visible(d), NextAggregate(d))
      BY <1>2, <3>2 DEF Version, Highest
    <3>4. Ordered(Visible(d))'
      BY <1>1, <3>2 DEF CallInv, Ordered, UpTo, Event
    <3> QED BY <1>1, <1>2, <1>5, <1>6, <1>7, <1>8, <2>2, <3>2, <3>3, <3>4 DEF CallInv
  <2>5. CASE wrote[d] = << >>
    <3>1. Mine(d) = {} /\ Visible(d) = events /\ Visible(d)' = events'
      BY <1>2, <2>5 DEF Mine, Visible
    <3>2. Ordered(Visible(d))'
      BY <1>1, <1>10, <3>1 DEF CallInv, Commit, Ordered, UpTo, Event
    <3>3. pc[d] = "numbering" =>
              Version(Visible(d), NextAggregate(d))' = Version(Visible(d), NextAggregate(d))
      <4> SUFFICES ASSUME pc[d] = "numbering"
                   PROVE  Version(events', NextAggregate(d)) = Version(events, NextAggregate(d))
        <5>1. Version(Visible(d), NextAggregate(d))'
                  = Version(Visible(d)', NextAggregate(d)')
          BY DEF Version, Highest
        <5> QED BY <1>2, <3>1, <5>1
      <4>1. aggregateLock[NextAggregate(d)] = d
        BY <1>1 DEF CallInv
      <4>2. \A e \in Mine(c) : e.aggregate # NextAggregate(d)
        BY <1>1, <4>1 DEF CallInv
      <4>3. {f \in events' : f.aggregate = NextAggregate(d)}
                = {f \in events : f.aggregate = NextAggregate(d)}
        BY <2>3, <4>2
      <4> QED BY <4>3 DEF Version
    <3> QED BY <1>1, <1>2, <1>6, <1>7, <1>8, <2>2, <3>1, <3>2, <3>3 DEF CallInv
  <2> QED BY <2>4, <2>5
<1> QED BY <1>9, <1>10, OnlyCommitWrites

-----------------------------------------------------------------------------
(* A step of a call, seen from the call.                                   *)

\* A place where the call has written nothing asks for little.
LEMMA NothingWritten ==
  ASSUME NEW c \in Calls, Ordered(events)', wrote'[c] = << >>,
         pc'[c] \notin Writing \/ (pc'[c] = "handling" /\ keyLock'[Key(c)'] = c
                                      /\ Row(c)' \in {None, request'[c].body}),
         pc'[c] \notin {"idle", "answering"} => request'[c] \in Requests
  PROVE  CallInv(c)'
<1>1. Mine(c)' = {} /\ Visible(c)' = events'
  BY DEF Mine, Visible
<1>2. Ordered(Visible(c))'
  BY <1>1 DEF Ordered, UpTo, Event
<1> QED BY <1>1, <1>2 DEF CallInv, Writing

LEMMA ForgetsAll ==
  ASSUME TypeOK, NEW c \in Calls, Forget(c) PROVE wrote'[c] = << >>
BY DEF TypeOK, Forget

LEMMA RollbackKept ==
  ASSUME TypeOK, Ordered(events), NEW c \in Calls, Rollback(c)
  PROVE  CallInv(c)'
<1>1. wrote'[c] = << >> /\ pc'[c] = "idle" /\ Ordered(events)'
  BY ForgetsAll DEF TypeOK, Rollback, Goto, tables, Ordered, UpTo, Event
<1> QED BY <1>1, NothingWritten DEF Writing

LEMMA OwnKept ==
  ASSUME IInv, NEW c \in Calls, DispatchStep(c) \/ Dispatch(c)
  PROVE  CallInv(c)'
<1> USE PostgresAssumption
<1>0. TypeOK /\ CallInv(c) /\ Ordered(events)
  BY DEF IInv, StoreInv
<1>a. ASSUME NEW l, Goto(c, l) PROVE pc'[c] = l
  BY <1>0, <1>a DEF Goto, TypeOK
<1>b. ASSUME UNCHANGED events PROVE Ordered(events)'
  BY <1>0, <1>b DEF Ordered, UpTo, Event
<1>1. CASE Dispatch(c)
  <2>1. pc'[c] = "looking" /\ request'[c] \in Requests /\ wrote'[c] = << >> /\ UNCHANGED events
    BY <1>0, <1>1, <1>a DEF Dispatch, TypeOK, CallInv, tables
  <2> QED BY <1>b, <2>1, NothingWritten DEF Writing
<1>2. CASE Look(c)
  <2>1. CASE Goto(c, "selecting") /\ UNCHANGED <<locks, locals>>
    <3>1. pc'[c] = "selecting" /\ request'[c] \in Requests /\ wrote'[c] = << >>
          /\ UNCHANGED events
      BY <1>0, <1>2, <1>a, <2>1 DEF Look, CallInv, tables, locals
    <3> QED BY <1>b, <3>1, NothingWritten DEF Writing
  <2>2. CASE Goto(c, "answering") /\ Forget(c) /\ UNCHANGED locks
    <3>1. pc'[c] = "answering" /\ wrote'[c] = << >> /\ UNCHANGED events
      BY <1>0, <1>2, <1>a, <2>2, ForgetsAll DEF Look, tables
    <3> QED BY <1>b, <3>1, NothingWritten DEF Writing
  <2> QED BY <1>0, <1>2, <2>1, <2>2, RollbackKept DEF Look
<1>3. CASE Select(c)
  <2>1. CASE Goto(c, "inserting") /\ UNCHANGED <<locks, locals>>
    <3>1. pc'[c] = "inserting" /\ request'[c] \in Requests /\ wrote'[c] = << >>
          /\ UNCHANGED events
      BY <1>0, <1>3, <1>a, <2>1 DEF Select, CallInv, tables, locals
    <3> QED BY <1>b, <3>1, NothingWritten DEF Writing
  <2>2. CASE /\ Row(c) # None /\ SameRequest(c) /\ keyLock' = [keyLock EXCEPT ![Key(c)] = c]
             /\ Goto(c, "handling") /\ UNCHANGED <<aggregateLock, streamLock, locals>>
    <3>1. pc'[c] = "handling" /\ request'[c] = request[c] /\ request[c] \in Requests
          /\ wrote'[c] = << >> /\ UNCHANGED <<commands, events>>
      BY <1>0, <1>3, <1>a, <2>2 DEF Select, CallInv, tables, locals
    <3>2. keyLock'[Key(c)'] = c
      BY <1>0, <2>2, <3>1 DEF Key, TypeOK
    <3>3. Row(c)' \in {None, request'[c].body}
      BY <2>2, <3>1 DEF Row, Key, SameRequest
    <3> QED BY <1>b, <3>1, <3>2, <3>3, NothingWritten
  <2> QED BY <1>0, <1>3, <2>1, <2>2, RollbackKept DEF Select
<1>4. CASE Insert(c)
  <2>1. CASE /\ Row(c) = None /\ keyLock' = [keyLock EXCEPT ![Key(c)] = c]
             /\ Goto(c, "handling") /\ UNCHANGED <<aggregateLock, streamLock, locals>>
    <3>1. pc'[c] = "handling" /\ request'[c] = request[c] /\ request[c] \in Requests
          /\ wrote'[c] = << >> /\ UNCHANGED <<commands, events>>
      BY <1>0, <1>4, <1>a, <2>1 DEF Insert, CallInv, tables, locals
    <3>2. keyLock'[Key(c)'] = c
      BY <1>0, <2>1, <3>1 DEF Key, TypeOK
    <3>3. Row(c)' = None
      BY <2>1, <3>1 DEF Row, Key
    <3> QED BY <1>b, <3>1, <3>2, <3>3, NothingWritten
  <2> QED BY <1>0, <1>4, <2>1, RollbackKept DEF Insert
<1>5. CASE Handle(c)
  <2>1. pc[c] = "handling" /\ wrote[c] = << >> /\ keyLock[Key(c)] = c
        /\ Row(c) \in {None, request[c].body} /\ request[c] \in Requests
    BY <1>0, <1>5 DEF Handle, CallInv, Writing
  <2>2. pc'[c] = "appending" /\ UNCHANGED <<tables, locks, request, wrote>>
    BY <1>5, <1>a DEF Handle
  <2>3. seen'[c] \in [Aggregates -> Nat]
    <3>1. [a \in Aggregates |-> Version(events, a)] \in [Aggregates -> Nat]
      BY <1>0, VersionIsCount
    <3> QED BY <1>0, <1>5, <3>1 DEF Handle, TypeOK
  <2>4. Mine(c)' = {} /\ Visible(c)' = events' /\ Ordered(events)'
    BY <1>b, <2>1, <2>2 DEF Mine, Visible, tables
  <2>5. Ordered(Visible(c))'
    BY <2>4 DEF Ordered, UpTo, Event
  <2>6. keyLock'[Key(c)'] = c /\ Row(c)' \in {None, request'[c].body}
    BY <2>1, <2>2 DEF Key, Row, tables, locks
  <2> QED BY <2>1, <2>2, <2>3, <2>4, <2>5, <2>6 DEF CallInv, Writing
<1>6. CASE LockAggregate(c)
  <2>1. CASE Rollback(c)
    BY <1>0, <2>1, RollbackKept
  <2>2. CASE ~Rollback(c)
    <3>1. /\ pc[c] = "appending" /\ Pending(c)
          /\ Version(Visible(c), NextAggregate(c)) = Declared(c) - 1
          /\ aggregateLock' = [aggregateLock EXCEPT ![NextAggregate(c)] = c]
          /\ Goto(c, "numbering") /\ UNCHANGED <<keyLock, streamLock, locals, tables>>
      BY <1>6, <2>2 DEF LockAggregate, Pending
    <3>2. pc'[c] = "numbering" /\ request[c] \in Requests /\ seen[c] \in [Aggregates -> Nat]
      BY <1>0, <1>a, <3>1 DEF CallInv
    <3>3. NextAggregate(c) \in Aggregates
      BY <1>0, <3>1, <3>2, DeclaredType
    <3>4. aggregateLock'[NextAggregate(c)] = c
          /\ \A a \in Aggregates : aggregateLock[a] = c => aggregateLock'[a] = c
      BY <1>0, <3>1, <3>3 DEF TypeOK
    <3>5. /\ Mine(c)' = Mine(c) /\ Key(c)' = Key(c) /\ Row(c)' = Row(c)
          /\ Pending(c)' = Pending(c) /\ NextAggregate(c)' = NextAggregate(c)
          /\ Declared(c)' = Declared(c) /\ Visible(c)' = Visible(c)
          /\ request'[c] = request[c] /\ events' = events
      BY <3>1 DEF Mine, Key, Row, Pending, NextAggregate, Declared, Visible, locals, tables
    <3>6. Version(Visible(c), NextAggregate(c))' = Version(Visible(c), NextAggregate(c))
      BY <3>5 DEF Version, Highest
    <3>7. Ordered(Visible(c))'
      BY <1>0, <3>5 DEF CallInv, Ordered, UpTo, Event
    <3>8. \A e \in Mine(c) : e.aggregate \in Aggregates
      BY <1>0 DEF CallInv, Ordered, Event, Visible, Mine
    <3>9. \A e \in Mine(c)' :
              /\ e.key = Key(c)' /\ e.body = request'[c].body /\ aggregateLock'[e.aggregate] = c
              /\ \A f \in events' : f.number < e.number
      BY <1>0, <3>4, <3>5, <3>8 DEF CallInv
    <3>10. seen'[c] = seen[c] /\ wrote'[c] = wrote[c] /\ keyLock' = keyLock
           /\ streamLock' = streamLock
      BY <3>1 DEF locals
    <3> QED BY <1>0, <3>1, <3>2, <3>4, <3>5, <3>6, <3>7, <3>9, <3>10 DEF CallInv, Writing
  <2> QED BY <2>1, <2>2
<1>7. CASE InsertEvent(c)
  <2>1. PICK e \in Event :
             /\ Mine(c)' = Mine(c) \union {e}
             /\ e.key = Key(c) /\ e.body = request[c].body
             /\ e.aggregate = NextAggregate(c)
             /\ e.version = Version(Visible(c), e.aggregate) + 1
             /\ \A f \in Visible(c) : f.number < e.number
    BY <1>0, <1>7, InsertedEvent
  <2>2. /\ pc[c] = "numbering" /\ pc'[c] = "appending" /\ streamLock' = c
        /\ UNCHANGED <<commands, events, keyLock, aggregateLock, request, seen>>
    BY <1>7, <1>a DEF InsertEvent, tables
  <2>3. /\ request[c] \in Requests /\ seen[c] \in [Aggregates -> Nat]
        /\ keyLock[Key(c)] = c /\ Row(c) \in {None, request[c].body}
        /\ aggregateLock[NextAggregate(c)] = c
    BY <1>0, <2>2 DEF CallInv, Writing
  <2>4. Ordered(Visible(c) \union {e})
    BY <1>0, <2>1, OrderedGrows DEF CallInv
  <2>5. Visible(c)' = Visible(c) \union {e}
    BY <2>1, <2>2 DEF Visible, Mine
  <2>6. Ordered(Visible(c))'
    BY <2>4, <2>5 DEF Ordered, UpTo, Event
  <2>7. Key(c)' = Key(c) /\ Row(c)' = Row(c)
    BY <2>2 DEF Key, Row
  <2>8. \A f \in Mine(c)' :
            /\ f.key = Key(c)' /\ f.body = request'[c].body /\ aggregateLock'[f.aggregate] = c
            /\ \A g \in events' : g.number < f.number
    <3>1. events \subseteq Visible(c)
      BY DEF Visible
    <3> QED BY <1>0, <2>1, <2>2, <2>3, <2>7, <3>1 DEF CallInv
  <2> QED BY <2>2, <2>3, <2>6, <2>7, <2>8 DEF CallInv, Writing
<1>8. CASE Commit(c)
  <2>1. pc'[c] = "answering" /\ wrote'[c] = << >>
    BY <1>0, <1>8, <1>a, ForgetsAll DEF Commit
  <2>2. Ordered(events)'
    BY <1>0, <1>8 DEF Commit, CallInv, Ordered, UpTo, Event
  <2> QED BY <2>1, <2>2, NothingWritten DEF Writing
<1>9. CASE Answer(c)
  <2>1. pc'[c] = "idle" /\ wrote'[c] = << >> /\ UNCHANGED events
    BY <1>0, <1>9, <1>a DEF Answer, CallInv, tables, locals
  <2> QED BY <1>b, <2>1, NothingWritten DEF Writing
<1> QED BY <1>1, <1>2, <1>3, <1>4, <1>5, <1>6, <1>7, <1>8, <1>9 DEF DispatchStep

-----------------------------------------------------------------------------
(* The tables.                                                             *)

LEMMA StoreStep ==
  ASSUME IInv, NEW c \in Calls, CallStep(c)
  PROVE  StoreInv'
<1>0. TypeOK /\ CallInv(c) /\ Ordered(events) /\ OneRequestPerKey
  BY DEF IInv, StoreInv
<1>1. CASE UNCHANGED tables
  BY <1>0, <1>1 DEF StoreInv, Ordered, UpTo, Event, OneRequestPerKey, tables
<1>2. CASE Commit(c)
  <2>1. events' = events \union Mine(c) /\ events' = Visible(c)
    BY <1>2 DEF Commit, Visible, Mine
  <2>2. Ordered(events)'
    BY <1>0, <2>1 DEF CallInv, Ordered, UpTo, Event
  <2>3. request[c] \in Requests /\ Key(c) \in Keys
    BY <1>0, <1>2, PostgresAssumption DEF Commit, CallInv, Key
  <2>4. /\ commands'[Key(c)] = request[c].body
        /\ \A k \in Keys \ {Key(c)} : commands'[k] = commands[k]
    BY <1>0, <1>2, <2>3 DEF Commit, TypeOK
  <2>5. OneRequestPerKey'
    <3> SUFFICES ASSUME NEW e \in events' PROVE commands'[e.key] = e.body
      BY DEF OneRequestPerKey
    <3>1. CASE e \in Mine(c)
      BY <1>0, <2>4, <3>1 DEF CallInv
    <3>2. CASE e \in events
      <4>1. e.key \in Keys /\ e.body \in Bodies /\ commands[e.key] = e.body
        BY <1>0, <3>2 DEF Ordered, Event, OneRequestPerKey
      <4>2. e.key = Key(c) => e.body = request[c].body
        BY <1>0, <1>2, <4>1, PostgresAssumption DEF CallInv, Commit, Row, Writing
      <4> QED BY <2>4, <4>1, <4>2
    <3> QED BY <2>1, <3>1, <3>2
  <2> QED BY <2>2, <2>5 DEF StoreInv
<1> QED BY <1>1, <1>2, OnlyCommitWrites

LEMMA Inductive == IInv /\ [Next]_vars => IInv'
<1> SUFFICES ASSUME IInv, [Next]_vars PROVE IInv'
  OBVIOUS
<1>1. ASSUME NEW c \in Calls, CallStep(c) PROVE IInv'
  <2>1. CallInv(c)'
    <3>1. CASE DispatchStep(c) \/ Dispatch(c)
      BY <3>1, OwnKept
    <3>2. CASE Fail(c) \/ DeadlockVictim(c)
      BY <3>2, RollbackKept DEF Fail, DeadlockVictim, IInv, StoreInv
    <3> QED BY <1>1, <3>1, <3>2 DEF CallStep
  <2>2. ASSUME NEW d \in Calls \ {c} PROVE CallInv(d)'
    BY <1>1, OthersKept
  <2> QED BY <1>1, <2>1, <2>2, TypeStep, StoreStep DEF IInv
<1>2. CASE UNCHANGED vars
  <2>1. TypeOK' /\ StoreInv'
    BY <1>2 DEF IInv, TypeOK, StoreInv, Ordered, UpTo, Event, OneRequestPerKey,
       vars, tables, locks, locals
  <2>2. ASSUME NEW c \in Calls PROVE CallInv(c)'
    <3>1. /\ Mine(c)' = Mine(c) /\ Key(c)' = Key(c) /\ Row(c)' = Row(c)
          /\ Pending(c)' = Pending(c) /\ NextAggregate(c)' = NextAggregate(c)
          /\ Declared(c)' = Declared(c) /\ Visible(c)' = Visible(c)
      BY <1>2 DEF Mine, Key, Row, Pending, NextAggregate, Declared, Visible,
         vars, tables, locals
    <3>2. Version(Visible(c), NextAggregate(c))' = Version(Visible(c), NextAggregate(c))
      BY <3>1 DEF Version, Highest
    <3>3. Ordered(Visible(c))'
      BY <3>1 DEF IInv, CallInv, Ordered, UpTo, Event
    <3> QED BY <1>2, <3>1, <3>2, <3>3 DEF IInv, CallInv, vars, tables, locks, locals
  <2> QED BY <2>1, <2>2 DEF IInv
<1> QED BY <1>1, <1>2 DEF Next, CallStep

-----------------------------------------------------------------------------

LEMMA Invariance == Spec => []IInv
BY InitInv, Inductive, PTL DEF Spec

\* The variables have their types in every state.
THEOREM TypeCorrect == Spec => []TypeOK
BY Invariance, PTL DEF IInv

\* Over the PostgreSQL store, too, reserve() lets a key be executed for one
\* request only, however requests with it overlap.
THEOREM OneRequestPerKeyHolds == Spec => []OneRequestPerKey
BY Invariance, PTL DEF IInv, StoreInv

\* append() numbers the events of an aggregate 1, 2, 3 ... in stream order: the
\* check of the declared version under the lock of the aggregate suffices.
THEOREM AggregatesInOrderHolds == Spec => []AggregatesInOrder
<1>1. IInv => AggregatesInOrder
  BY DEF IInv, StoreInv, Ordered, UpTo, AggregatesInOrder
<1> QED BY <1>1, Invariance, PTL

\* append() lets events become visible in the order of their numbers: the lock of
\* the stream, taken before numbering and kept to COMMIT, suffices.
THEOREM StreamInOrderHolds == Spec => StreamInOrder
<1> DEFINE A == \A e \in events' \ events, f \in events : e.number > f.number
<1>1. IInv /\ [Next]_vars => [A]_vars
  <2> SUFFICES ASSUME IInv, NEW c \in Calls, CallStep(c) PROVE A
    BY DEF Next, CallStep
  <2>1. CASE UNCHANGED tables
    BY <2>1 DEF tables
  <2>2. CASE Commit(c)
    <3>1. events' \ events \subseteq Mine(c)
      BY <2>2 DEF Commit, Visible, Mine
    <3>2. \A e \in Mine(c), f \in events : f.number < e.number
      BY DEF IInv, CallInv
    <3>3. \A e \in Mine(c), f \in events : f.number \in Nat /\ e.number \in Nat
      BY DEF IInv, CallInv, Ordered, Event, Visible, Mine
    <3> QED BY <3>1, <3>2, <3>3
  <2> QED BY <2>1, <2>2, OnlyCommitWrites
<1> QED BY <1>1, Invariance, PTL DEF Spec, StreamInOrder

-----------------------------------------------------------------------------
(* The numbers of the stream.                                              *)

Gapless(S) == \A e \in S : \A n \in 1 .. e.number : \E f \in S : f.number = n

\* What a transaction sees has no gap: its own events follow the committed ones,
\* which nobody else adds to meanwhile.
GapInv == Gapless(events) /\ \A c \in Calls : Gapless(Visible(c))

\* The next number after the highest leaves no gap.
LEMMA GaplessGrows ==
  ASSUME NEW S, Ordered(S), Gapless(S), NEW e,
         e.number = Highest({f.number : f \in S}) + 1
  PROVE  Gapless(S \union {e})
<1> DEFINE N == {f.number : f \in S}
<1>1. IsFiniteSet(N) /\ N \in SUBSET Nat
  <2> DEFINE g == [f \in S |-> f.number]
  <2>1. N = {g[f] : f \in S} /\ DOMAIN g = S
    OBVIOUS
  <2>3. IsFiniteSet(S)
    BY DEF Ordered
  <2> HIDE DEF g
  <2>2. IsFiniteSet(N)
    BY <2>1, <2>3, FiniteImage
  <2> QED BY <2>2 DEF Ordered, Event
<1>2. Highest(N) \in Nat /\ (N # {} => Highest(N) \in N) /\ (N = {} => Highest(N) = 0)
  BY <1>1, HighestIs
<1>3. ASSUME NEW n \in 1 .. e.number PROVE \E f \in S \union {e} : f.number = n
  <2>1. CASE n = e.number
    BY <2>1
  <2>2. CASE n # e.number
    <3>1. n \in 1 .. Highest(N) /\ N # {}
      BY <1>2, <2>2
    <3>2. PICK f \in S : f.number = Highest(N)
      BY <1>2, <3>1
    <3> QED BY <3>1, <3>2 DEF Gapless
  <2> QED BY <2>1, <2>2
<1>4. ASSUME NEW g \in S, NEW n \in 1 .. g.number PROVE \E f \in S \union {e} : f.number = n
  BY DEF Gapless
<1> QED BY <1>3, <1>4 DEF Gapless

\* A step appends to what the call wrote, leaves it and the tables alone, or ends
\* the transaction.
LEMMA OneWrites ==
  ASSUME TypeOK, NEW c \in Calls, CallStep(c)
  PROVE  \/ InsertEvent(c)
         \/ wrote'[c] = wrote[c] /\ UNCHANGED events
         \/ wrote'[c] = << >>
<1>1. ASSUME Forget(c) PROVE wrote'[c] = << >>
  BY <1>1 DEF Forget, TypeOK
<1>2. ASSUME Rollback(c) PROVE wrote'[c] = << >>
  BY <1>1, <1>2 DEF Rollback
<1>3. CASE Look(c) \/ Select(c) \/ Insert(c) \/ LockAggregate(c)
  BY <1>1, <1>2, <1>3 DEF Look, Select, Insert, LockAggregate, tables, locals
<1>4. CASE Dispatch(c) \/ Handle(c) \/ Answer(c)
  BY <1>4 DEF Dispatch, Handle, Answer, tables, locals
<1>5. CASE Commit(c) \/ Fail(c) \/ DeadlockVictim(c)
  BY <1>1, <1>2, <1>5 DEF Commit, Fail, DeadlockVictim
<1> QED BY <1>3, <1>4, <1>5 DEF CallStep, DispatchStep

LEMMA GapStep == IInv /\ GapInv /\ [Next]_vars => GapInv'
<1> SUFFICES ASSUME IInv, GapInv, [Next]_vars PROVE GapInv'
  OBVIOUS
<1>1. ASSUME NEW c \in Calls, CallStep(c) PROVE GapInv'
  <2>1. TypeOK /\ CallInv(c) /\ \A d \in Calls : CallInv(d) /\ Gapless(Visible(d))
    BY DEF IInv, GapInv
  <2>2. Gapless(events)'
    <3>1. events' = events \/ events' = Visible(c)
      BY <1>1, OnlyCommitWrites DEF Commit, tables
    <3> QED BY <2>1, <3>1 DEF GapInv, Gapless
  <2>3. ASSUME NEW d \in Calls \ {c} PROVE Gapless(Visible(d))'
    <3>1. wrote'[d] = wrote[d]
      BY <1>1, <2>1, OthersUndisturbed DEF Undisturbed
    <3>2. CASE UNCHANGED events
      <4>1. Visible(d)' = Visible(d)
        BY <3>1, <3>2 DEF Visible
      <4> QED BY <2>1, <4>1 DEF Gapless
    <3>3. CASE Commit(c) /\ events' # events
      <4>1. wrote[c] # << >>
        BY <3>3 DEF Commit, Visible
      <4>2. wrote[d] = << >>
        BY <2>1, <4>1 DEF CallInv
      <4>3. Visible(d)' = events'
        BY <3>1, <4>2 DEF Visible
      <4> QED BY <2>2, <4>3 DEF Gapless
    <3> QED BY <1>1, <3>2, <3>3, OnlyCommitWrites DEF tables
  <2>4. Gapless(Visible(c))'
    <3>1. CASE InsertEvent(c)
      <4>1. PICK e : /\ e.number = Highest({f.number : f \in Visible(c)}) + 1
                     /\ wrote' = [wrote EXCEPT ![c] = Append(@, e)] /\ UNCHANGED events
        BY <3>1 DEF InsertEvent, tables
      <4>2. wrote[c] \in Seq(Event) /\ wrote'[c] = Append(wrote[c], e)
        BY <2>1, <4>1 DEF TypeOK
      <4>3. Visible(c)' = Visible(c) \union {e}
        BY <4>1, <4>2 DEF Visible
      <4>4. Gapless(Visible(c) \union {e})
        BY <2>1, <4>1, GaplessGrows DEF CallInv
      <4> QED BY <4>3, <4>4 DEF Gapless
    <3>2. CASE wrote'[c] = wrote[c] /\ UNCHANGED events
      <4>1. Visible(c)' = Visible(c)
        BY <3>2 DEF Visible
      <4> QED BY <2>1, <4>1 DEF Gapless
    <3>3. CASE wrote'[c] = << >>
      <4>1. Visible(c)' = events'
        BY <3>3 DEF Visible
      <4> QED BY <2>2, <4>1 DEF Gapless
    <3> QED BY <1>1, <2>1, <3>1, <3>2, <3>3, OneWrites
  <2> QED BY <2>2, <2>3, <2>4 DEF GapInv
<1>2. CASE UNCHANGED vars
  <2>1. UNCHANGED events /\ \A c \in Calls : Visible(c)' = Visible(c)
    BY <1>2 DEF vars, tables, locals, Visible
  <2> QED BY <2>1 DEF GapInv, Gapless
<1> QED BY <1>1, <1>2 DEF Next, CallStep

\* The stream is numbered 1, 2, 3 ... for its readers, although transactions that
\* took numbers are rolled back.
THEOREM StreamHasNoGapHolds == Spec => []StreamHasNoGap
<1>1. Init => GapInv
  BY DEF Init, GapInv, Gapless, Visible
<1>2. GapInv => StreamHasNoGap
  BY DEF GapInv, Gapless, StreamHasNoGap
<1> QED BY <1>1, <1>2, GapStep, Invariance, PTL DEF Spec
=============================================================================

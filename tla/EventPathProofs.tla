-------------------------- MODULE EventPathProofs --------------------------
(***************************************************************************)
(* Proofs about the path of an event: CommandDispatch, which commits it    *)
(* with its outbox row, and OutboxDispatch, which delivers the row.        *)
(*                                                                         *)
(* First the commands, for any calls, keys, digests, results, aggregates   *)
(* and number of failures.  Their invariant, Inv, says of each call what   *)
(* its place relies on, and of the open transaction how its draft differs  *)
(* from the store: the command's record, and its events at the end.        *)
(*                                                                         *)
(* Then the outbox, for any rows, dispatchers, calls, lease length, batch  *)
(* size and bounds.  The argument for the exclusion of a lease is IInv of  *)
(* OutboxDispatch: the in-flight set separates the calls of one            *)
(* dispatcher, the claim separates dispatchers, and claims of one          *)
(* dispatcher only ever extend its own lease because they are taken in the *)
(* order of their instants.                                                *)
(***************************************************************************)
EXTENDS CommandDispatch, OutboxDispatch, SequenceTheorems, FiniteSetTheorems,
        WellFoundedInduction, TLAPS

-----------------------------------------------------------------------------
(* CommandDispatch: the numbers of events.                                 *)

\* A nonempty set of positions has a last one.
LEMMA LastPosition ==
  ASSUME NEW n \in Nat, NEW S \in SUBSET (1 .. n), S # {}
  PROVE  \E i \in S : \A j \in S : j <= i
<1> DEFINE T == {n - i : i \in S}
<1>1. T \subseteq Nat /\ T # {}
  <2>1. \A i \in S : n - i \in Nat
    OBVIOUS
  <2> QED BY <2>1
<1>2. PICK x \in T : \A y \in T : ~(<<y, x>> \in OpToRel(<, Nat))
  <2> HIDE DEF T
  <2> QED BY <1>1, WFMin, NatLessThanWellFounded
<1>3. \A y \in T : ~(y < x)
  BY <1>1, <1>2 DEF OpToRel
<1>4. PICK i \in S : x = n - i
  BY <1>2
<1>5. \A j \in S : j <= i
  <2> SUFFICES ASSUME NEW j \in S PROVE j <= i
    OBVIOUS
  <2>1. ~(n - j < n - i)
    BY <1>3, <1>4
  <2> QED BY <2>1
<1> QED BY <1>5

\* Each event has the number that it is of its aggregate: the store counts.
Numbered(events) ==
    \A i \in DOMAIN events :
        events[i].version =
            Cardinality({j \in 1 .. i : events[j].aggregate = events[i].aggregate})

\* The positions of an aggregate's events, up to one of them.
Of(s, a) == {i \in DOMAIN s : s[i].aggregate = a}
UpTo(s, a, i) == {j \in 1 .. i : s[j].aggregate = a}

LEMMA FinitePositions ==
  ASSUME NEW n \in Nat, NEW S \in SUBSET (1 .. n)
  PROVE  IsFiniteSet(S) /\ Cardinality(S) \in Nat
<1>1. IsFiniteSet(1 .. n)
  BY FS_Interval
<1> QED BY <1>1, FS_Subset, FS_CardinalityType

\* The version of an aggregate is the number of its events.
LEMMA VersionIsCount ==
  ASSUME NEW s \in Seq(Event), Numbered(s), NEW a
  PROVE  Version(s, a) = Cardinality(Of(s, a)) /\ Cardinality(Of(s, a)) \in Nat
<1>1. Len(s) \in Nat /\ DOMAIN s = 1 .. Len(s)
  BY LenProperties
<1>2. Of(s, a) \in SUBSET (1 .. Len(s))
  BY <1>1 DEF Of
<1>3. Cardinality(Of(s, a)) \in Nat
  BY <1>1, <1>2, FinitePositions
<1>4. CASE Of(s, a) = {}
  BY <1>3, <1>4, FS_EmptySet DEF Version, Of
<1>5. CASE Of(s, a) # {}
  <2> DEFINE last == CHOOSE i \in Of(s, a) : \A j \in Of(s, a) : j <= i
  <2>1. last \in Of(s, a) /\ \A j \in Of(s, a) : j <= last
    BY <1>1, <1>2, <1>5, LastPosition
  <2>2. Version(s, a) = s[last].version
    BY <1>5 DEF Version, Of
  <2> HIDE DEF last
  <2>3. UpTo(s, a, last) = Of(s, a)
    <3>1. last \in 1 .. Len(s)
      BY <1>2, <2>1
    <3>2. ASSUME NEW j \in Of(s, a) PROVE j \in 1 .. last /\ s[j].aggregate = a
      BY <1>1, <2>1, <3>1, <3>2 DEF Of
    <3>3. ASSUME NEW j \in UpTo(s, a, last) PROVE j \in Of(s, a)
      BY <1>1, <3>1, <3>3 DEF Of, UpTo
    <3> QED BY <3>2, <3>3 DEF UpTo
  <2>4. s[last].aggregate = a /\ last \in DOMAIN s
    BY <2>1 DEF Of
  <2>5. s[last].version = Cardinality(UpTo(s, a, last))
    BY <2>4 DEF Numbered, UpTo
  <2> QED BY <1>3, <2>2, <2>3, <2>5
<1> QED BY <1>4, <1>5

\* No event of an aggregate has a number above the aggregate's version.
LEMMA VersionIsLargest ==
  ASSUME NEW s \in Seq(Event), Numbered(s), NEW j \in DOMAIN s
  PROVE  s[j].version <= Version(s, s[j].aggregate)
<1> DEFINE a == s[j].aggregate
<1>1. Len(s) \in Nat /\ DOMAIN s = 1 .. Len(s)
  BY LenProperties
<1>2. Of(s, a) \in SUBSET (1 .. Len(s))
  BY <1>1 DEF Of
<1>3. UpTo(s, a, j) \subseteq Of(s, a)
  BY <1>1 DEF Of, UpTo
<1>4. IsFiniteSet(Of(s, a))
  BY <1>1, <1>2, FinitePositions
<1>5. Cardinality(UpTo(s, a, j)) <= Cardinality(Of(s, a))
  BY <1>3, <1>4, FS_Subset
<1>6. s[j].version = Cardinality(UpTo(s, a, j))
  BY DEF Numbered, UpTo
<1>7. Version(s, a) = Cardinality(Of(s, a))
  BY VersionIsCount
<1> QED BY <1>5, <1>6, <1>7

\* An event with the version after that of its aggregate keeps the numbers.
LEMMA AppendNumbered ==
  ASSUME NEW s \in Seq(Event), Numbered(s), NEW e \in Event,
         e.version = Version(s, e.aggregate) + 1
  PROVE  Numbered(Append(s, e))
<1> DEFINE t == Append(s, e)
           n == Len(s)
<1>1. n \in Nat /\ DOMAIN s = 1 .. n
  BY LenProperties
<1>2. /\ t \in Seq(Event) /\ Len(t) = n + 1
      /\ \A i \in 1 .. n : t[i] = s[i]
      /\ t[n + 1] = e
  BY AppendProperties
<1>3. DOMAIN t = 1 .. n + 1
  BY <1>2, LenProperties
<1> HIDE DEF t, n
<1>4. ASSUME NEW i \in 1 .. n
      PROVE  t[i].version = Cardinality({j \in 1 .. i : t[j].aggregate = t[i].aggregate})
  <2>1. \A j \in 1 .. i : j \in 1 .. n
    BY <1>1
  <2>2. {j \in 1 .. i : t[j].aggregate = t[i].aggregate}
            = {j \in 1 .. i : s[j].aggregate = s[i].aggregate}
    BY <1>2, <2>1
  <2>3. s[i].version = Cardinality({j \in 1 .. i : s[j].aggregate = s[i].aggregate})
    BY <1>1 DEF Numbered
  <2> QED BY <1>2, <2>2, <2>3
<1>5. t[n + 1].version = Cardinality({j \in 1 .. n + 1 : t[j].aggregate = t[n + 1].aggregate})
  <2> DEFINE A == Of(s, e.aggregate)
  <2>1. A \in SUBSET (1 .. n) /\ IsFiniteSet(A)
    BY <1>1, FinitePositions DEF Of
  <2>2. {j \in 1 .. n + 1 : t[j].aggregate = t[n + 1].aggregate} = A \union {n + 1}
    <3>1. \A j \in 1 .. n + 1 : j = n + 1 \/ j \in 1 .. n
      BY <1>1
    <3>2. \A j \in 1 .. n : j \in 1 .. n + 1
      BY <1>1
    <3>3. n + 1 \in 1 .. n + 1
      BY <1>1
    <3> QED BY <1>1, <1>2, <3>1, <3>2, <3>3 DEF Of
  <2>3. n + 1 \notin A
    BY <1>1, <2>1
  <2>4. Cardinality(A \union {n + 1}) = Cardinality(A) + 1
    BY <2>1, <2>3, FS_AddElement
  <2>5. e.version = Cardinality(A) + 1
    BY VersionIsCount
  <2> QED BY <1>2, <2>2, <2>4, <2>5
<1>6. \A i \in 1 .. n + 1 : i = n + 1 \/ i \in 1 .. n
  BY <1>1
<1> QED BY <1>3, <1>4, <1>5, <1>6 DEF Numbered, t

\* What the invariant says of a stream of events.
Sound(events) == Numbered(events) /\ DecidedOnLatest(events)

\* An event whose aggregate has nothing of another command above its basis keeps it.
LEMMA AppendSound ==
  ASSUME NEW s \in Seq(Event), Sound(s), NEW e \in Event,
         e.version = Version(s, e.aggregate) + 1,
         \A j \in DOMAIN s : s[j].aggregate = e.aggregate /\ s[j].key # e.key
                                => s[j].version <= e.basis
  PROVE  Sound(Append(s, e))
<1> DEFINE t == Append(s, e)
           n == Len(s)
<1>1. n \in Nat /\ DOMAIN s = 1 .. n
  BY LenProperties
<1>2. /\ t \in Seq(Event) /\ Len(t) = n + 1
      /\ \A i \in 1 .. n : t[i] = s[i]
      /\ t[n + 1] = e
  BY AppendProperties
<1>3. DOMAIN t = 1 .. n + 1
  BY <1>2, LenProperties
<1>4. Numbered(t)
  BY AppendNumbered DEF Sound
<1> HIDE DEF t, n
<1>5. ASSUME NEW i \in 1 .. n + 1, NEW j \in 1 .. n + 1, j < i,
             t[j].aggregate = t[i].aggregate, t[j].key # t[i].key
      PROVE  t[j].version <= t[i].basis
  <2>1. j \in 1 .. n /\ t[j] = s[j]
    BY <1>1, <1>2, <1>5
  <2>2. CASE i = n + 1
    BY <1>1, <1>2, <1>5, <2>1, <2>2
  <2>3. CASE i # n + 1
    <3>1. i \in 1 .. n /\ t[i] = s[i]
      BY <1>1, <1>2, <2>3
    <3> QED BY <1>1, <1>5, <2>1, <3>1 DEF Sound, DecidedOnLatest
  <2> QED BY <2>2, <2>3
<1>6. DecidedOnLatest(t)
  BY <1>3, <1>5 DEF DecidedOnLatest
<1> QED BY <1>4, <1>6 DEF Sound, t

-----------------------------------------------------------------------------
(* CommandDispatch: the invariant.                                         *)

SoundEvents == Sound(store.events)

Request == [key : Keys, body : Bodies]
Record(c, r) == [body |-> request[c].body, result |-> r]
InTransaction(c) == at[c] \in {"handling", "appending", "committing"}

\* What the open transaction of a call has made of the store: the reservation or
\* completion of its command, and the events emitted so far at the end.
DraftInv(c) ==
    LET k == request[c].key
        n == Len(store.events)
    IN  /\ store.commands[k] = Nothing
        /\ draft.commands = [store.commands EXCEPT
               ![k] = Record(c, IF at[c] = "committing" THEN result[c] ELSE Nothing)]
        /\ draft.outbox = draft.events
        /\ emitted[c] <= Len(Emits[k])
        /\ at[c] = "handling" => emitted[c] = 0
        /\ at[c] = "committing" => emitted[c] = Len(Emits[k])
        /\ Len(draft.events) = n + emitted[c]
        /\ \A i \in 1 .. n : draft.events[i] = store.events[i]
        /\ \A i \in 1 .. emitted[c] :
               /\ draft.events[n + i].key = k
               /\ draft.events[n + i].aggregate = Emits[k][i]
               /\ draft.events[n + i].result = result[c]
               /\ draft.events[n + i].basis = seen[c][Emits[k][i]]
        /\ Sound(draft.events)

\* What each place of a call relies on.
CallInv(c) ==
    /\ at[c] # "idle" => request[c] \in Request /\ seen[c] \in [Aggregates -> Nat]
    /\ at[c] \in {"appending", "committing", "answering"} => result[c] \in Results
    /\ InTransaction(c) => DraftInv(c)
    /\ at[c] = "answering" => store.commands[request[c].key] = Record(c, result[c])

Inv == CommandTypeOK /\ AllOrNothing /\ SoundEvents /\ \A c \in Dispatches : CallInv(c)

\* A record is not Nothing.
LEMMA RecordIsSomething ==
  ASSUME NEW b \in Bodies, NEW r \in Results \union {Nothing}
  PROVE  [body |-> b, result |-> r] # Nothing
  BY NothingAssumption

\* A record of the store has the fields it is made of.
LEMMA CommandFields ==
  ASSUME CommandTypeOK, NEW k \in Keys, store.commands[k] # Nothing
  PROVE  /\ store.commands[k].body \in Bodies
         /\ store.commands[k].result \in Results \union {Nothing}
         /\ store.commands[k] = [body |-> store.commands[k].body,
                                 result |-> store.commands[k].result]
<1>1. store.commands[k] \in Command
  BY DEF CommandTypeOK, StoreType
<1> QED BY <1>1 DEF Command

\* A call whose transaction is open is alone with it.
LEMMA OneTransaction ==
  ASSUME CommandTypeOK, NEW c \in Dispatches, NEW d \in Dispatches, Running(c), InTransaction(d)
  PROVE  c = d
  BY DEF CommandTypeOK, Running, InTransaction

LEMMA InvInit == CommandInit => Inv
<1> SUFFICES ASSUME CommandInit PROVE Inv
  OBVIOUS
<1>1. EmptyStore \in StoreType
  BY DEF EmptyStore, StoreType
<1>2. CommandTypeOK
  BY <1>1, FailuresAssumption DEF CommandInit, CommandTypeOK, Awaits
<1>3. /\ store.events = << >> /\ store.outbox = << >>
      /\ \A k \in Keys : store.commands[k] = Nothing
  BY DEF CommandInit, EmptyStore
<1>4. AllOrNothing
  BY <1>3 DEF AllOrNothing, Own
<1>5. SoundEvents
  BY <1>3 DEF SoundEvents, Sound, Numbered, DecidedOnLatest
<1>6. ASSUME NEW c \in Dispatches PROVE CallInv(c)
  BY DEF CommandInit, CallInv, InTransaction
<1> QED BY <1>2, <1>4, <1>5, <1>6 DEF Inv

-----------------------------------------------------------------------------
(* What the steps of one call leave alone.                                 *)

\* The variables of a call, which nobody else writes.
SameCall(d) ==
    /\ at'[d] = at[d] /\ request'[d] = request[d] /\ seen'[d] = seen[d]
    /\ result'[d] = result[d] /\ emitted'[d] = emitted[d]

StepOf(c) == Dispatch(c) \/ DispatchStep(c) \/ HandlerThrows(c)

LEMMA OthersKept ==
  ASSUME CommandTypeOK, NEW c \in Dispatches, NEW d \in Dispatches \ {c}, StepOf(c)
  PROVE  SameCall(d)
<1> USE DEF CommandTypeOK, SameCall
<1>1. CASE Dispatch(c)
  <2>1. PICK q \in Request : request' = [request EXCEPT ![c] = q]
    BY <1>1 DEF Dispatch, Request
  <2> QED BY <1>1, <2>1 DEF Dispatch
<1>2. CASE Authorize(c)
  BY <1>2 DEF Authorize
<1>3. CASE Replay(c)
  BY <1>3 DEF Replay, Abort
<1>4. CASE Reserve(c)
  BY <1>4 DEF Reserve
<1>5. CASE Handle(c)
  <2>1. PICK r \in Results : result' = [result EXCEPT ![c] = r]
    BY <1>5 DEF Handle
  <2> QED BY <1>5, <2>1 DEF Handle
<1>6. CASE AppendEvent(c)
  <2>1. CASE Expected(c)
    BY <1>6, <2>1 DEF AppendEvent
  <2>2. CASE ~Expected(c)
    BY <1>6, <2>2 DEF AppendEvent, Abort
  <2> QED BY <2>1, <2>2
<1>7. CASE Complete(c)
  BY <1>7 DEF Complete
<1>8. CASE CommitCommand(c)
  BY <1>8 DEF CommitCommand, Commit
<1>9. CASE Answer(c) \/ Fail(c)
  BY <1>9 DEF Answer, Fail, Leave
<1>10. CASE HandlerThrows(c)
  BY <1>10 DEF HandlerThrows, Abort
<1> QED BY <1>1, <1>2, <1>3, <1>4, <1>5, <1>6, <1>7, <1>8, <1>9, <1>10 DEF StepOf, DispatchStep

\* Commands that are recorded stay as they are.
Grows == \A k \in Keys : store.commands[k] # Nothing => store'.commands[k] = store.commands[k]

LEMMA OtherCall ==
  ASSUME CommandTypeOK, NEW d \in Dispatches, CallInv(d), SameCall(d), Grows,
         InTransaction(d) => UNCHANGED <<store, draft>>
  PROVE  CallInv(d)'
<1>1. InTransaction(d)' = InTransaction(d)
  BY DEF InTransaction, SameCall
<1>2. InTransaction(d) => DraftInv(d)'
  <2> SUFFICES ASSUME InTransaction(d) PROVE DraftInv(d)'
    OBVIOUS
  <2>1. DraftInv(d) /\ store' = store /\ draft' = draft
    BY DEF CallInv
  <2>2. \A r : Record(d, r)' = Record(d, r)
    BY DEF Record, SameCall
  <2> QED BY <2>1, <2>2 DEF DraftInv, SameCall
<1>3. at[d] = "answering" => store'.commands[request[d].key] = Record(d, result[d])
  <2> SUFFICES ASSUME at[d] = "answering" PROVE store'.commands[request[d].key] = Record(d, result[d])
    OBVIOUS
  <2>1. request[d] \in Request /\ result[d] \in Results
    BY DEF CallInv
  <2>2. Record(d, result[d]) # Nothing
    BY <2>1, RecordIsSomething DEF Record, Request
  <2> QED BY <2>1, <2>2 DEF CallInv, Grows, Request
<1> QED BY <1>1, <1>2, <1>3 DEF CallInv, SameCall, Record

\* What only the store decides.
LEMMA SameStore ==
  ASSUME AllOrNothing, SoundEvents, UNCHANGED store
  PROVE  AllOrNothing' /\ SoundEvents' /\ Grows
<1>1. AllOrNothing'
  BY DEF AllOrNothing, Own
<1>2. SoundEvents'
  BY DEF SoundEvents, Sound, Numbered, DecidedOnLatest
<1> QED BY <1>1, <1>2 DEF Grows

\* Steps that leave the store and the draft alone, or open or drop a draft while no
\* other transaction is open, keep the invariant if they keep that of their call.
LEMMA OneCallStep ==
  ASSUME Inv, NEW c \in Dispatches, StepOf(c), UNCHANGED store,
         UNCHANGED draft \/ Running(c),
         CommandTypeOK', CallInv(c)'
  PROVE  Inv'
<1>1. AllOrNothing' /\ SoundEvents' /\ Grows
  BY SameStore DEF Inv
<1>2. ASSUME NEW d \in Dispatches, d # c PROVE CallInv(d)'
  <2>1. SameCall(d)
    BY <1>2, OthersKept DEF Inv
  <2>2. InTransaction(d) => UNCHANGED <<store, draft>>
    BY <1>2, OneTransaction DEF Inv
  <2> QED BY <1>1, <2>1, <2>2, OtherCall DEF Inv
<1> QED BY <1>1, <1>2 DEF Inv

-----------------------------------------------------------------------------
(* Each step keeps the invariant.                                          *)

LEMMA DispatchInv ==
  ASSUME Inv, NEW c \in Dispatches, Dispatch(c)
  PROVE  Inv'
<1>1. PICK q \in Request : request' = [request EXCEPT ![c] = q]
  BY DEF Dispatch, Request
<1>2. Versions(store.events) \in [Aggregates -> Nat]
  <2>1. store.events \in Seq(Event) /\ Numbered(store.events)
    BY DEF Inv, CommandTypeOK, StoreType, SoundEvents, Sound
  <2> QED BY <2>1, VersionIsCount DEF Versions
<1>3. CommandTypeOK'
  BY <1>1, <1>2 DEF Dispatch, Inv, CommandTypeOK, Request, Awaits
<1>4. CallInv(c)'
  BY <1>1, <1>2 DEF Dispatch, Inv, CommandTypeOK, CallInv, InTransaction
<1> QED BY <1>3, <1>4, OneCallStep DEF Dispatch, StepOf

LEMMA AuthorizeInv ==
  ASSUME Inv, NEW c \in Dispatches, Authorize(c)
  PROVE  Inv'
<1>1. queue' \in Seq(Dispatches) /\ (queue # << >> => queue' # << >> /\ Head(queue') = Head(queue))
  <2>1. CASE queue' = Append(queue, c)
    BY <2>1, AppendProperties, HeadTailAppend DEF Inv, CommandTypeOK
  <2>2. CASE UNCHANGED queue
    BY <2>2 DEF Inv, CommandTypeOK
  <2> QED BY <2>1, <2>2 DEF Authorize
<1>2. PICK place \in {"queued", "failed"} : at' = [at EXCEPT ![c] = place]
  BY DEF Authorize
<1>3. CommandTypeOK'
  BY <1>1, <1>2 DEF Authorize, Inv, CommandTypeOK, Awaits
<1>4. CallInv(c)'
  BY <1>2 DEF Authorize, Inv, CommandTypeOK, CallInv, InTransaction
<1> QED BY <1>3, <1>4, OneCallStep DEF Authorize, StepOf, DispatchStep

\* The queue without its head, when its call is no longer in a transaction.
LEMMA Dequeued ==
  ASSUME CommandTypeOK, NEW c \in Dispatches, Running(c), queue' = Tail(queue),
         NEW place \in Awaits, place \notin {"handling", "appending", "committing"},
         at' = [at EXCEPT ![c] = place]
  PROVE  /\ queue' \in Seq(Dispatches)
         /\ at' \in [Dispatches -> Awaits]
         /\ \A d \in Dispatches : ~InTransaction(d)'
<1>1. queue' \in Seq(Dispatches)
  BY HeadTailProperties DEF CommandTypeOK, Running
<1>2. at' \in [Dispatches -> Awaits]
  BY DEF CommandTypeOK
<1>3. ASSUME NEW d \in Dispatches PROVE ~InTransaction(d)'
  <2>1. CASE d = c
    BY <2>1 DEF CommandTypeOK, InTransaction
  <2>2. CASE d # c
    BY <2>2, OneTransaction DEF CommandTypeOK, InTransaction
  <2> QED BY <2>1, <2>2
<1> QED BY <1>1, <1>2, <1>3

\* A transaction that is dropped.
LEMMA AbortInv ==
  ASSUME Inv, NEW c \in Dispatches, Running(c), at[c] # "idle", Abort(c), StepOf(c),
         UNCHANGED <<request, seen, result, emitted>>, failures' \in 0 .. MaxFailures
  PROVE  Inv'
<1>1. /\ queue' \in Seq(Dispatches) /\ at' \in [Dispatches -> Awaits]
      /\ \A d \in Dispatches : ~InTransaction(d)'
  BY Dequeued DEF Abort, Inv, Awaits
<1>2. draft' \in StoreType
  BY DEF Abort, EmptyStore, StoreType
<1>3. CommandTypeOK'
  BY <1>1, <1>2 DEF Abort, Inv, CommandTypeOK, InTransaction
<1>4. CallInv(c)'
  BY <1>1 DEF Abort, Inv, CommandTypeOK, CallInv
<1> QED BY <1>3, <1>4, OneCallStep DEF Abort

LEMMA ReplayInv ==
  ASSUME Inv, NEW c \in Dispatches, Replay(c)
  PROVE  Inv'
<1>1. StepOf(c) /\ Running(c) /\ at[c] # "idle"
  BY DEF Replay, StepOf, DispatchStep
<1>2. CASE Lookup(c) # "replay"
  BY <1>1, <1>2, AbortInv DEF Replay, Inv, CommandTypeOK
<1>3. CASE Lookup(c) = "replay"
  <2> DEFINE k == request[c].key
             existing == store.commands[k]
  <2>1. k \in Keys /\ request[c].body \in Bodies
    BY <1>1 DEF Inv, CallInv, Request
  <2>2. existing # Nothing /\ existing.body = request[c].body /\ existing.result # Nothing
    BY <1>3 DEF Lookup
  <2>3. existing.result \in Results
    BY <2>1, <2>2, CommandFields DEF Inv
  <2>4. /\ result' = [result EXCEPT ![c] = existing.result]
        /\ queue' = Tail(queue) /\ at' = [at EXCEPT ![c] = "answering"]
        /\ UNCHANGED <<store, draft, request, seen, emitted, answers, failures>>
    BY <1>3 DEF Replay
  <2>5. existing = [body |-> request[c].body, result |-> existing.result]
    BY <2>1, <2>2, CommandFields DEF Inv
  <2> HIDE DEF existing
  <2>6. /\ queue' \in Seq(Dispatches) /\ at' \in [Dispatches -> Awaits]
        /\ \A d \in Dispatches : ~InTransaction(d)'
    BY <1>1, <2>4, Dequeued DEF Inv, Awaits
  <2>7. CommandTypeOK'
    BY <2>3, <2>4, <2>6 DEF Inv, CommandTypeOK, InTransaction
  <2>8. result'[c] = existing.result
    BY <2>4 DEF Inv, CommandTypeOK
  <2>9. CallInv(c)'
    BY <1>1, <2>3, <2>4, <2>5, <2>6, <2>8 DEF Inv, CommandTypeOK, CallInv, Record, existing
  <2> QED BY <1>1, <2>4, <2>7, <2>9, OneCallStep
<1> QED BY <1>2, <1>3

LEMMA ReserveInv ==
  ASSUME Inv, NEW c \in Dispatches, Reserve(c)
  PROVE  Inv'
<1> DEFINE k == request[c].key
           n == Len(store.events)
<1>1. StepOf(c) /\ Running(c) /\ at[c] = "queued" /\ store.commands[k] = Nothing
  BY DEF Reserve, StepOf, DispatchStep, Lookup
<1>2. k \in Keys /\ request[c].body \in Bodies /\ seen[c] \in [Aggregates -> Nat]
  BY <1>1 DEF Inv, CallInv, Request
<1>3. store \in StoreType /\ n \in Nat
  BY LenProperties DEF Inv, CommandTypeOK, StoreType
<1>4. /\ draft' = [store EXCEPT !.commands[k] = Record(c, Nothing)]
      /\ emitted' = [emitted EXCEPT ![c] = 0]
      /\ at' = [at EXCEPT ![c] = "handling"]
      /\ UNCHANGED <<store, queue, request, seen, result, answers, failures>>
  BY DEF Reserve, Record
<1>5. Record(c, Nothing) \in Command
  BY <1>2 DEF Record, Command
<1>6. /\ draft'.commands = [store.commands EXCEPT ![k] = Record(c, Nothing)]
      /\ draft'.events = store.events /\ draft'.outbox = store.events
      /\ draft' \in StoreType
  BY <1>2, <1>3, <1>4, <1>5 DEF StoreType, Inv, AllOrNothing
<1>7. CommandTypeOK'
  BY <1>1, <1>4, <1>6 DEF Inv, CommandTypeOK, Running, Awaits
<1>8. at'[c] = "handling" /\ emitted'[c] = 0
  BY <1>4 DEF Inv, CommandTypeOK
<1>9. Len(Emits[k]) \in Nat
  BY <1>2, EmitsAssumption, LenProperties
<1>10. DraftInv(c)'
  BY <1>1, <1>3, <1>4, <1>6, <1>8, <1>9 DEF DraftInv, Record, Inv, SoundEvents
<1>11. CallInv(c)'
  BY <1>1, <1>2, <1>4, <1>8, <1>10 DEF CallInv, Inv
<1> QED BY <1>1, <1>4, <1>7, <1>11, OneCallStep

LEMMA HandleInv ==
  ASSUME Inv, NEW c \in Dispatches, Handle(c)
  PROVE  Inv'
<1>1. StepOf(c) /\ at[c] = "handling"
  BY DEF Handle, StepOf, DispatchStep
<1>2. PICK r \in Results : result' = [result EXCEPT ![c] = r]
  BY DEF Handle
<1>3. CommandTypeOK'
  BY <1>2 DEF Handle, Inv, CommandTypeOK, Awaits
<1>4. /\ at'[c] = "appending" /\ result'[c] = r
      /\ UNCHANGED <<store, draft, request, seen, emitted>>
  BY <1>2 DEF Handle, Inv, CommandTypeOK
<1>5. DraftInv(c)
  BY <1>1 DEF Inv, CallInv, InTransaction
<1>6. DraftInv(c)'
  BY <1>1, <1>4, <1>5 DEF DraftInv, Record
<1>7. CallInv(c)'
  BY <1>1, <1>2, <1>4, <1>6 DEF CallInv, Inv
<1> QED BY <1>1, <1>3, <1>4, <1>7, OneCallStep

\* The event a call emits next has the type of an event.
LEMMA NextEventType ==
  ASSUME Inv, NEW c \in Dispatches, at[c] = "appending",
         emitted[c] < Len(Emits[request[c].key])
  PROVE  /\ emitted[c] + 1 \in 1 .. Len(Emits[request[c].key])
         /\ NextAggregate(c) \in Aggregates /\ Declared(c) \in Nat \ {0}
         /\ NextAggregate(c) = Emits[request[c].key][emitted[c] + 1]
<1> DEFINE k == request[c].key
           a == NextAggregate(c)
           own == {i \in 1 .. emitted[c] : Emits[k][i] = a}
<1>1. k \in Keys /\ seen[c] \in [Aggregates -> Nat] /\ emitted[c] \in Nat
  BY DEF Inv, CallInv, CommandTypeOK, Request
<1>2. Emits[k] \in Seq(Aggregates) /\ Len(Emits[k]) \in Nat
  BY <1>1, EmitsAssumption, LenProperties
<1>3. emitted[c] + 1 \in 1 .. Len(Emits[k])
  BY <1>1, <1>2
<1>4. a = Emits[k][emitted[c] + 1] /\ a \in Aggregates
  BY <1>2, <1>3, ElementOfSeq DEF NextAggregate
<1>5. Cardinality(own) \in Nat
  BY <1>1, FinitePositions
<1>6. Declared(c) = seen[c][a] + Cardinality(own) + 1
  BY DEF Declared
<1> HIDE DEF a, own
<1>7. seen[c][a] \in Nat
  BY <1>1, <1>4
<1>8. Declared(c) \in Nat \ {0}
  BY <1>5, <1>6, <1>7
<1> QED BY <1>3, <1>4, <1>8 DEF a

LEMMA AppendEventInv ==
  ASSUME Inv, NEW c \in Dispatches, AppendEvent(c)
  PROVE  Inv'
<1> DEFINE k == request[c].key
           n == Len(store.events)
           m == emitted[c]
           a == NextAggregate(c)
           e == NextEvent(c)
<1>1. StepOf(c) /\ at[c] = "appending" /\ InTransaction(c) /\ Running(c) /\ m < Len(Emits[k])
  BY DEF AppendEvent, StepOf, DispatchStep, InTransaction, Inv, CommandTypeOK, Running
<1>2. CASE ~Expected(c)
  BY <1>1, <1>2, AbortInv DEF AppendEvent, Inv, CommandTypeOK
<1>3. CASE Expected(c)
  <2>1. /\ k \in Keys /\ result[c] \in Results /\ m \in Nat /\ DraftInv(c)
        /\ seen[c] \in [Aggregates -> Nat] /\ draft \in StoreType /\ store \in StoreType
    BY <1>1 DEF Inv, CallInv, CommandTypeOK, Request
  <2>2. /\ m + 1 \in 1 .. Len(Emits[k]) /\ NextAggregate(c) = Emits[k][m + 1]
        /\ NextAggregate(c) \in Aggregates /\ Declared(c) \in Nat
    BY <1>1, NextEventType
  <2>3. /\ draft' = [draft EXCEPT !.events = Append(draft.events, e),
                                  !.outbox = Append(draft.outbox, e)]
        /\ emitted' = [emitted EXCEPT ![c] = m + 1]
        /\ UNCHANGED <<store, queue, at, request, seen, result, answers, failures>>
    BY <1>3 DEF AppendEvent, WithEvent
  <2>4. Sound(draft.events) /\ draft.events \in Seq(Event) /\ n \in Nat
    BY <2>1, LenProperties DEF DraftInv, StoreType
  <2>5. /\ e \in Event /\ e.version = Version(draft.events, e.aggregate) + 1
        /\ e.aggregate = a /\ e.basis = seen[c][a]
    <3>1. Version(draft.events, a) \in Nat
      BY <2>4, VersionIsCount DEF Sound
    <3>2. Version(draft.events, a) + 1 \in Nat \ {0}
      BY <3>1
    <3> QED BY <2>1, <2>2, <3>2 DEF NextEvent, Event
  <2>6. /\ e.key = k /\ e.aggregate = Emits[k][m + 1] /\ e.result = result[c]
        /\ e.basis = seen[c][Emits[k][m + 1]]
    BY <2>2, <2>5 DEF NextEvent
  <2>17. ASSUME NEW j \in DOMAIN draft.events, draft.events[j].aggregate = a,
                draft.events[j].key # k
         PROVE  draft.events[j].version <= seen[c][a]
    <3> DEFINE own == {i \in 1 .. m : Emits[k][i] = a}
    <3>1. CASE own = {}
      <4>1. Cardinality(own) = 0
        BY <3>1, FS_EmptySet
      <4>2. Declared(c) = seen[c][a] + Cardinality(own) + 1
        BY DEF Declared
      <4>3. seen[c][a] \in Nat
        BY <2>1, <2>2
      <4> HIDE DEF own
      <4>4. Version(draft.events, a) = seen[c][a]
        BY <1>3, <4>1, <4>2, <4>3 DEF Expected
      <4> QED BY <2>4, <2>17, <4>4, VersionIsLargest DEF Sound
    <3>2. CASE own # {}
      <4>1. PICK i \in 1 .. m : Emits[k][i] = a
        BY <3>2
      <4>2. /\ draft.events[n + i].aggregate = a /\ draft.events[n + i].key = k
            /\ draft.events[n + i].basis = seen[c][a]
        BY <2>1, <4>1 DEF DraftInv
      <4>3. DOMAIN draft.events = 1 .. n + m
        BY <2>1, <2>4, LenProperties DEF DraftInv
      <4>4. n + i \in DOMAIN draft.events /\ j < n + i
        <5>1. CASE j <= n
          BY <2>1, <2>4, <4>3, <5>1
        <5>2. CASE ~(j <= n)
          <6>3. j \in 1 .. n + m /\ n \in Nat /\ m \in Nat
            BY <2>1, <2>4, <4>3
          <6> HIDE DEF n, m
          <6>1. j - n \in 1 .. m /\ j = n + (j - n)
            BY <5>2, <6>3
          <6>2. draft.events[n + (j - n)].key = k
            BY <2>1, <6>1 DEF DraftInv, n, m, k
          <6> QED BY <2>17, <6>1, <6>2
        <5> QED BY <5>1, <5>2
      <4>5. DecidedOnLatest(draft.events)
        BY <2>4 DEF Sound
      <4> QED BY <2>17, <4>2, <4>4, <4>5 DEF DecidedOnLatest
    <3> QED BY <3>1, <3>2
  <2> HIDE DEF e
  <2>7. Sound(Append(draft.events, e))
    BY <2>4, <2>5, <2>6, <2>17, AppendSound
  <2>8. /\ draft'.events = Append(draft.events, e) /\ draft'.outbox = Append(draft.outbox, e)
        /\ draft'.commands = draft.commands
    BY <2>1, <2>3 DEF StoreType
  <2>9. /\ Append(draft.events, e) \in Seq(Event)
        /\ Len(Append(draft.events, e)) = Len(draft.events) + 1
        /\ \A i \in 1 .. Len(draft.events) : Append(draft.events, e)[i] = draft.events[i]
        /\ Append(draft.events, e)[Len(draft.events) + 1] = e
    BY <2>4, <2>5, AppendProperties
  <2>10. draft' \in StoreType
    BY <2>1, <2>3, <2>5, <2>9, AppendProperties DEF StoreType
  <2>11. CommandTypeOK'
    BY <2>3, <2>10 DEF Inv, CommandTypeOK
  <2>12. emitted'[c] = m + 1
    BY <2>3 DEF Inv, CommandTypeOK
  <2>13. /\ Len(draft'.events) = n + (m + 1)
         /\ \A i \in 1 .. n : draft'.events[i] = store.events[i]
         /\ \A i \in 1 .. m + 1 : /\ draft'.events[n + i].key = k
                                  /\ draft'.events[n + i].aggregate = Emits[k][i]
                                  /\ draft'.events[n + i].result = result[c]
                                  /\ draft'.events[n + i].basis = seen[c][Emits[k][i]]
    <3>1. Len(draft.events) = n + m
      BY <2>1 DEF DraftInv
    <3>5. n \in Nat /\ m \in Nat
      BY <2>1, <2>4
    <3>6. /\ \A i \in 1 .. n : draft.events[i] = store.events[i]
          /\ \A i \in 1 .. m : /\ draft.events[n + i].key = k
                               /\ draft.events[n + i].aggregate = Emits[k][i]
                               /\ draft.events[n + i].result = result[c]
                               /\ draft.events[n + i].basis = seen[c][Emits[k][i]]
      BY <2>1 DEF DraftInv
    <3> HIDE DEF n, m, k
    <3>2. Len(draft'.events) = n + (m + 1)
      BY <2>8, <2>9, <3>1, <3>5
    <3>3. ASSUME NEW i \in 1 .. n PROVE draft'.events[i] = store.events[i]
      <4>1. i \in 1 .. Len(draft.events)
        BY <3>1, <3>5
      <4> QED BY <2>8, <2>9, <3>6, <4>1
    <3>4. ASSUME NEW i \in 1 .. m + 1
          PROVE  /\ draft'.events[n + i].key = k
                 /\ draft'.events[n + i].aggregate = Emits[k][i]
                 /\ draft'.events[n + i].result = result[c]
                 /\ draft'.events[n + i].basis = seen[c][Emits[k][i]]
      <4>1. CASE i = m + 1
        <5>1. n + i = Len(draft.events) + 1
          BY <3>1, <3>5, <4>1
        <5> QED BY <2>6, <2>8, <2>9, <4>1, <5>1
      <4>2. CASE i # m + 1
        <5>1. i \in 1 .. m /\ n + i \in 1 .. Len(draft.events)
          BY <3>1, <3>5, <4>2
        <5> QED BY <2>8, <2>9, <3>6, <5>1
      <4> QED BY <4>1, <4>2
    <3> QED BY <3>2, <3>3, <3>4
  <2>14. m + 1 <= Len(Emits[k])
    BY <2>2
  <2>15. DraftInv(c)'
    <3>1. /\ store.commands[k] = Nothing /\ draft.outbox = draft.events
          /\ draft.commands = [store.commands EXCEPT ![k] = Record(c, Nothing)]
      BY <1>1, <2>1 DEF DraftInv
    <3>2. /\ store' = store /\ at'[c] = "appending" /\ request' = request
          /\ Record(c, Nothing)' = Record(c, Nothing)
      BY <1>1, <2>3 DEF Record
    <3>3. draft'.outbox = draft'.events /\ Sound(draft'.events)
      BY <2>7, <2>8, <3>1
    <3>4. draft'.commands = [store.commands EXCEPT ![k] = Record(c, Nothing)]
      BY <2>8, <3>1
    <3>5. /\ store'.commands[request'[c].key] = Nothing
          /\ draft'.commands = [store'.commands EXCEPT ![request'[c].key] =
                 [body |-> request'[c].body,
                  result |-> IF at'[c] = "committing" THEN result'[c] ELSE Nothing]]
          /\ draft'.outbox = draft'.events /\ emitted'[c] <= Len(Emits[request'[c].key])
          /\ at'[c] = "handling" => emitted'[c] = 0
          /\ at'[c] = "committing" => emitted'[c] = Len(Emits[request'[c].key])
      BY <2>12, <2>14, <3>1, <3>2, <3>3, <3>4 DEF Record
    <3>9. /\ store'.events = store.events /\ emitted'[c] = m + 1 /\ request'[c].key = k
          /\ result'[c] = result[c] /\ seen' = seen
      BY <2>3, <2>12, <3>2
    <3>6. /\ Len(draft'.events) = Len(store'.events) + emitted'[c]
          /\ \A i \in 1 .. Len(store'.events) : draft'.events[i] = store'.events[i]
          /\ \A i \in 1 .. emitted'[c] :
                 /\ draft'.events[Len(store'.events) + i].key = request'[c].key
                 /\ draft'.events[Len(store'.events) + i].aggregate = Emits[request'[c].key][i]
                 /\ draft'.events[Len(store'.events) + i].result = result'[c]
                 /\ draft'.events[Len(store'.events) + i].basis = seen'[c][Emits[request'[c].key][i]]
      BY ONLY <2>13, <3>9
    <3>8. Sound(draft'.events)
      BY <3>3
    <3>7. Sound(draft.events)'
      BY ONLY <3>8 DEF Sound, Numbered, DecidedOnLatest
    <3> QED BY <3>5, <3>6, <3>7 DEF DraftInv, Record
  <2>16. CallInv(c)'
    BY <1>1, <2>1, <2>3, <2>15 DEF CallInv, Inv
  <2> QED BY <1>1, <2>3, <2>11, <2>16, OneCallStep
<1> QED BY <1>2, <1>3

LEMMA CompleteInv ==
  ASSUME Inv, NEW c \in Dispatches, Complete(c)
  PROVE  Inv'
<1> DEFINE k == request[c].key
<1>1. StepOf(c) /\ at[c] = "appending" /\ Running(c) /\ emitted[c] = Len(Emits[k])
  BY DEF Complete, StepOf, DispatchStep, Inv, CommandTypeOK, Running
<1>2. /\ k \in Keys /\ request[c].body \in Bodies /\ result[c] \in Results
      /\ DraftInv(c) /\ draft \in StoreType /\ store \in StoreType
  BY <1>1 DEF Inv, CallInv, CommandTypeOK, Request, InTransaction
<1>3. /\ draft' = [draft EXCEPT !.commands[k].result = result[c]]
      /\ at' = [at EXCEPT ![c] = "committing"]
      /\ UNCHANGED <<store, queue, request, seen, result, emitted, answers, failures>>
  BY DEF Complete, Completed
<1>4. draft.commands[k] = Record(c, Nothing)
  BY <1>1, <1>2 DEF DraftInv, StoreType
<1>5. [draft.commands[k] EXCEPT !.result = result[c]] = Record(c, result[c])
  BY <1>4 DEF Record
<1>6. /\ draft'.commands = [draft.commands EXCEPT ![k] = Record(c, result[c])]
      /\ draft'.events = draft.events /\ draft'.outbox = draft.outbox
  BY <1>2, <1>3, <1>5 DEF StoreType
<1>7. Record(c, result[c]) \in Command
  BY <1>2 DEF Record, Command
<1>8. draft' \in StoreType
  <2>1. draft' = [commands |-> draft'.commands, events |-> draft.events, outbox |-> draft.outbox]
    BY <1>2, <1>3, <1>6 DEF StoreType
  <2>2. draft'.commands \in [Keys -> Command \union {Nothing}]
    BY <1>2, <1>6, <1>7 DEF StoreType
  <2> QED BY <1>2, <2>1, <2>2 DEF StoreType
<1>9. CommandTypeOK'
  BY <1>1, <1>3, <1>8 DEF Inv, CommandTypeOK, Running, Awaits
<1>10. at'[c] = "committing"
  BY <1>3 DEF Inv, CommandTypeOK
<1>11. draft'.commands = [store.commands EXCEPT ![k] = Record(c, result[c])]
  BY <1>1, <1>2, <1>6 DEF DraftInv, StoreType
<1>14. /\ store.commands[k] = Nothing /\ draft.outbox = draft.events
       /\ Len(draft.events) = Len(store.events) + emitted[c]
       /\ \A i \in 1 .. Len(store.events) : draft.events[i] = store.events[i]
       /\ \A i \in 1 .. emitted[c] : /\ draft.events[Len(store.events) + i].key = k
                                   /\ draft.events[Len(store.events) + i].aggregate = Emits[k][i]
                                   /\ draft.events[Len(store.events) + i].result = result[c]
                                   /\ draft.events[Len(store.events) + i].basis = seen[c][Emits[k][i]]
       /\ Sound(draft.events) /\ emitted[c] <= Len(Emits[k])
  BY <1>2 DEF DraftInv
<1>15. /\ store' = store /\ at'[c] = "committing" /\ request' = request
       /\ Record(c, result[c])' = Record(c, result[c]) /\ result'[c] = result[c]
       /\ emitted'[c] = emitted[c] /\ emitted[c] = Len(Emits[k])
  BY <1>1, <1>3, <1>6, <1>10 DEF Record
<1>16. /\ store'.commands[request'[c].key] = Nothing
       /\ draft'.commands = [store'.commands EXCEPT ![request'[c].key] =
              [body |-> request'[c].body,
               result |-> IF at'[c] = "committing" THEN result'[c] ELSE Nothing]]
       /\ draft'.outbox = draft'.events /\ emitted'[c] <= Len(Emits[request'[c].key])
       /\ at'[c] = "handling" => emitted'[c] = 0
       /\ at'[c] = "committing" => emitted'[c] = Len(Emits[request'[c].key])
  BY <1>3, <1>6, <1>11, <1>14, <1>15 DEF Record
<1>19. /\ store'.events = store.events /\ draft'.events = draft.events
       /\ emitted'[c] = emitted[c] /\ request'[c].key = k /\ result'[c] = result[c] /\ seen' = seen
  BY <1>3, <1>6, <1>15
<1>17. /\ Len(draft'.events) = Len(store'.events) + emitted'[c]
       /\ \A i \in 1 .. Len(store'.events) : draft'.events[i] = store'.events[i]
       /\ \A i \in 1 .. emitted'[c] :
              /\ draft'.events[Len(store'.events) + i].key = request'[c].key
              /\ draft'.events[Len(store'.events) + i].aggregate = Emits[request'[c].key][i]
              /\ draft'.events[Len(store'.events) + i].result = result'[c]
              /\ draft'.events[Len(store'.events) + i].basis = seen'[c][Emits[request'[c].key][i]]
  BY <1>14, <1>19
<1>20. Sound(draft'.events)
  BY <1>14, <1>19
<1>18. Sound(draft.events)'
  BY ONLY <1>20 DEF Sound, Numbered, DecidedOnLatest
<1>12. DraftInv(c)'
  BY <1>16, <1>17, <1>18 DEF DraftInv, Record
<1>13. CallInv(c)'
  BY <1>1, <1>2, <1>3, <1>10, <1>12 DEF CallInv, Inv
<1> QED BY <1>1, <1>3, <1>9, <1>13, OneCallStep

\* What a call commits: its command with its events behind the stream, and nothing
\* else.
LEMMA Committed ==
  ASSUME Inv, NEW c \in Dispatches, CommitCommand(c)
  PROVE  LET k == request[c].key
             n == Len(store.events)
         IN  /\ at[c] = "committing" /\ Running(c) /\ DraftInv(c)
             /\ request[c] \in Request /\ result[c] \in Results
             /\ store' = draft
             /\ store.commands[k] = Nothing
             /\ store'.commands = [store.commands EXCEPT ![k] = Record(c, result[c])]
             /\ n \in Nat /\ Len(Emits[k]) \in Nat
             /\ DOMAIN store.events = 1 .. n
             /\ DOMAIN store'.events = 1 .. n + Len(Emits[k])
             /\ \A i \in 1 .. n : store'.events[i] = store.events[i]
             /\ \A i \in 1 .. Len(Emits[k]) :
                    /\ store'.events[n + i].key = k
                    /\ store'.events[n + i].aggregate = Emits[k][i]
                    /\ store'.events[n + i].result = result[c]
<1> DEFINE k == request[c].key
           n == Len(store.events)
<1>1. /\ at[c] = "committing" /\ InTransaction(c) /\ Running(c) /\ store' = draft
      /\ draft \in StoreType /\ store \in StoreType
  BY DEF CommitCommand, Commit, InTransaction, Inv, CommandTypeOK, Running
<1>2. DraftInv(c) /\ request[c] \in Request /\ result[c] \in Results
  BY <1>1 DEF Inv, CallInv
<1>3. k \in Keys /\ emitted[c] = Len(Emits[k])
  BY <1>1, <1>2 DEF DraftInv, Request
<1>4. n \in Nat /\ Len(Emits[k]) \in Nat /\ DOMAIN store.events = 1 .. n
  BY <1>1, <1>3, EmitsAssumption, LenProperties DEF StoreType
<1>5. Len(draft.events) = n + Len(Emits[k])
  BY <1>2, <1>3 DEF DraftInv
<1>6. DOMAIN draft.events = 1 .. n + Len(Emits[k])
  BY <1>1, <1>5, LenProperties DEF StoreType
<1> QED BY <1>1, <1>2, <1>3, <1>4, <1>6 DEF DraftInv

LEMMA CommitKeepsAllOrNothing ==
  ASSUME Inv, NEW c \in Dispatches, CommitCommand(c)
  PROVE  AllOrNothing'
<1>0. PICK k \in Keys : k = request[c].key
  BY Committed DEF Request
<1> DEFINE n == Len(store.events)
           m == Len(Emits[k])
<1>1. k \in Keys /\ request[c].body \in Bodies /\ result[c] \in Results
  BY <1>0, Committed DEF Request
<1>2. /\ store'.commands = [store.commands EXCEPT ![k] = Record(c, result[c])]
      /\ store.commands[k] = Nothing
      /\ n \in Nat /\ m \in Nat /\ DOMAIN store.events = 1 .. n /\ DOMAIN store'.events = 1 .. n + m
      /\ \A i \in 1 .. n : store'.events[i] = store.events[i]
      /\ \A i \in 1 .. m : /\ store'.events[n + i].key = k
                           /\ store'.events[n + i].aggregate = Emits[k][i]
                           /\ store'.events[n + i].result = result[c]
  BY <1>0, Committed
<1>3. store'.outbox = store'.events /\ Len(store'.events) = n + m
  BY <1>0, Committed DEF DraftInv
<1>4. Own(k) = {}
  BY <1>1, <1>2 DEF Inv, AllOrNothing
<1>5. DOMAIN store.commands = Keys
  BY DEF Inv, CommandTypeOK, StoreType
<1> DEFINE new == Record(c, result[c])
<1>6. new # Nothing /\ new.result = result[c] /\ new.result # Nothing
  BY <1>1, RecordIsSomething, NothingAssumption DEF Record
<1> HIDE DEF n, m, new
<1>7. ASSUME NEW i \in 1 .. n + m
      PROVE  i \in 1 .. n \/ \E j \in 1 .. m : i = n + j
  <2>1. CASE i <= n
    BY <1>2, <2>1
  <2>2. CASE ~(i <= n)
    <3>1. i - n \in 1 .. m /\ i = n + (i - n)
      BY <1>2, <2>2
    <3> QED BY <3>1
  <2> QED BY <2>1, <2>2
<1>8. \A i \in 1 .. n : i \in 1 .. n + m
  BY <1>2
<1>9. ASSUME NEW kk \in Keys
      PROVE  IF store'.commands[kk] = Nothing THEN Own(kk)' = {}
             ELSE /\ store'.commands[kk].result # Nothing
                  /\ \E p \in 0 .. Len(store'.events) :
                         /\ Own(kk)' = p + 1 .. p + Len(Emits[kk])
                         /\ \A i \in DOMAIN Emits[kk] :
                                /\ store'.events[p + i].aggregate = Emits[kk][i]
                                /\ store'.events[p + i].result = store'.commands[kk].result
  <2>1. CASE kk = k
    <3>1. store'.commands[kk] = new
      BY <1>1, <1>2, <1>5, <2>1 DEF new
    <3>2. DOMAIN Emits[k] = 1 .. m
      BY <1>1, EmitsAssumption, LenProperties DEF m
    <3>3. \A i \in 1 .. n : store'.events[i].key # k
      BY <1>2, <1>4 DEF Own
    <3>4. Own(k)' = n + 1 .. n + m
      <4>1. ASSUME NEW i \in Own(k)' PROVE i \in n + 1 .. n + m
        <5>1. i \in 1 .. n + m /\ store'.events[i].key = k
          BY <1>2 DEF Own
        <5>2. PICK j \in 1 .. m : i = n + j
          BY <1>7, <3>3, <5>1
        <5> QED BY <1>2, <5>2
      <4>2. ASSUME NEW i \in n + 1 .. n + m PROVE i \in Own(k)'
        <5>1. i - n \in 1 .. m /\ i = n + (i - n) /\ i \in 1 .. n + m
          BY <1>2
        <5>2. store'.events[i].key = k
          BY <1>2, <5>1
        <5> QED BY <1>2, <5>1, <5>2 DEF Own
      <4> QED BY <4>1, <4>2
    <3>5. n \in 0 .. Len(store'.events)
      BY <1>2, <1>3
    <3> QED BY <1>2, <1>6, <2>1, <3>1, <3>2, <3>4, <3>5 DEF m
  <2>2. CASE kk # k
    <3>1. store'.commands[kk] = store.commands[kk]
      BY <1>2, <1>5, <2>2
    <3>2. Own(kk)' = Own(kk)
      <4>1. ASSUME NEW i \in Own(kk)' PROVE i \in Own(kk)
        <5>1. i \in 1 .. n + m /\ store'.events[i].key = kk
          BY <1>2 DEF Own
        <5>2. i \in 1 .. n
          BY <1>2, <1>7, <2>2, <5>1
        <5> QED BY <1>2, <5>1, <5>2 DEF Own
      <4>2. ASSUME NEW i \in Own(kk) PROVE i \in Own(kk)'
        BY <1>2, <1>8 DEF Own
      <4> QED BY <4>1, <4>2
    <3>3. CASE store.commands[kk] = Nothing
      BY <3>1, <3>2, <3>3 DEF Inv, AllOrNothing
    <3>4. CASE store.commands[kk] # Nothing
      <4>1. /\ store.commands[kk].result # Nothing
            /\ \E p \in 0 .. n : /\ Own(kk) = p + 1 .. p + Len(Emits[kk])
                                 /\ \A i \in DOMAIN Emits[kk] :
                                        /\ store.events[p + i].aggregate = Emits[kk][i]
                                        /\ store.events[p + i].result = store.commands[kk].result
        BY <3>4 DEF Inv, AllOrNothing, n
      <4>2. PICK p \in 0 .. n : /\ Own(kk) = p + 1 .. p + Len(Emits[kk])
                                /\ \A i \in DOMAIN Emits[kk] :
                                       /\ store.events[p + i].aggregate = Emits[kk][i]
                                       /\ store.events[p + i].result = store.commands[kk].result
        BY <4>1
      <4>3. p \in 0 .. Len(store'.events)
        BY <1>2, <1>3
      <4>4. DOMAIN Emits[kk] = 1 .. Len(Emits[kk]) /\ Len(Emits[kk]) \in Nat
        BY EmitsAssumption, LenProperties
      <4>5. ASSUME NEW i \in DOMAIN Emits[kk] PROVE store'.events[p + i] = store.events[p + i]
        <5>1. p + i \in p + 1 .. p + Len(Emits[kk])
          BY <1>2, <4>4
        <5>2. p + i \in 1 .. n
          BY <1>2, <4>2, <5>1 DEF Own
        <5> QED BY <1>2, <5>2
      <4> QED BY <3>1, <3>2, <3>4, <4>1, <4>2, <4>3, <4>5
    <3> QED BY <3>3, <3>4
  <2> QED BY <2>1, <2>2
<1> QED BY <1>3, <1>9 DEF AllOrNothing

LEMMA CommitInv ==
  ASSUME Inv, NEW c \in Dispatches, CommitCommand(c)
  PROVE  Inv'
<1> DEFINE k == request[c].key
<1>1. /\ at[c] = "committing" /\ Running(c) /\ DraftInv(c) /\ store' = draft
      /\ request[c] \in Request /\ result[c] \in Results /\ store.commands[k] = Nothing
      /\ store'.commands = [store.commands EXCEPT ![k] = Record(c, result[c])]
  BY Committed
<1>2. /\ queue' \in Seq(Dispatches) /\ at' \in [Dispatches -> Awaits]
      /\ \A d \in Dispatches : ~InTransaction(d)'
  BY <1>1, Dequeued DEF CommitCommand, Commit, Inv, Awaits
<1>3. draft' \in StoreType
  BY DEF CommitCommand, Commit, EmptyStore, StoreType
<1>4. CommandTypeOK'
  BY <1>1, <1>2, <1>3 DEF CommitCommand, Commit, Inv, CommandTypeOK, InTransaction
<1>5. SoundEvents'
  BY <1>1 DEF DraftInv, SoundEvents
<1>6. k \in Keys /\ DOMAIN store.commands = Keys
  BY <1>1 DEF Request, Inv, CommandTypeOK, StoreType
<1>7. Grows
  BY <1>1, <1>6 DEF Grows
<1>8. ASSUME NEW d \in Dispatches PROVE CallInv(d)'
  <2>1. CASE d = c
    BY <1>1, <1>2, <1>6, <2>1 DEF CommitCommand, Commit, CallInv, Inv, CommandTypeOK, Record
  <2>2. CASE d # c
    <3>1. SameCall(d)
      BY <2>2, OthersKept DEF Inv, StepOf, DispatchStep
    <3>2. ~InTransaction(d)
      BY <1>1, <2>2, OneTransaction DEF Inv
    <3> QED BY <1>7, <3>1, <3>2, OtherCall DEF Inv
  <2> QED BY <2>1, <2>2
<1> QED BY <1>4, <1>5, <1>8, CommitKeepsAllOrNothing DEF Inv

LEMMA LeaveInv ==
  ASSUME Inv, NEW c \in Dispatches, Answer(c) \/ Fail(c)
  PROVE  Inv'
<1>1. /\ StepOf(c) /\ Leave(c) /\ UNCHANGED <<store, draft, queue, failures>>
  BY DEF Answer, Fail, StepOf, DispatchStep
<1>2. CommandTypeOK'
  BY <1>1 DEF Leave, Inv, CommandTypeOK, Awaits
<1>3. CallInv(c)'
  BY <1>1 DEF Leave, Inv, CommandTypeOK, CallInv, InTransaction
<1> QED BY <1>1, <1>2, <1>3, OneCallStep

LEMMA HandlerThrowsInv ==
  ASSUME Inv, NEW c \in Dispatches, HandlerThrows(c)
  PROVE  Inv'
<1>1. at[c] = "handling" /\ Running(c) /\ StepOf(c)
  BY DEF HandlerThrows, Inv, CommandTypeOK, Running, StepOf
<1>2. failures' \in 0 .. MaxFailures
  BY FailuresAssumption DEF HandlerThrows, Inv, CommandTypeOK
<1> QED BY <1>1, <1>2, AbortInv DEF HandlerThrows

LEMMA ProcessDiesInv ==
  ASSUME Inv, ProcessDies
  PROVE  Inv'
<1>1. draft' \in StoreType /\ queue' \in Seq(Dispatches) /\ failures' \in 0 .. MaxFailures
  BY FailuresAssumption DEF ProcessDies, EmptyStore, StoreType, Inv, CommandTypeOK
<1>2. CommandTypeOK'
  BY <1>1 DEF ProcessDies, Inv, CommandTypeOK, Awaits
<1>3. AllOrNothing' /\ SoundEvents'
  BY SameStore DEF ProcessDies, Inv
<1>4. \A c \in Dispatches : CallInv(c)'
  BY DEF ProcessDies, CallInv, InTransaction
<1> QED BY <1>2, <1>3, <1>4 DEF Inv

LEMMA InvStep == Inv /\ [CommandNext]_commandVars => Inv'
<1> SUFFICES ASSUME Inv, [CommandNext]_commandVars PROVE Inv'
  OBVIOUS
<1>1. ASSUME NEW c \in Dispatches, StepOf(c) PROVE Inv'
  BY <1>1, DispatchInv, AuthorizeInv, ReplayInv, ReserveInv, HandleInv, AppendEventInv,
     CompleteInv, CommitInv, LeaveInv, HandlerThrowsInv DEF StepOf, DispatchStep
<1>2. CASE ProcessDies
  BY <1>2, ProcessDiesInv
<1>3. CASE UNCHANGED commandVars
  <2>1. UNCHANGED <<store, draft, queue, at, request, seen, result, emitted, failures>>
    BY <1>3 DEF commandVars, dispatchVars
  <2>2. CommandTypeOK'
    BY <2>1 DEF Inv, CommandTypeOK
  <2>3. AllOrNothing' /\ SoundEvents' /\ Grows
    BY <2>1, SameStore DEF Inv
  <2>4. \A c \in Dispatches : CallInv(c)'
    BY <2>1, <2>3, OtherCall DEF Inv, SameCall
  <2> QED BY <2>2, <2>3, <2>4 DEF Inv
<1> QED BY <1>1, <1>2, <1>3 DEF CommandNext, StepOf

-----------------------------------------------------------------------------
(* Theorems.                                                               *)

LEMMA InvHolds == CommandSpec => []Inv
  BY InvInit, InvStep, PTL DEF CommandSpec

\* The dispatcher and its store stay well typed, one transaction at a time.
THEOREM CommandTypeCorrect == CommandSpec => []CommandTypeOK
<1>1. Inv => CommandTypeOK
  BY DEF Inv
<1> QED BY <1>1, InvHolds, PTL

\* A command is in the store with its result and the events of one execution, or
\* not at all, whichever await throws or is interrupted.
THEOREM AllOrNothingHolds == CommandSpec => []AllOrNothing
<1>1. Inv => AllOrNothing
  BY DEF Inv
<1> QED BY <1>1, InvHolds, PTL

\* No command commits events decided on a stale aggregate, however many commands were
\* dispatched on the same version of it.
THEOREM NoStaleDecisionHolds == CommandSpec => []NoStaleDecision
<1>1. Inv => NoStaleDecision
  BY DEF Inv, SoundEvents, Sound, NoStaleDecision
<1> QED BY <1>1, InvHolds, PTL

-----------------------------------------------------------------------------
(* Refinement.                                                             *)

\* What the abstract commands see of a store.
Done == [k \in Keys |-> IF store.commands[k] = Nothing THEN Nothing
                        ELSE <<store.commands[k].body, store.commands[k].result>>]
Entry(e) == <<e.key, e.result, e.aggregate>>
Log == [i \in DOMAIN store.events |-> Entry(store.events[i])]
Entries == Keys \X Results \X Aggregates

LEMMA LogType ==
  ASSUME store.events \in Seq(Event)
  PROVE  Log \in Seq(Entries) /\ Len(Log) = Len(store.events)
<1>1. Len(store.events) \in Nat /\ DOMAIN store.events = 1 .. Len(store.events)
  BY LenProperties
<1>2. ASSUME NEW i \in DOMAIN store.events PROVE Entry(store.events[i]) \in Entries
  <2>1. store.events[i] \in Event
    BY <1>1, ElementOfSeq
  <2> QED BY <2>1 DEF Event, Entry, Entries
<1>3. Log \in [1 .. Len(store.events) -> Entries]
  BY <1>1, <1>2 DEF Log
<1> QED BY <1>1, <1>3, SeqDef, LenProperties

LEMMA CommitExecutes ==
  ASSUME Inv, NEW c \in Dispatches, CommitCommand(c)
  PROVE  \E k \in Keys, b \in Bodies, r \in Results : Atomic!Execute(k, b, r)
<1>0. PICK k \in Keys : k = request[c].key
  BY Committed DEF Request
<1>1. PICK n \in Nat : n = Len(store.events)
  BY Committed
<1>2. PICK m \in Nat : m = Len(Emits[k])
  BY <1>0, Committed
<1>8. PICK b \in Bodies, r \in Results : b = request[c].body /\ r = result[c]
  BY Committed DEF Request
<1> DEFINE effect == [i \in DOMAIN Emits[k] |-> <<k, r, Emits[k][i]>>]
<1>3. /\ store.commands[k] = Nothing
      /\ store'.commands = [store.commands EXCEPT ![k] = Record(c, r)]
      /\ DOMAIN store.events = 1 .. n /\ DOMAIN store'.events = 1 .. n + m
      /\ \A i \in 1 .. n : store'.events[i] = store.events[i]
      /\ \A i \in 1 .. m : Entry(store'.events[n + i]) = <<k, r, Emits[k][i]>>
  BY <1>0, <1>1, <1>2, <1>8, Committed DEF Entry
<1>4. DOMAIN store.commands = Keys /\ store.events \in Seq(Event) /\ store'.events \in Seq(Event)
  <2>1. CommandTypeOK' /\ CommandTypeOK
    BY CommitInv DEF Inv
  <2> QED BY <2>1 DEF CommandTypeOK, StoreType
<1>5. Done[k] = Nothing
  BY <1>3 DEF Done
<1>6. Done' = [Done EXCEPT ![k] = <<b, r>>]
  <2>1. Record(c, r) # Nothing /\ Record(c, r).body = b /\ Record(c, r).result = r
    BY <1>8, RecordIsSomething DEF Record
  <2>2. ASSUME NEW kk \in Keys PROVE Done'[kk] = [Done EXCEPT ![k] = <<b, r>>][kk]
    BY <1>3, <1>4, <2>1 DEF Done
  <2> QED BY <2>2 DEF Done
<1>7. Log' = Log \o effect
  <2>1. Log \in Seq(Entries) /\ Log' \in Seq(Entries) /\ Len(Log) = n /\ Len(Log') = n + m
    <3>1. Log \in Seq(Entries) /\ Len(Log) = n
      BY <1>1, <1>4, LogType
    <3>2. Log' \in [1 .. n + m -> Entries]
      <4>1. ASSUME NEW i \in 1 .. n + m PROVE Entry(store'.events[i]) \in Entries
        <5>1. store'.events[i] \in Event
          BY <1>3, <1>4, ElementOfSeq, LenProperties
        <5> QED BY <5>1 DEF Event, Entry, Entries
      <4> QED BY <1>3, <4>1 DEF Log
    <3>3. n + m \in Nat
      OBVIOUS
    <3> QED BY <3>1, <3>2, <3>3, SeqDef, LenProperties
  <2>2. effect \in Seq(Entries) /\ Len(effect) = m
    <3>1. DOMAIN Emits[k] = 1 .. m /\ \A i \in 1 .. m : Emits[k][i] \in Aggregates
      BY <1>2, EmitsAssumption, LenProperties, ElementOfSeq
    <3>2. effect \in [1 .. m -> Entries]
      BY <1>3, <3>1 DEF Entries
    <3> QED BY <3>2, SeqDef, LenProperties
  <2>3. /\ Log \o effect \in Seq(Entries) /\ Len(Log \o effect) = n + m
        /\ \A i \in 1 .. n : (Log \o effect)[i] = Log[i]
        /\ \A i \in 1 .. m : (Log \o effect)[n + i] = effect[i]
    <3>1. /\ Log \o effect \in Seq(Entries) /\ Len(Log \o effect) = n + m
          /\ \A i \in 1 .. n + m : (Log \o effect)[i] = IF i <= n THEN Log[i] ELSE effect[i - n]
      <4> HIDE DEF effect
      <4> QED BY <2>1, <2>2, ConcatProperties
    <3> HIDE DEF effect
    <3>2. ASSUME NEW i \in 1 .. n PROVE (Log \o effect)[i] = Log[i]
      <4>1. i \in 1 .. n + m /\ i <= n
        OBVIOUS
      <4> QED BY <3>1, <4>1
    <3>3. ASSUME NEW i \in 1 .. m PROVE (Log \o effect)[n + i] = effect[i]
      <4>1. n + i \in 1 .. n + m /\ ~(n + i <= n) /\ (n + i) - n = i
        OBVIOUS
      <4> QED BY <3>1, <4>1
    <3> QED BY <3>1, <3>2, <3>3
  <2>4. ASSUME NEW i \in 1 .. n + m PROVE Log'[i] = (Log \o effect)[i]
    <3>1. CASE i <= n
      <4>1. i \in 1 .. n
        BY <3>1
      <4> QED BY <1>3, <2>3, <4>1 DEF Log
    <3>2. CASE ~(i <= n)
      <4>1. PICK j \in 1 .. m : i = n + j
        <5>1. i - n \in 1 .. m /\ i = n + (i - n)
          BY <3>2
        <5> QED BY <5>1
      <4>2. j \in DOMAIN Emits[k]
        BY <1>2, EmitsAssumption, LenProperties
      <4>3. Log'[i] = Entry(store'.events[i])
        BY <1>3 DEF Log
      <4>4. effect[j] = <<k, r, Emits[k][j]>>
        BY <4>2
      <4> QED BY <1>3, <2>3, <4>1, <4>3, <4>4
    <3> QED BY <3>1, <3>2
  <2> HIDE DEF effect
  <2> QED BY <2>1, <2>3, <2>4, SeqEqual
<1>9. Atomic!Execute(k, b, r)
  BY <1>5, <1>6, <1>7 DEF CommitCommand, Done, Log, Entry, Atomic!Execute, Atomic!Effect
<1> QED BY <1>9

\* Each step of the dispatcher is an atomic command, an answer, or not to be seen.
LEMMA StepImplements ==
  ASSUME Inv, [CommandNext]_commandVars
  PROVE  [Atomic!Next]_Atomic!vars
<1>1. ASSUME UNCHANGED <<store, answers>> PROVE UNCHANGED Atomic!vars
  BY <1>1 DEF Atomic!vars
<1>2. ASSUME NEW c \in Dispatches, CommitCommand(c) PROVE Atomic!Next
  BY <1>2, CommitExecutes DEF Atomic!Next
<1>3. ASSUME NEW c \in Dispatches, Answer(c) PROVE Atomic!Next
  <2>1. /\ request[c] \in Request /\ result[c] \in Results
        /\ store.commands[request[c].key] = Record(c, result[c])
    BY <1>3 DEF Answer, Inv, CallInv
  <2>2. request[c].key \in Keys /\ request[c].body \in Bodies
    BY <2>1 DEF Request
  <2>3. /\ Record(c, result[c]) # Nothing /\ Record(c, result[c]).body = request[c].body
        /\ Record(c, result[c]).result = result[c]
    BY <2>1, <2>2, RecordIsSomething DEF Record
  <2>4. Atomic!Answer(request[c].key, request[c].body, result[c])
    BY <1>3, <2>1, <2>2, <2>3 DEF Answer, Atomic!Answer
  <2> QED BY <2>1, <2>2, <2>4 DEF Atomic!Next
<1>4. ASSUME NEW c \in Dispatches,
             Dispatch(c) \/ Authorize(c) \/ Replay(c) \/ Reserve(c) \/ Handle(c)
             \/ AppendEvent(c) \/ Complete(c) \/ Fail(c) \/ HandlerThrows(c)
      PROVE  UNCHANGED <<store, answers>>
  BY <1>4 DEF Dispatch, Authorize, Replay, Reserve, Handle, AppendEvent, Complete, Fail,
              HandlerThrows, Abort
<1>5. CASE ProcessDies
  BY <1>1, <1>5 DEF ProcessDies
<1>6. CASE UNCHANGED commandVars
  BY <1>1, <1>6 DEF commandVars
<1> QED BY <1>1, <1>2, <1>3, <1>4, <1>5, <1>6 DEF CommandNext, DispatchStep

LEMMA InitImplements == CommandInit => Atomic!Init
<1> SUFFICES ASSUME CommandInit PROVE Atomic!Init
  OBVIOUS
<1>1. store.events = << >> /\ (\A k \in Keys : store.commands[k] = Nothing) /\ answers = {}
  BY DEF CommandInit, EmptyStore
<1> QED BY <1>1 DEF Atomic!Init

\* The dispatcher implements atomic commands: with all its awaits, queues, drafts and
\* crashes, every key is executed once and at once, and every answer is the result
\* of that execution.
THEOREM ImplementsAtomicCommandsHolds == CommandSpec => ImplementsAtomicCommands
<1>1. Inv /\ [CommandNext]_commandVars => [Atomic!Next]_Atomic!vars
  BY StepImplements
<1> QED BY <1>1, InitImplements, InvHolds, PTL
    DEF CommandSpec, ImplementsAtomicCommands, Atomic!Spec

-----------------------------------------------------------------------------
(* OutboxDispatch.                                                         *)

USE RowsAssumption, CallsAssumption, NoneAssumption, DurationAssumption, BoundsAssumption

\* Counting in a function on the rows keeps its values natural numbers ...
LEMMA CountUp ==
    ASSUME NEW S, NEW f \in [S -> Nat], NEW x \in S, NEW k \in Nat
    PROVE  [f EXCEPT ![x] = @ + k] \in [S -> Nat]
<1> DEFINE n == f[x] + k
<1> n \in Nat
  OBVIOUS
<1> HIDE DEF n
<1> [f EXCEPT ![x] = n] \in [S -> Nat]
  OBVIOUS
<1> QED
  BY DEF n

\* ... and never lowers one of them.
LEMMA CountUpGrows ==
    ASSUME NEW S, NEW f \in [S -> Nat], NEW x \in S, NEW k \in Nat,
           NEW g, g = [f EXCEPT ![x] = @ + k]
    PROVE  /\ \A y \in S : g[y] >= f[y]
           /\ g[x] >= k
<1>1. \A y \in S : f[y] \in Nat
  OBVIOUS
<1>2. g[x] = f[x] + k /\ \A y \in S : y # x => g[y] = f[y]
  OBVIOUS
<1> QED
  BY <1>1, <1>2

\* A working call works on a row of its tenant.
LEMMA WorksOnRow ==
    TypeOK => \A c \in Calls : Working(c) => /\ current[c] \in Rows
                                             /\ DispatcherOf[c] # None
<1> SUFFICES ASSUME TypeOK, NEW c \in Calls, Working(c)
             PROVE  current[c] \in Rows /\ DispatcherOf[c] # None
  OBVIOUS
<1>1. enqueued \subseteq Rows /\ current[c] \in enqueued \union {None}
  BY DEF TypeOK
<1>2. current[c] # None
  BY DEF TypeOK
<1> QED
  BY <1>1, <1>2

\* Every initial state is well typed.
LEMMA TypeInit == Init => TypeOK
  BY DEF Init, TypeOK, Places, Working

\* Every step of the outbox keeps the variables in their types.
LEMMA TypeStep == TypeOK /\ [Next]_vars => TypeOK'
<1> SUFFICES ASSUME TypeOK, [Next]_vars PROVE TypeOK'
  OBVIOUS
<1> USE DEF TypeOK, Places, Working, rowVars, callVars
<1>1. ASSUME NEW r \in Rows, Enqueue(r) PROVE TypeOK'
  <2> /\ todo' \in [Calls -> SUBSET enqueued']
      /\ current' \in [Calls -> enqueued' \union {None}]
    BY <1>1 DEF Enqueue
  <2> availableAt' \in [Rows -> Nat]
    <3> PICK t \in {clock, clock + 1} : availableAt' = [availableAt EXCEPT ![r] = t]
      BY <1>1 DEF Enqueue
    <3> QED
      OBVIOUS
  <2> QED
    BY <1>1 DEF Enqueue
<1>2. ASSUME NEW c \in Calls, Begin(c) PROVE TypeOK'
  BY <1>2 DEF Begin
<1>3. ASSUME NEW c \in Calls, Claim(c) PROVE TypeOK'
  BY <1>3 DEF Claim, Claimable
<1>4. ASSUME NEW c \in Calls, NextRecord(c) PROVE TypeOK'
  <2>1. PICK r \in todo[c] : todo' = [todo EXCEPT ![c] = @ \ {r}] /\ Take(c, r)
    BY <1>4 DEF NextRecord
  <2>2. r \in enqueued /\ todo' \in [Calls -> SUBSET enqueued]
    BY <2>1
  <2> QED
    BY <1>4, <2>1, <2>2 DEF NextRecord, Take
<1>5. ASSUME NEW c \in Calls, Attempt(c) PROVE TypeOK'
  <2>1. current[c] \in Rows /\ Working(c)
    BY <1>5 DEF Attempt
  <2>2. CASE Owns(DispatcherOf[c], current[c], callNow[c])
    <3>1. /\ attempts' = [attempts EXCEPT ![current[c]] = @ + 1]
          /\ pc' = [pc EXCEPT ![c] = "publishing"]
          /\ UNCHANGED <<clock, faults, enqueued, published, availableAt, claimedBy,
                         claimExpiresAt, deliveries, alive, inFlight, callNow, todo, current>>
      BY <1>5, <2>2 DEF Attempt
    <3>2. attempts' \in [Rows -> Nat]
      BY ONLY <2>1, <3>1, CountUp, 1 \in Nat, TypeOK DEF TypeOK
    <3>3. /\ pc' \in [Calls -> Places] /\ \A e \in Calls : Working(e)' <=> Working(e)
      BY <2>1, <3>1
    <3> QED
      BY <3>1, <3>2, <3>3
  <2>3. CASE ~Owns(DispatcherOf[c], current[c], callNow[c])
    BY <1>5, <2>3 DEF Attempt, Release
  <2> QED
    BY <2>2, <2>3
<1>6. ASSUME NEW c \in Calls, Publish(c) PROVE TypeOK'
  <2>2. deliveries \in [Rows -> Nat] /\ deliveries' = [deliveries EXCEPT ![current[c]] = @ + 1]
    BY <1>6 DEF Publish
  <2>3. current[c] \in Rows
    BY <1>6 DEF Publish
  <2>4. [deliveries EXCEPT ![current[c]] = @ + 1] \in [Rows -> Nat]
    BY ONLY <2>2, <2>3, CountUp, 1 \in Nat
  <2> deliveries' \in [Rows -> Nat]
    BY ONLY <2>2, <2>4
  <2>1. /\ pc' \in [Calls -> Places] /\ \A d \in Calls : Working(d)' <=> Working(d)
        /\ UNCHANGED <<clock, faults, rowVars, alive, inFlight, callNow, todo, current>>
    BY <1>6 DEF Publish
  <2> QED
    BY <2>1
<1>7. ASSUME NEW c \in Calls, Acknowledge(c) PROVE TypeOK'
  <2> current[c] \in enqueued
    BY <1>7 DEF Acknowledge
  <2>1. CASE UNCHANGED <<published, claimedBy, claimExpiresAt>>
    BY <1>7, <2>1 DEF Acknowledge, Release
  <2>2. CASE MarkPublished(current[c])
    BY <1>7, <2>2 DEF Acknowledge, MarkPublished, Release
  <2> QED
    BY <1>7, <2>1, <2>2 DEF Acknowledge
<1>8. ASSUME NEW c \in Calls, Return(c) PROVE TypeOK'
  BY <1>8 DEF Return
<1>9. ASSUME NEW c \in Calls, PublishFails(c) PROVE TypeOK'
  <2> current[c] \in Rows
    BY <1>9 DEF PublishFails, Fault
  <2> deliveries' \in [Rows -> Nat]
    <3> PICK accepted \in {0, 1} :
            deliveries' = [deliveries EXCEPT ![current[c]] = @ + accepted]
      BY <1>9 DEF PublishFails, Fault
    <3> accepted \in Nat
      OBVIOUS
    <3> [deliveries EXCEPT ![current[c]] = @ + accepted] \in [Rows -> Nat]
      BY ONLY CountUp, accepted \in Nat, deliveries \in [Rows -> Nat], current[c] \in Rows
    <3> QED
      OBVIOUS
  <2> QED
    BY <1>9 DEF PublishFails, Fault, Release
<1>10. ASSUME NEW c \in Calls, TransactionFails(c) PROVE TypeOK'
  BY <1>10 DEF TransactionFails, Fault, Release
<1>11. ASSUME NEW d \in Dispatchers, Crash(d) PROVE TypeOK'
  BY <1>11 DEF Crash, Fault
<1>12. CASE Tick
  BY <1>12 DEF Tick
<1>13. CASE UNCHANGED vars
  BY <1>13 DEF vars
<1> QED
  BY <1>1, <1>2, <1>3, <1>4, <1>5, <1>6, <1>7, <1>8, <1>9, <1>10, <1>11, <1>12,
     <1>13 DEF Next, CallStep, CallFails

\* Type correctness of the outbox and its dispatchers, whatever the bounds.
THEOREM TypeCorrect == Spec => []TypeOK
  BY TypeInit, TypeStep, PTL DEF Spec

-----------------------------------------------------------------------------
(* Exclusion.                                                              *)

\* A record is given to one call of a dispatcher at a time.
LEMMA InFlightStep == TypeOK /\ InFlightInv /\ [Next]_vars => InFlightInv'
<1> SUFFICES ASSUME TypeOK, InFlightInv, [Next]_vars PROVE InFlightInv'
  OBVIOUS
<1> USE DEF TypeOK, InFlightInv, Working, rowVars, callVars
<1>1. ASSUME NEW r \in Rows, Enqueue(r) PROVE InFlightInv'
  BY <1>1 DEF Enqueue
<1>2. ASSUME NEW c \in Calls, Begin(c) PROVE InFlightInv'
  BY <1>2 DEF Begin
<1>3. ASSUME NEW c \in Calls, Claim(c) PROVE InFlightInv'
  BY <1>3 DEF Claim
<1>4. ASSUME NEW c \in Calls, NextRecord(c) PROVE InFlightInv'
  <2>1. PICK r \in todo[c] : Take(c, r) /\ pc[c] = "draining"
    BY <1>4 DEF NextRecord
  <2>2. CASE r \in inFlight[DispatcherOf[c]]
    BY <2>1, <2>2 DEF Take
  <2>3. CASE r \notin inFlight[DispatcherOf[c]]
    <3>1. \A e \in Calls : Working(e) /\ DispatcherOf[e] = DispatcherOf[c] => current[e] # r
      BY <2>3
    <3>2. /\ pc' = [pc EXCEPT ![c] = "attempting"]
          /\ current' = [current EXCEPT ![c] = r]
          /\ inFlight' = [inFlight EXCEPT ![DispatcherOf[c]] = @ \union {r}]
      BY <2>1, <2>3 DEF Take
    <3> QED
      BY <3>1, <3>2
  <2> QED
    BY <2>2, <2>3
<1>5. ASSUME NEW c \in Calls, Attempt(c) PROVE InFlightInv'
  BY <1>5 DEF Attempt, Release
<1>6. ASSUME NEW c \in Calls, Publish(c) PROVE InFlightInv'
  BY <1>6 DEF Publish
<1>7. ASSUME NEW c \in Calls, Acknowledge(c) PROVE InFlightInv'
  BY <1>7 DEF Acknowledge, Release
<1>8. ASSUME NEW c \in Calls, Return(c) PROVE InFlightInv'
  BY <1>8 DEF Return
<1>9. ASSUME NEW c \in Calls, PublishFails(c) PROVE InFlightInv'
  BY <1>9 DEF PublishFails, Fault, Release
<1>10. ASSUME NEW c \in Calls, TransactionFails(c) PROVE InFlightInv'
  BY <1>10 DEF TransactionFails, Fault, Release
<1>11. ASSUME NEW d \in Dispatchers, Crash(d) PROVE InFlightInv'
  BY <1>11 DEF Crash, Fault
<1>12. CASE Tick
  BY <1>12 DEF Tick
<1>13. CASE UNCHANGED vars
  BY <1>13 DEF vars
<1> QED
  BY <1>1, <1>2, <1>3, <1>4, <1>5, <1>6, <1>7, <1>8,
     <1>9, <1>10, <1>11, <1>12, <1>13 DEF Next, CallStep, CallFails

\* Claims of one dispatcher are taken in the order of their instants.
LEMMA ClaimOrderStep == TypeOK /\ ClaimOrderInv /\ [Next]_vars => ClaimOrderInv'
<1> SUFFICES ASSUME TypeOK, ClaimOrderInv, [Next]_vars PROVE ClaimOrderInv'
  OBVIOUS
<1> USE DEF TypeOK, ClaimOrderInv, Places, rowVars, callVars
<1>1. ASSUME NEW r \in Rows, Enqueue(r) PROVE ClaimOrderInv'
  BY <1>1 DEF Enqueue
<1>2. ASSUME NEW c \in Calls, Begin(c) PROVE ClaimOrderInv'
  BY <1>2 DEF Begin
<1>3. ASSUME NEW c \in Calls, Claim(c) PROVE ClaimOrderInv'
  BY <1>3 DEF Claim, FirstInQueue
<1>4. ASSUME NEW c \in Calls, NextRecord(c) PROVE ClaimOrderInv'
  BY <1>4 DEF NextRecord, Take
<1>5. ASSUME NEW c \in Calls, Attempt(c) PROVE ClaimOrderInv'
  BY <1>5 DEF Attempt, Release
<1>6. ASSUME NEW c \in Calls, Publish(c) PROVE ClaimOrderInv'
  BY <1>6 DEF Publish
<1>7. ASSUME NEW c \in Calls, Acknowledge(c) PROVE ClaimOrderInv'
  BY <1>7 DEF Acknowledge, Release
<1>8. ASSUME NEW c \in Calls, Return(c) PROVE ClaimOrderInv'
  BY <1>8 DEF Return
<1>9. ASSUME NEW c \in Calls, PublishFails(c) PROVE ClaimOrderInv'
  BY <1>9 DEF PublishFails, Fault, Release
<1>10. ASSUME NEW c \in Calls, TransactionFails(c) PROVE ClaimOrderInv'
  BY <1>10 DEF TransactionFails, Fault, Release
<1>11. ASSUME NEW d \in Dispatchers, Crash(d) PROVE ClaimOrderInv'
  BY <1>11 DEF Crash, Fault
<1>12. CASE Tick
  BY <1>12 DEF Tick
<1>13. CASE UNCHANGED vars
  BY <1>13 DEF vars
<1> QED
  BY <1>1, <1>2, <1>3, <1>4, <1>5, <1>6, <1>7, <1>8,
     <1>9, <1>10, <1>11, <1>12, <1>13 DEF Next, CallStep, CallFails

\* A call that has not overrun its lease keeps the claims it took.
LEMMA LeaseStep ==
    TypeOK /\ TypeOK' /\ ClaimOrderInv /\ LeaseInv /\ [Next]_vars => LeaseInv'
<1> SUFFICES ASSUME TypeOK, TypeOK', ClaimOrderInv, LeaseInv, [Next]_vars
             PROVE  LeaseInv'
  OBVIOUS
<1> USE DEF TypeOK, LeaseInv, Holds, Overran, Working, Places, rowVars, callVars
<1>1. ASSUME NEW r \in Rows, Enqueue(r) PROVE LeaseInv'
  BY <1>1 DEF Enqueue
<1>2. ASSUME NEW c \in Calls, Begin(c) PROVE LeaseInv'
  BY <1>2 DEF Begin
<1>3. ASSUME NEW c \in Calls, Claim(c) PROVE LeaseInv'
  BY <1>3 DEF Claim, FirstInQueue, Claimable, ClaimOrderInv
<1>4. ASSUME NEW c \in Calls, NextRecord(c) PROVE LeaseInv'
  <2>1. PICK r \in todo[c] : /\ Take(c, r) /\ pc[c] = "draining"
                             /\ todo' = [todo EXCEPT ![c] = @ \ {r}]
    BY <1>4 DEF NextRecord
  <2>2. UNCHANGED <<clock, rowVars, callNow>>
    BY <1>4 DEF NextRecord
  <2>3. CASE UNCHANGED <<inFlight, current, pc>>
    BY <2>1, <2>2, <2>3
  <2>4. CASE /\ pc' = [pc EXCEPT ![c] = "attempting"]
             /\ current' = [current EXCEPT ![c] = r]
    BY <2>1, <2>2, <2>4
  <2> QED
    BY <2>1, <2>3, <2>4 DEF Take
<1>5. ASSUME NEW c \in Calls, Attempt(c) PROVE LeaseInv'
  BY <1>5 DEF Attempt, Release, Owns
<1>6. ASSUME NEW c \in Calls, Publish(c) PROVE LeaseInv'
  BY <1>6 DEF Publish
<1>7. ASSUME NEW c \in Calls, Acknowledge(c) PROVE LeaseInv'
  <2>1. CASE UNCHANGED <<published, claimedBy, claimExpiresAt>>
    BY <1>7, <2>1 DEF Acknowledge, Release
  <2>2. CASE MarkPublished(current[c])
    <3>1. /\ published' = published \union {current[c]}
          /\ claimedBy' = [claimedBy EXCEPT ![current[c]] = None]
          /\ claimExpiresAt' = [claimExpiresAt EXCEPT ![current[c]] = 0]
      BY <2>2 DEF MarkPublished
    <3>2. /\ UNCHANGED <<clock, callNow, todo>>
          /\ pc' = [pc EXCEPT ![c] = "draining"]
          /\ current' = [current EXCEPT ![c] = None]
          /\ Working(c)
      BY <1>7 DEF Acknowledge, Release
    <3>3. \A e \in Calls, r \in Rows : Holds(e, r) => Holds(e, r)'
      BY <3>1, <3>2
    <3>4. \A e \in Calls : /\ pc'[e] \in {"idle", "claiming"} => todo'[e] = {}
                           /\ \A r \in todo'[e] : Holds(e, r)'
      <4> HIDE DEF Holds
      <4> QED
        BY <3>2, <3>3
    <3>5. \A e \in Calls : Working(e)' => Holds(e, current[e])'
      <4>1. \A e \in Calls : Working(e)' => Working(e) /\ current'[e] = current[e]
        BY <3>2
      <4>2. ASSUME NEW e \in Calls, Working(e)' PROVE Holds(e, current[e])'
        <5>1. Holds(e, current[e]) /\ current[e] \in Rows
          <6> HIDE DEF Holds
          <6>1. Working(e)
            BY <4>1, <4>2
          <6> QED
            BY <6>1
        <5> QED
          BY <5>1, <4>1, <4>2, <3>1, <3>2
      <4> QED
        BY <4>2
    <3>6. \A r \in published' : claimedBy'[r] = None
      BY <3>1
    <3> QED
      BY <3>4, <3>5, <3>6
  <2> QED
    BY <1>7, <2>1, <2>2 DEF Acknowledge
<1>8. ASSUME NEW c \in Calls, Return(c) PROVE LeaseInv'
  BY <1>8 DEF Return
<1>9. ASSUME NEW c \in Calls, PublishFails(c) PROVE LeaseInv'
  BY <1>9 DEF PublishFails, Fault, Release
<1>10. ASSUME NEW c \in Calls, TransactionFails(c) PROVE LeaseInv'
  BY <1>10 DEF TransactionFails, Fault, Release
<1>11. ASSUME NEW d \in Dispatchers, Crash(d) PROVE LeaseInv'
  BY <1>11 DEF Crash, Fault
<1>12. CASE Tick
  BY <1>12 DEF Tick
<1>13. CASE UNCHANGED vars
  BY <1>13 DEF vars
<1> QED
  BY <1>1, <1>2, <1>3, <1>4, <1>5, <1>6, <1>7, <1>8,
     <1>9, <1>10, <1>11, <1>12, <1>13 DEF Next, CallStep, CallFails

\* The claim excludes other dispatchers, the in-flight set other calls.
LEMMA ExclusionStep ==
    /\ TypeOK /\ TypeOK' /\ InFlightInv /\ LeaseInv /\ LeaseInv' /\ LeaseExclusion
    /\ [Next]_vars
    => LeaseExclusion'
<1> SUFFICES ASSUME TypeOK, TypeOK', InFlightInv, LeaseInv, LeaseInv', LeaseExclusion,
                    [Next]_vars
             PROVE  LeaseExclusion'
  OBVIOUS
<1> USE DEF TypeOK, InFlightInv, LeaseInv, LeaseExclusion, Holds, Overran, Working,
            Places, rowVars, callVars
<1>1. ASSUME NEW r \in Rows, Enqueue(r) PROVE LeaseExclusion'
  BY <1>1 DEF Enqueue
<1>2. ASSUME NEW c \in Calls, Begin(c) PROVE LeaseExclusion'
  BY <1>2 DEF Begin
<1>3. ASSUME NEW c \in Calls, Claim(c) PROVE LeaseExclusion'
  <2>1. /\ UNCHANGED <<clock, callNow, current, published>>
        /\ pc' = [pc EXCEPT ![c] = "draining"]
    BY <1>3 DEF Claim
  <2> QED
    BY <2>1
<1>4. ASSUME NEW c \in Calls, NextRecord(c) PROVE LeaseExclusion'
  BY <1>4 DEF NextRecord, Take
<1>5. ASSUME NEW c \in Calls, Attempt(c) PROVE LeaseExclusion'
  <2>1. CASE Owns(DispatcherOf[c], current[c], callNow[c])
    <3>1. /\ UNCHANGED <<clock, callNow, current, published, claimedBy>>
          /\ pc' = [pc EXCEPT ![c] = "publishing"]
      BY <1>5, <2>1 DEF Attempt
    <3>2. claimedBy[current[c]] = DispatcherOf[c] /\ current[c] \notin published
      <4>1. current[c] \in Rows /\ DispatcherOf[c] # None
        BY <1>5 DEF Attempt
      <4> QED
        BY <2>1, <4>1 DEF Owns
    <3> QED
      BY <3>1, <3>2
  <2>2. CASE ~Owns(DispatcherOf[c], current[c], callNow[c])
    <3>1. /\ UNCHANGED <<clock, callNow, published, claimedBy>>
          /\ pc' = [pc EXCEPT ![c] = "draining"]
          /\ current' = [current EXCEPT ![c] = None]
      BY <1>5, <2>2 DEF Attempt, Release
    <3> QED
      BY <3>1
  <2> QED
    BY <2>1, <2>2
<1>6. ASSUME NEW c \in Calls, Publish(c) PROVE LeaseExclusion'
  BY <1>6 DEF Publish
<1>7. ASSUME NEW c \in Calls, Acknowledge(c) PROVE LeaseExclusion'
  BY <1>7 DEF Acknowledge, Release, Owns, MarkPublished
<1>8. ASSUME NEW c \in Calls, Return(c) PROVE LeaseExclusion'
  BY <1>8 DEF Return
<1>9. ASSUME NEW c \in Calls, PublishFails(c) PROVE LeaseExclusion'
  BY <1>9 DEF PublishFails, Fault, Release
<1>10. ASSUME NEW c \in Calls, TransactionFails(c) PROVE LeaseExclusion'
  BY <1>10 DEF TransactionFails, Fault, Release
<1>11. ASSUME NEW d \in Dispatchers, Crash(d) PROVE LeaseExclusion'
  BY <1>11 DEF Crash, Fault
<1>12. CASE Tick
  BY <1>12 DEF Tick
<1>13. CASE UNCHANGED vars
  BY <1>13 DEF vars
<1> QED
  BY <1>1, <1>2, <1>3, <1>4, <1>5, <1>6, <1>7, <1>8,
     <1>9, <1>10, <1>11, <1>12, <1>13 DEF Next, CallStep, CallFails

\* IInv holds initially and every step keeps it.
LEMMA InductiveInvariant == Spec => []IInv
<1>1. Init => IInv
  BY TypeInit DEF Init, IInv, InFlightInv, ClaimOrderInv, LeaseInv, LeaseExclusion, Working
<1>2. IInv /\ [Next]_vars => IInv'
  BY TypeStep, InFlightStep, ClaimOrderStep, LeaseStep, ExclusionStep DEF IInv
<1> QED
  BY <1>1, <1>2, PTL DEF Spec

\* A call within its lease publishes and acknowledges rows that are still
\* unpublished and still its own.
THEOREM LeaseExclusionHolds == Spec => []LeaseExclusion
  BY InductiveInvariant, PTL DEF IInv

\* Two calls publish one row at a time only if they belong to different
\* dispatchers and one of them overran its lease.
THEOREM ExclusivePublicationHolds == Spec => []ExclusivePublication
<1>1. IInv => ExclusivePublication
  BY DEF IInv, InFlightInv, LeaseExclusion, ExclusivePublication, Working
<1> QED
  BY <1>1, InductiveInvariant, PTL
-----------------------------------------------------------------------------
(* Delivery and finality.                                                  *)

\* Only accepted publications are acknowledged.
LEMMA DeliveryStep == TypeOK /\ TypeOK' /\ DeliveryInv /\ [Next]_vars => DeliveryInv'
<1> SUFFICES ASSUME TypeOK, TypeOK', DeliveryInv, [Next]_vars PROVE DeliveryInv'
  OBVIOUS
<1> USE DEF TypeOK, DeliveryInv, PublishedWasDelivered, Working, rowVars, callVars
<1>1. ASSUME NEW r \in Rows, Enqueue(r) PROVE DeliveryInv'
  BY <1>1 DEF Enqueue
<1>2. ASSUME NEW c \in Calls, Begin(c) PROVE DeliveryInv'
  BY <1>2 DEF Begin
<1>3. ASSUME NEW c \in Calls, Claim(c) PROVE DeliveryInv'
  BY <1>3 DEF Claim
<1>4. ASSUME NEW c \in Calls, NextRecord(c) PROVE DeliveryInv'
  BY <1>4 DEF NextRecord, Take
<1>5. ASSUME NEW c \in Calls, Attempt(c) PROVE DeliveryInv'
  BY <1>5 DEF Attempt, Release
<1>6. ASSUME NEW c \in Calls, Publish(c) PROVE DeliveryInv'
  <2>1. /\ deliveries' = [deliveries EXCEPT ![current[c]] = @ + 1]
        /\ pc' = [pc EXCEPT ![c] = "acknowledging"]
        /\ UNCHANGED <<published, current>>
    BY <1>6 DEF Publish
  <2>2. current[c] \in Rows
    BY <1>6 DEF Publish
  <2>3. deliveries'[current[c]] >= 1 /\ \A r \in Rows : deliveries'[r] >= deliveries[r]
    BY ONLY <2>1, <2>2, CountUpGrows, deliveries \in [Rows -> Nat]
  <2>4. \A e \in Calls : pc[e] = "acknowledging" => current[e] \in Rows
    BY ONLY WorksOnRow, TypeOK DEF Working
  <2> QED
    BY <2>1, <2>3, <2>4, TypeOK'
<1>7. ASSUME NEW c \in Calls, Acknowledge(c) PROVE DeliveryInv'
  BY <1>7 DEF Acknowledge, Release, MarkPublished
<1>8. ASSUME NEW c \in Calls, Return(c) PROVE DeliveryInv'
  BY <1>8 DEF Return
<1>9. ASSUME NEW c \in Calls, PublishFails(c) PROVE DeliveryInv'
  <2>1. PICK accepted \in {0, 1} :
            deliveries' = [deliveries EXCEPT ![current[c]] = @ + accepted]
    BY <1>9 DEF PublishFails, Fault
  <2>2. /\ pc' = [pc EXCEPT ![c] = "draining"]
        /\ current' = [current EXCEPT ![c] = None]
        /\ UNCHANGED published
    BY <1>9 DEF PublishFails, Fault, Release
  <2>3. \A r \in Rows : deliveries'[r] >= deliveries[r]
    <3>1. current[c] \in Rows
      BY <1>9 DEF PublishFails, Fault
    <3>2. accepted \in Nat
      OBVIOUS
    <3> QED
      BY ONLY <2>1, <3>1, <3>2, CountUpGrows, deliveries \in [Rows -> Nat]
  <2>4. \A e \in Calls : pc[e] = "acknowledging" => current[e] \in Rows
    BY ONLY WorksOnRow, TypeOK DEF Working
  <2>5. \A e \in Calls : pc'[e] = "acknowledging" =>
            pc[e] = "acknowledging" /\ current'[e] = current[e]
    BY <2>2
  <2>6. \A r \in Rows : deliveries[r] \in Nat /\ deliveries'[r] \in Nat
    BY TypeOK'
  <2>7. \A r \in published' : deliveries'[r] >= 1
    BY ONLY <2>2, <2>3, <2>6, DeliveryInv, TypeOK
    DEF DeliveryInv, PublishedWasDelivered, TypeOK
  <2>8. \A e \in Calls : pc'[e] = "acknowledging" => deliveries'[current'[e]] >= 1
    BY ONLY <2>3, <2>4, <2>5, <2>6, DeliveryInv DEF DeliveryInv
  <2> QED
    BY <2>7, <2>8
<1>10. ASSUME NEW c \in Calls, TransactionFails(c) PROVE DeliveryInv'
  BY <1>10 DEF TransactionFails, Fault, Release
<1>11. ASSUME NEW d \in Dispatchers, Crash(d) PROVE DeliveryInv'
  BY <1>11 DEF Crash, Fault
<1>12. CASE Tick
  BY <1>12 DEF Tick
<1>13. CASE UNCHANGED vars
  BY <1>13 DEF vars
<1> QED
  BY <1>1, <1>2, <1>3, <1>4, <1>5, <1>6, <1>7, <1>8,
     <1>9, <1>10, <1>11, <1>12, <1>13 DEF Next, CallStep, CallFails

\* At-least-once: a row is marked published only after its event was accepted.
THEOREM PublishedWasDeliveredHolds == Spec => []PublishedWasDelivered
<1>1. Init => DeliveryInv
  BY DEF Init, DeliveryInv, PublishedWasDelivered
<1> QED
  BY <1>1, TypeCorrect, DeliveryStep, PTL DEF Spec, DeliveryInv

\* A published row stays published, unclaimed and unattempted.
THEOREM PublishedIsFinalHolds == Spec => PublishedIsFinal
<1> DEFINE Final == \A r \in published : /\ r \in published'
                                         /\ claimedBy'[r] = None
                                         /\ attempts'[r] = attempts[r]
<1>0. IInv /\ IInv' /\ [Next]_vars => [Final]_vars
  <2>1. SUFFICES ASSUME IInv, IInv', Next PROVE Final
    OBVIOUS
  <2>2. published \subseteq published'
    <3> USE DEF rowVars, callVars
    <3> QED
      BY <2>1 DEF Next, CallStep, CallFails, Enqueue, Begin, Claim, NextRecord, Attempt,
         Publish, Acknowledge, Return, PublishFails, TransactionFails, Crash, Fault, Tick, MarkPublished
  <2>3. \A r \in published : attempts'[r] = attempts[r]
    <3>1. ASSUME NEW c \in Calls, Attempt(c) PROVE \A r \in published : attempts'[r] = attempts[r]
      <4>1. current[c] \in Rows /\ DispatcherOf[c] # None
        <5>1. TypeOK
          BY <2>1 DEF IInv
        <5> QED
          BY <5>1, <3>1, WorksOnRow DEF Attempt, Working
      <4>2. TypeOK /\ \A r \in published : claimedBy[r] = None
        BY <2>1 DEF IInv, LeaseInv
      <4> HIDE <2>1
      <4> QED
        BY <3>1, <4>1, <4>2, SMTT(30) DEF TypeOK, Attempt, Owns
    <3> USE DEF rowVars, callVars
    <3> QED
      BY <2>1, <3>1 DEF Next, CallStep, CallFails, Enqueue, Begin, Claim, NextRecord,
         Publish, Acknowledge, Return, PublishFails, TransactionFails, Crash, Fault, Tick
  <2> QED
    BY <2>1, <2>2, <2>3 DEF IInv, LeaseInv
<1> QED
  BY <1>0, InductiveInvariant, PTL DEF Spec, PublishedIsFinal
-----------------------------------------------------------------------------
(* Exactly once.                                                           *)

\* Nothing has failed and no lease can have ended.
Calm == faults = 0 /\ clock < ClaimDuration

\* A call has handed r over and not recorded it yet.
Handed(r) == \E c \in Calls : pc[c] = "acknowledging" /\ current[c] = r

\* While it is calm, the transport has accepted just what is published or about to be.
OnceInv ==
    Calm => \A r \in Rows : deliveries[r] = IF r \in published \/ Handed(r) THEN 1 ELSE 0

\* While it is calm, a row is worked on by one call, which has its claim.
LEMMA CalmWork ==
    ASSUME IInv, Calm, NEW c \in Calls, pc[c] \in {"publishing", "acknowledging"}
    PROVE  /\ current[c] \in Rows /\ current[c] \notin published
           /\ Owns(DispatcherOf[c], current[c], callNow[c])
           /\ \A e \in Calls \ {c} : pc[e] \in {"publishing", "acknowledging"}
                                        => current[e] # current[c]
<1>1. \A e \in Calls : ~Overran(e)
  BY DEF IInv, TypeOK, Calm, Overran
<1>2. current[c] \in Rows
  BY WorksOnRow DEF IInv, Working
<1>3. /\ current[c] \notin published /\ claimedBy[current[c]] = DispatcherOf[c]
  BY <1>1 DEF IInv, LeaseExclusion
<1>4. claimExpiresAt[current[c]] >= callNow[c] + ClaimDuration
  BY <1>1, <1>3 DEF IInv, LeaseInv, Holds, Working
<1>5. claimExpiresAt[current[c]] > callNow[c]
  <2>1. claimExpiresAt[current[c]] \in Nat /\ callNow[c] \in Nat
    <3>1. claimExpiresAt \in [Rows -> Nat] /\ callNow[c] \in 0 .. MaxClock
      BY DEF IInv, TypeOK
    <3> QED
      BY ONLY <1>2, <3>1, MaxClock \in Nat
  <2> QED
    BY <1>4, <2>1
<1>6. ASSUME NEW e \in Calls \ {c}, pc[e] \in {"publishing", "acknowledging"},
             current[e] = current[c]
      PROVE  FALSE
  <2>1. claimedBy[current[e]] = DispatcherOf[e]
    BY <1>1, <1>6 DEF IInv, LeaseExclusion
  <2> QED
    BY <1>3, <1>6, <2>1 DEF IInv, InFlightInv, Working
<1> QED
  BY <1>2, <1>3, <1>5, <1>6 DEF Owns

\* A step that hands nothing over and records nothing.
LEMMA OnceStays ==
    ASSUME OnceInv, Calm' => Calm, UNCHANGED <<deliveries, published>>,
           \A c \in Calls : (pc[c] = "acknowledging" \/ pc'[c] = "acknowledging")
                               => pc'[c] = pc[c] /\ current'[c] = current[c]
    PROVE  OnceInv'
<1>1. \A r \in Rows : Handed(r)' <=> Handed(r)
  BY DEF Handed
<1> QED
  BY <1>1 DEF OnceInv

LEMMA OnceStep == IInv /\ OnceInv /\ [Next]_vars => OnceInv'
<1> SUFFICES ASSUME IInv, OnceInv, [Next]_vars PROVE OnceInv'
  OBVIOUS
<1>0. TypeOK
  BY DEF IInv
<1> USE DEF rowVars, callVars
<1>1. ASSUME faults' = faults + 1 PROVE OnceInv'
  BY <1>0, <1>1 DEF OnceInv, Calm, TypeOK
<1>2. ASSUME UNCHANGED <<clock, faults, deliveries, published, current>>, NEW c \in Calls,
             pc[c] # "acknowledging", NEW p \in Places \ {"acknowledging"},
             pc' = [pc EXCEPT ![c] = p]
      PROVE  OnceInv'
  <2>1. \A e \in Calls : e # c => pc'[e] = pc[e]
    BY <1>0, <1>2 DEF TypeOK
  <2>2. pc'[c] # "acknowledging"
    BY <1>0, <1>2 DEF TypeOK
  <2> QED
    BY <1>2, <2>1, <2>2, OnceStays DEF Calm
<1>3. ASSUME NEW c \in Calls, NextRecord(c) PROVE OnceInv'
  <2>1. /\ UNCHANGED <<clock, faults, deliveries, published>>
        /\ \A e \in Calls \ {c} : pc'[e] = pc[e] /\ current'[e] = current[e]
        /\ pc[c] = "draining" /\ pc'[c] # "acknowledging"
    BY <1>0, <1>3 DEF NextRecord, Take, TypeOK
  <2> QED
    BY <2>1, OnceStays DEF Calm
<1>4. ASSUME NEW c \in Calls, Attempt(c) PROVE OnceInv'
  <2>1. /\ UNCHANGED <<clock, faults, deliveries, published>>
        /\ \A e \in Calls \ {c} : pc'[e] = pc[e] /\ current'[e] = current[e]
        /\ pc[c] = "attempting" /\ pc'[c] # "acknowledging"
    BY <1>0, <1>4 DEF Attempt, Release, TypeOK
  <2> QED
    BY <2>1, OnceStays DEF Calm
<1>5. ASSUME NEW c \in Calls, Publish(c) PROVE OnceInv'
  <2> SUFFICES ASSUME Calm', NEW r \in Rows
               PROVE  deliveries'[r] = IF r \in published' \/ Handed(r)' THEN 1 ELSE 0
    BY DEF OnceInv
  <2>1. /\ pc[c] = "publishing" /\ UNCHANGED <<clock, faults, published, current>>
        /\ deliveries' = [deliveries EXCEPT ![current[c]] = @ + 1]
        /\ pc'[c] = "acknowledging" /\ \A e \in Calls \ {c} : pc'[e] = pc[e]
    BY <1>0, <1>5 DEF Publish, TypeOK
  <2>2. Calm
    BY <2>1 DEF Calm
  <2>3. /\ current[c] \in Rows /\ current[c] \notin published
        /\ \A e \in Calls \ {c} : pc[e] \in {"publishing", "acknowledging"}
                                      => current[e] # current[c]
    BY <2>1, <2>2, CalmWork
  <2>4. deliveries[r] = IF r \in published \/ Handed(r) THEN 1 ELSE 0
    BY <2>2 DEF OnceInv
  <2>5. CASE r = current[c]
    <3>1. ~Handed(r)
      BY <2>1, <2>3, <2>5 DEF Handed
    <3>2. Handed(r)'
      BY <2>1, <2>5 DEF Handed
    <3> QED
      BY <1>0, <2>1, <2>3, <2>4, <2>5, <3>1, <3>2 DEF TypeOK
  <2>6. CASE r # current[c]
    <3>1. Handed(r)' <=> Handed(r)
      BY <2>1, <2>6 DEF Handed
    <3>2. deliveries'[r] = deliveries[r]
      BY <1>0, <2>1, <2>6 DEF TypeOK
    <3> QED
      BY <2>1, <2>4, <3>1, <3>2
  <2> QED
    BY <2>5, <2>6
<1>6. ASSUME NEW c \in Calls, Acknowledge(c) PROVE OnceInv'
  <2> SUFFICES ASSUME Calm', NEW r \in Rows
               PROVE  deliveries'[r] = IF r \in published' \/ Handed(r)' THEN 1 ELSE 0
    BY DEF OnceInv
  <2>1. /\ pc[c] = "acknowledging" /\ UNCHANGED <<clock, faults, deliveries>>
        /\ pc'[c] = "draining"
        /\ \A e \in Calls \ {c} : pc'[e] = pc[e] /\ current'[e] = current[e]
    BY <1>0, <1>6 DEF Acknowledge, Release, TypeOK
  <2>2. Calm
    BY <2>1 DEF Calm
  <2>3. /\ current[c] \in Rows /\ current[c] \notin published
        /\ Owns(DispatcherOf[c], current[c], callNow[c])
    BY <2>1, <2>2, CalmWork
  <2>4. published' = published \union {current[c]}
    BY <1>6, <2>3 DEF Acknowledge, MarkPublished
  <2>5. Handed(current[c])
    BY <2>1 DEF Handed
  <2>6. r # current[c] => (Handed(r)' <=> Handed(r))
    BY <2>1 DEF Handed
  <2> QED
    BY <2>1, <2>2, <2>4, <2>5, <2>6 DEF OnceInv
<1>7. ASSUME NEW c \in Calls, Begin(c) \/ Claim(c) \/ Return(c) PROVE OnceInv'
  BY <1>2, <1>7 DEF Begin, Claim, Return, Places
<1>8. ASSUME NEW c \in Calls, PublishFails(c) \/ TransactionFails(c) PROVE OnceInv'
  BY <1>1, <1>8 DEF PublishFails, Fault, TransactionFails
<1>9. ASSUME NEW d \in Dispatchers, Crash(d) PROVE OnceInv'
  BY <1>1, <1>9 DEF Crash, Fault
<1>10. ASSUME NEW r \in Rows, Enqueue(r) PROVE OnceInv'
  BY <1>10, OnceStays DEF Enqueue, Calm
<1>11. CASE Tick
  BY <1>0, <1>11, OnceStays DEF Tick, Calm, TypeOK
<1>12. CASE UNCHANGED vars
  BY <1>12, OnceStays DEF vars, Calm
<1> QED
  BY <1>3, <1>4, <1>5, <1>6, <1>7, <1>8, <1>9, <1>10, <1>11, <1>12 DEF Next, CallStep, CallFails

\* As long as nothing fails and no lease ends, an event is delivered once at most,
\* whatever calls overlap.
THEOREM ExactlyOnceHolds == Spec => []ExactlyOnceWithoutFaults
<1>1. Init => OnceInv
  BY DEF Init, OnceInv, Handed
<1>2. OnceInv => ExactlyOnceWithoutFaults
  BY DEF OnceInv, ExactlyOnceWithoutFaults, Calm
<1> QED
  BY <1>1, <1>2, InductiveInvariant, OnceStep, PTL DEF Spec
=============================================================================

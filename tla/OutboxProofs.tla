---------------------------- MODULE OutboxProofs ----------------------------
(* Proofs about OutboxWorker, for every set of entries and of workers. *)
EXTENDS OutboxWorker, FiniteSetTheorems, TLAPS

-----------------------------------------------------------------------------
(* A worker acts on a retry_count that can be out of date, so that an event *)
(* is given up only after MaxRetries failures rests on three facts: what a  *)
(* worker holds is no more than what the row says, what the row says and    *)
(* the increments still to be made are no more than the failures counted,   *)
(* and each worker handling a failure stands for one such increment.        *)

Handling(w, e) ==
  at[w] = "failed" /\ \E h \in batch[w] : IsFirst(w, h) /\ h.id = e

HandlingAny(e) == {w \in Workers : Handling(w, e)}

FailedHolds == \A w \in Workers : at[w] = "failed" => batch[w] # {}

HeldIsOld ==
  \A w \in Workers : \A h \in batch[w] :
    row[h.id] # "none" /\ h.retry <= retry[h.id]

Covered ==
  \A e \in Entries :
    \/ failures[e] = MaxRetries
    \/ retry[e] + Cardinality(HandlingAny(e)) <= failures[e]

Fine == 
  /\ TypeOK /\ FailedHolds /\ HeldIsOld /\ Covered
  /\ NothingLost /\ GivenUpAfterMaxRetries

-----------------------------------------------------------------------------
(* The workers handling a failure are finitely many, whatever the state. *)
LEMMA HandlingFinite ==
  ASSUME NEW e
  PROVE  IsFiniteSet(HandlingAny(e)) /\ Cardinality(HandlingAny(e)) \in Nat
  <1>1. HandlingAny(e) \subseteq Workers
    BY DEF HandlingAny
  <1> QED BY <1>1, WorkersAssumption, FS_Subset, FS_CardinalityType

(* Two workers never share a failure: a worker is at one row. *)
LEMMA OneRow ==
  ASSUME TypeOK, NEW w \in Workers, NEW d \in Entries, NEW e \in Entries,
         Handling(w, d), Handling(w, e)
  PROVE  d = e
  <1>1. PICK g \in batch[w] : IsFirst(w, g) /\ g.id = d
    BY DEF Handling
  <1>2. PICK h \in batch[w] : IsFirst(w, h) /\ h.id = e
    BY DEF Handling
  <1>3. g.id <= h.id /\ h.id <= g.id
    BY <1>1, <1>2 DEF IsFirst
  <1>4. d \in Nat /\ e \in Nat
    BY EntriesAssumption
  <1> QED BY <1>1, <1>2, <1>3, <1>4

(* A step after which no other worker handles a failure than before, and    *)
(* which leaves the counts alone, keeps Covered.                            *)
LEMMA FewerHandling ==
  ASSUME TypeOK, Covered,
         failures' = failures, retry' = retry,
         \A e \in Entries : HandlingAny(e)' \subseteq HandlingAny(e)
  PROVE  Covered'
  <1> SUFFICES ASSUME NEW e \in Entries
               PROVE  \/ failures[e] = MaxRetries
                      \/ retry[e] + Cardinality(HandlingAny(e)') <= failures[e]
    BY DEF Covered
  <1>1. IsFiniteSet(HandlingAny(e)) /\ Cardinality(HandlingAny(e)) \in Nat
    BY HandlingFinite
  <1>2. HandlingAny(e)' \subseteq HandlingAny(e)
    OBVIOUS
  <1>3. /\ IsFiniteSet(HandlingAny(e)')
        /\ Cardinality(HandlingAny(e)') <= Cardinality(HandlingAny(e))
    BY <1>1, <1>2, FS_Subset
  <1>4. Cardinality(HandlingAny(e)') \in Nat
    BY <1>3, FS_CardinalityType
  <1>5. retry[e] \in Nat /\ failures[e] \in Nat
    BY LimitsAssumption DEF TypeOK
  <1> QED BY <1>1, <1>3, <1>4, <1>5 DEF Covered

-----------------------------------------------------------------------------
\* There are no events, and no worker holds a copy.
LEMMA InitFine == Init => Fine
  <1> SUFFICES ASSUME Init PROVE Fine
    OBVIOUS
  <1>1. 0 \in Nat /\ 0 \in 0 .. MaxRetries
    BY LimitsAssumption
  <1>2. TypeOK
    BY <1>1 DEF Init, TypeOK, RowStates
  <1>3. FailedHolds /\ HeldIsOld
    BY DEF Init, FailedHolds, HeldIsOld
  <1>4. Covered
    <2> SUFFICES ASSUME NEW e \in Entries
                 PROVE  retry[e] + Cardinality(HandlingAny(e)) <= failures[e]
      BY DEF Covered
    <2>1. HandlingAny(e) = {}
      BY DEF Init, HandlingAny, Handling
    <2> QED BY <2>1, FS_EmptySet DEF Init
  <1>5. NothingLost /\ GivenUpAfterMaxRetries
    BY DEF Init, NothingLost, GivenUpAfterMaxRetries
  <1> QED BY <1>2, <1>3, <1>4, <1>5 DEF Fine

(* Counting a failure, with the worker that will handle it. *)
LEMMA FailureCounted ==
  ASSUME Fine, NEW w \in Workers, NEW h \in batch[w],
         at[w] = "ready", IsFirst(w, h), CountFailure(h.id),
         at' = [at EXCEPT ![w] = "failed"], retry' = retry, batch' = batch
  PROVE  failures' \in [Entries -> 0 .. MaxRetries] /\ Covered'
  <1> USE DEF Fine
  <1>1. h \in Held /\ h.id \in Entries
    BY DEF TypeOK, Held
  <1>2. failures' \in [Entries -> 0 .. MaxRetries]
    BY <1>1, LimitsAssumption DEF TypeOK, CountFailure
  <1>3. Covered'
    <2> SUFFICES ASSUME NEW e \in Entries
                 PROVE  \/ failures'[e] = MaxRetries
                        \/ retry[e] + Cardinality(HandlingAny(e)') <= failures'[e]
      BY DEF Covered
    <2>1. /\ retry[e] \in Nat /\ failures[e] \in 0 .. MaxRetries
          /\ IsFiniteSet(HandlingAny(e)) /\ Cardinality(HandlingAny(e)) \in Nat
      BY HandlingFinite DEF TypeOK
    <2>2. CASE e = h.id
      <3>1. w \notin HandlingAny(e)
        BY DEF HandlingAny, Handling
      <3>2. HandlingAny(e)' \subseteq HandlingAny(e) \cup {w}
        BY DEF HandlingAny, Handling, IsFirst, TypeOK
      <3>3. /\ IsFiniteSet(HandlingAny(e) \cup {w})
            /\ Cardinality(HandlingAny(e) \cup {w}) = Cardinality(HandlingAny(e)) + 1
        BY <2>1, <3>1, FS_AddElement
      <3>4. /\ Cardinality(HandlingAny(e)') <= Cardinality(HandlingAny(e)) + 1
            /\ Cardinality(HandlingAny(e)') \in Nat
        BY <3>2, <3>3, FS_Subset, FS_CardinalityType
      <3>5. failures'[e] = IF failures[e] < MaxRetries THEN failures[e] + 1 ELSE failures[e]
        BY <2>2 DEF CountFailure, TypeOK
      <3> QED BY <2>1, <3>4, <3>5, LimitsAssumption DEF Covered
    <2>3. CASE e # h.id
      <3>1. HandlingAny(e)' \subseteq HandlingAny(e)
        <4> SUFFICES ASSUME NEW v \in Workers, Handling(v, e)'
                     PROVE  Handling(v, e)
          BY DEF HandlingAny
        <4>1. PICK g \in batch[v] : IsFirst(v, g) /\ g.id = e
          BY DEF Handling, IsFirst
        <4>2. v # w
          <5> SUFFICES ASSUME v = w PROVE FALSE
            OBVIOUS
          <5>1. h.id <= e /\ e <= h.id
            BY <4>1 DEF IsFirst
          <5> QED BY <1>1, <2>3, <5>1, EntriesAssumption
        <4>3. at[v] = "failed"
          BY <4>2 DEF Handling, TypeOK
        <4> QED BY <4>1, <4>3 DEF Handling
      <3>2. /\ Cardinality(HandlingAny(e)') <= Cardinality(HandlingAny(e))
            /\ Cardinality(HandlingAny(e)') \in Nat
        BY <2>1, <3>1, FS_Subset, FS_CardinalityType
      <3>3. failures'[e] = failures[e]
        BY <2>3 DEF CountFailure, TypeOK
      <3> QED BY <2>1, <3>2, <3>3, LimitsAssumption DEF Covered
    <2> QED BY <2>2, <2>3
  <1> QED BY <1>2, <1>3

(* Counting a retry makes one increment of those still to be made. *)
LEMMA RetryCounted ==
  ASSUME Fine, NEW w \in Workers, CountRetry(w)
  PROVE  Fine'
  <1> USE DEF Fine
  <1>1. PICK h \in batch[w] :
          /\ at[w] = "failed" /\ IsFirst(w, h)
          /\ retry' = [retry EXCEPT ![h.id] = IF row[h.id] = "deleted" THEN @ ELSE @ + 1]
          /\ Done(w, h)
          /\ at' = [at EXCEPT ![w] = "ready"]
          /\ UNCHANGED <<row, events, dead, failures>>
    BY DEF CountRetry
  <1>2. h.id \in Entries
    BY DEF TypeOK, Held
  <1>3. retry' \in [Entries -> Nat] /\ \A e \in Entries : retry[e] <= retry'[e]
    BY <1>1, <1>2 DEF TypeOK
  <1>4. /\ batch' \in [Workers -> SUBSET Held]
        /\ \A v \in Workers : batch'[v] \subseteq batch[v]
    BY <1>1 DEF TypeOK, Done
  <1>5. TypeOK'
    BY <1>1, <1>3, <1>4 DEF TypeOK
  <1>6. FailedHolds'
    BY <1>1 DEF FailedHolds, Done, TypeOK
  <1>7. HeldIsOld'
    <2> SUFFICES ASSUME NEW v \in Workers, NEW g \in batch'[v]
                 PROVE  row'[g.id] # "none" /\ g.retry <= retry'[g.id]
      BY DEF HeldIsOld
    <2>1. g \in batch[v] /\ g \in Held
      BY <1>4 DEF TypeOK
    <2>2. g.id \in Entries /\ g.retry \in Nat /\ retry[g.id] \in Nat /\ retry'[g.id] \in Nat
      BY <1>3, <2>1 DEF Held, TypeOK
    <2> QED BY <1>1, <1>3, <2>1, <2>2 DEF HeldIsOld
  <1>8. Covered'
    <2> SUFFICES ASSUME NEW e \in Entries
                 PROVE  \/ failures[e] = MaxRetries
                        \/ retry'[e] + Cardinality(HandlingAny(e)') <= failures[e]
      BY <1>1 DEF Covered
    <2>1. /\ retry[e] \in Nat /\ failures[e] \in 0 .. MaxRetries
          /\ IsFiniteSet(HandlingAny(e)) /\ Cardinality(HandlingAny(e)) \in Nat
      BY HandlingFinite DEF TypeOK
    <2>2. HandlingAny(e)' \subseteq HandlingAny(e) \ {w}
      BY <1>1 DEF HandlingAny, Handling, IsFirst, TypeOK, Done
    <2>3. CASE e = h.id
      <3>1. w \in HandlingAny(e)
        BY <1>1, <2>3 DEF HandlingAny, Handling
      <3>2. /\ IsFiniteSet(HandlingAny(e) \ {w})
            /\ Cardinality(HandlingAny(e) \ {w}) = Cardinality(HandlingAny(e)) - 1
        BY <2>1, <3>1, FS_RemoveElement
      <3>3. /\ Cardinality(HandlingAny(e)') <= Cardinality(HandlingAny(e)) - 1
            /\ Cardinality(HandlingAny(e)') \in Nat
        BY <2>2, <3>2, FS_Subset, FS_CardinalityType
      <3>4. retry'[e] = retry[e] \/ retry'[e] = retry[e] + 1
        BY <1>1, <2>3 DEF TypeOK
      <3> QED BY <2>1, <3>3, <3>4, LimitsAssumption DEF Covered
    <2>4. CASE e # h.id
      <3>1. HandlingAny(e)' \subseteq HandlingAny(e)
        BY <2>2
      <3>2. /\ Cardinality(HandlingAny(e)') <= Cardinality(HandlingAny(e))
            /\ Cardinality(HandlingAny(e)') \in Nat
        BY <2>1, <3>1, FS_Subset, FS_CardinalityType
      <3>3. retry'[e] = retry[e]
        BY <1>1, <2>4 DEF TypeOK
      <3> QED BY <2>1, <3>2, <3>3, LimitsAssumption DEF Covered
    <2> QED BY <2>3, <2>4
  <1>9. NothingLost' /\ GivenUpAfterMaxRetries'
    BY <1>1 DEF NothingLost, GivenUpAfterMaxRetries
  <1> QED BY <1>5, <1>6, <1>7, <1>8, <1>9

(* The steps that change neither a count nor the failures being handled,    *)
(* except that a worker may stop handling one.                              *)
LEMMA CountsKept ==
  ASSUME Fine, NEW w \in Workers,
         UNCHANGED <<retry, failures>>,
         batch' \in [Workers -> SUBSET Held],
         at' \in [Workers -> {"ready", "failed"}],
         \A v \in Workers \ {w} : batch'[v] = batch[v] /\ at'[v] = at[v],
         at'[w] = "ready",
         \A g \in batch'[w] : row[g.id] # "none" /\ g.retry <= retry[g.id],
         \A e \in Entries : row[e] # "none" => row'[e] # "none"
  PROVE  FailedHolds' /\ HeldIsOld' /\ Covered'
  <1> USE DEF Fine
  <1>1. FailedHolds'
    BY DEF FailedHolds
  <1>2. HeldIsOld'
    <2> SUFFICES ASSUME NEW v \in Workers, NEW g \in batch'[v]
                 PROVE  row'[g.id] # "none" /\ g.retry <= retry'[g.id]
      BY DEF HeldIsOld
    <2>1. g.id \in Entries
      BY DEF Held
    <2>2. row[g.id] # "none" /\ g.retry <= retry[g.id]
      BY DEF HeldIsOld
    <2> QED BY <2>1, <2>2
  <1>3. Covered'
    <2>1. \A e \in Entries : HandlingAny(e)' \subseteq HandlingAny(e)
      BY DEF HandlingAny, Handling, IsFirst
    <2> QED BY <2>1, FewerHandling
  <1> QED BY <1>1, <1>2, <1>3

(* The worker has gone on from row h without changing a count. *)
LEMMA WentOn ==
  ASSUME Fine, NEW w \in Workers, NEW h \in batch[w], Done(w, h),
         UNCHANGED <<retry, failures>>,
         at' = [at EXCEPT ![w] = "ready"],
         \A e \in Entries : row[e] # "none" => row'[e] # "none"
  PROVE  /\ batch' \in [Workers -> SUBSET Held]
         /\ at' \in [Workers -> {"ready", "failed"}]
         /\ FailedHolds' /\ HeldIsOld' /\ Covered'
  <1>1. /\ batch' \in [Workers -> SUBSET Held]
        /\ at' \in [Workers -> {"ready", "failed"}]
        /\ at'[w] = "ready"
        /\ batch'[w] \subseteq batch[w]
        /\ \A v \in Workers \ {w} : batch'[v] = batch[v] /\ at'[v] = at[v]
    BY DEF Fine, TypeOK, Done
  <1>2. \A g \in batch'[w] : row[g.id] # "none" /\ g.retry <= retry[g.id]
    BY <1>1 DEF Fine, HeldIsOld
  <1> QED BY <1>1, <1>2, CountsKept

\* Every step keeps the invariant: one case for each kind of step.
LEMMA StepFine == Fine /\ [Next]_vars => Fine'
  <1> SUFFICES ASSUME Fine, [Next]_vars PROVE Fine'
    OBVIOUS
  <1> USE DEF Fine
  <1>0. \A w \in Workers : \A h \in batch[w] :
          h \in Held /\ h.id \in Entries /\ h.retry \in Nat
    BY DEF TypeOK, Held
  <1>1. ASSUME NEW e \in Entries, Record(e) PROVE Fine'
    <2>1. TypeOK'
      BY <1>1 DEF TypeOK, Record, RowStates
    <2>2. FailedHolds' /\ HeldIsOld'
      BY <1>1, <1>0 DEF FailedHolds, HeldIsOld, Record, TypeOK
    <2>3. Covered'
      <3>1. \A d \in Entries : HandlingAny(d)' \subseteq HandlingAny(d)
        BY <1>1 DEF HandlingAny, Handling, IsFirst, Record
      <3> QED BY <1>1, <3>1, FewerHandling DEF Record
    <2>4. NothingLost' /\ GivenUpAfterMaxRetries'
      BY <1>1 DEF NothingLost, GivenUpAfterMaxRetries, Record, TypeOK
    <2> QED BY <2>1, <2>2, <2>3, <2>4
  <1>2. ASSUME NEW w \in Workers, Fetch(w) PROVE Fine'
    <2>1. at[w] = "ready"
      BY <1>2 DEF Fetch, FailedHolds, TypeOK
    <2>2. /\ batch'[w] = {[id |-> e, retry |-> retry[e]] : e \in Selected}
          /\ batch' = [batch EXCEPT ![w] = {[id |-> e, retry |-> retry[e]] : e \in Selected}]
      BY <1>2 DEF Fetch, TypeOK
    <2> DEFINE S == Selected
    <2>a. \A e \in S : e \in Entries /\ row[e] = "pending" /\ retry[e] \in Nat
      BY DEF Selected, Undelivered, TypeOK
    <2>b. batch'[w] = {[id |-> e, retry |-> retry[e]] : e \in S}
      BY <2>2
    <2> HIDE DEF S
    <2>3. batch'[w] \subseteq Held
      BY <2>a, <2>b DEF Held
    <2>4. batch' \in [Workers -> SUBSET Held]
      BY <2>2, <2>3 DEF TypeOK
    <2>5. \A g \in batch'[w] : row[g.id] # "none" /\ g.retry <= retry[g.id]
      BY <2>a, <2>b
    <2>6. FailedHolds' /\ HeldIsOld' /\ Covered'
      <3>1. \A v \in Workers \ {w} : batch'[v] = batch[v] /\ at'[v] = at[v]
        BY <1>2, <2>2 DEF Fetch, TypeOK
      <3>2. /\ at' \in [Workers -> {"ready", "failed"}] /\ at'[w] = "ready"
            /\ UNCHANGED <<row, retry, failures>>
        BY <1>2, <2>1 DEF Fetch, TypeOK
      <3> QED BY <2>4, <2>5, <3>1, <3>2, CountsKept
    <2>7. TypeOK' /\ NothingLost' /\ GivenUpAfterMaxRetries'
      BY <1>2, <2>4 DEF Fetch, TypeOK, NothingLost, GivenUpAfterMaxRetries
    <2> QED BY <2>6, <2>7
  <1>3. ASSUME NEW w \in Workers, NEW h \in batch[w], at[w] = "ready", Done(w, h),
               UNCHANGED <<row, retry, events, dead, at, failures>>
        PROVE  Fine'
    <2>1. at' = [at EXCEPT ![w] = "ready"]
      BY <1>3 DEF TypeOK
    <2>2. /\ batch' \in [Workers -> SUBSET Held]
          /\ FailedHolds' /\ HeldIsOld' /\ Covered'
      BY <1>3, <2>1, WentOn
    <2> QED BY <1>3, <2>2 DEF TypeOK, NothingLost, GivenUpAfterMaxRetries
  <1>4. ASSUME NEW w \in Workers, Deliver(w) PROVE Fine'
    <2>1. PICK h \in batch[w] :
            /\ at[w] = "ready" /\ Applied(h.id) /\ Done(w, h) /\ UNCHANGED <<at, failures>>
      BY <1>4 DEF Deliver
    <2>2. h.id \in Entries /\ row[h.id] # "none"
      BY <1>0 DEF HeldIsOld
    <2>3. /\ row' \in [Entries -> RowStates] /\ events' \subseteq Entries
          /\ \A e \in Entries : row[e] # "none" => row'[e] # "none"
          /\ UNCHANGED <<retry, dead>>
      BY <2>1, <2>2 DEF Applied, TypeOK, RowStates
    <2>4. at' = [at EXCEPT ![w] = "ready"]
      BY <2>1 DEF TypeOK
    <2>5. /\ batch' \in [Workers -> SUBSET Held]
          /\ FailedHolds' /\ HeldIsOld' /\ Covered'
      BY <2>1, <2>3, <2>4, WentOn
    <2>6. NothingLost' /\ GivenUpAfterMaxRetries'
      BY <2>1, <2>2 DEF Applied, NothingLost, GivenUpAfterMaxRetries, TypeOK
    <2> QED BY <2>1, <2>3, <2>5, <2>6 DEF TypeOK
  <1>5. ASSUME NEW w \in Workers, NEW h \in batch[w], at[w] = "ready", IsFirst(w, h),
               CountFailure(h.id), at' = [at EXCEPT ![w] = "failed"],
               UNCHANGED <<retry, dead, batch>>,
               row' \in [Entries -> RowStates], events' \subseteq Entries, NothingLost',
               \A e \in Entries : row[e] # "none" => row'[e] # "none"
        PROVE  Fine'
    <2>1. failures' \in [Entries -> 0 .. MaxRetries] /\ Covered'
      BY <1>5, FailureCounted
    <2>2. at' \in [Workers -> {"ready", "failed"}]
      BY <1>5 DEF TypeOK
    <2>3. FailedHolds'
      BY <1>5 DEF FailedHolds, TypeOK
    <2>4. HeldIsOld'
      BY <1>0, <1>5 DEF HeldIsOld
    <2>5. GivenUpAfterMaxRetries'
      BY <1>5, <1>0, LimitsAssumption DEF GivenUpAfterMaxRetries, CountFailure, TypeOK
    <2> QED BY <1>5, <2>1, <2>2, <2>3, <2>4, <2>5 DEF TypeOK
  <1>6. ASSUME NEW w \in Workers, DeliverUnacknowledged(w) PROVE Fine'
    <2>1. PICK h \in batch[w] :
            /\ at[w] = "ready" /\ IsFirst(w, h) /\ Applied(h.id) /\ CountFailure(h.id)
            /\ at' = [at EXCEPT ![w] = "failed"] /\ UNCHANGED batch
      BY <1>6 DEF DeliverUnacknowledged
    <2>2. h.id \in Entries /\ row[h.id] # "none"
      BY <1>0 DEF HeldIsOld
    <2>3. /\ row' \in [Entries -> RowStates] /\ events' \subseteq Entries
          /\ \A e \in Entries : row[e] # "none" => row'[e] # "none"
          /\ UNCHANGED <<retry, dead>>
      BY <2>1, <2>2 DEF Applied, TypeOK, RowStates
    <2>4. NothingLost'
      BY <2>1, <2>2 DEF Applied, NothingLost, TypeOK
    <2> QED BY <1>5, <2>1, <2>3, <2>4
  <1>7. ASSUME NEW w \in Workers, ProcessFails(w) PROVE Fine'
    <2>1. PICK h \in batch[w] :
            /\ at[w] = "ready" /\ IsFirst(w, h) /\ CountFailure(h.id)
            /\ at' = [at EXCEPT ![w] = "failed"]
            /\ UNCHANGED <<row, retry, events, dead, batch>>
      BY <1>7 DEF ProcessFails
    <2>2. NothingLost' /\ row' \in [Entries -> RowStates] /\ events' \subseteq Entries
      BY <2>1 DEF NothingLost, TypeOK
    <2> QED BY <1>5, <2>1, <2>2
  <1>8. ASSUME NEW w \in Workers, MoveToDeadLetter(w) PROVE Fine'
    <2>1. PICK h \in batch[w] :
            /\ at[w] = "failed" /\ IsFirst(w, h) /\ Exhausted(h)
            /\ dead' = [dead EXCEPT ![h.id] = @ + 1]
            /\ row' = [row EXCEPT ![h.id] = "deleted"]
            /\ Done(w, h)
            /\ at' = [at EXCEPT ![w] = "ready"]
            /\ UNCHANGED <<retry, events, failures>>
      BY <1>8 DEF MoveToDeadLetter
    <2>2. h.id \in Entries /\ h.retry \in Nat /\ h.retry <= retry[h.id]
      BY <1>0 DEF HeldIsOld
    <2>3. failures[h.id] = MaxRetries
      <3>1. w \in HandlingAny(h.id)
        BY <2>1 DEF HandlingAny, Handling
      <3>2. /\ IsFiniteSet(HandlingAny(h.id)) /\ Cardinality(HandlingAny(h.id)) \in Nat
            /\ IsFiniteSet(HandlingAny(h.id) \ {w})
            /\ Cardinality(HandlingAny(h.id) \ {w}) = Cardinality(HandlingAny(h.id)) - 1
            /\ Cardinality(HandlingAny(h.id) \ {w}) \in Nat
        BY <3>1, HandlingFinite, FS_RemoveElement, FS_CardinalityType
      <3>3. h.retry + 1 >= MaxRetries
        BY <2>1 DEF Exhausted
      <3>4. retry[h.id] \in Nat /\ failures[h.id] \in 0 .. MaxRetries
        BY <2>2 DEF TypeOK
      <3> QED BY <2>2, <3>2, <3>3, <3>4, LimitsAssumption DEF Covered
    <2>4. /\ batch' \in [Workers -> SUBSET Held]
          /\ at' \in [Workers -> {"ready", "failed"}]
          /\ FailedHolds' /\ HeldIsOld' /\ Covered'
      <3>1. \A e \in Entries : row[e] # "none" => row'[e] # "none"
        BY <2>1 DEF TypeOK
      <3> QED BY <2>1, <3>1, WentOn
    <2>5. TypeOK'
      BY <2>1, <2>2, <2>4 DEF TypeOK, RowStates
    <2>6. NothingLost' /\ GivenUpAfterMaxRetries'
      BY <2>1, <2>2, <2>3 DEF NothingLost, GivenUpAfterMaxRetries, TypeOK
    <2> QED BY <2>4, <2>5, <2>6
  <1>9. ASSUME NEW w \in Workers, HandlingFails(w) PROVE Fine'
    <2>1. PICK h \in batch[w] :
            /\ Done(w, h) /\ at' = [at EXCEPT ![w] = "ready"]
            /\ UNCHANGED <<row, retry, events, dead, failures>>
      BY <1>9 DEF HandlingFails
    <2>2. /\ batch' \in [Workers -> SUBSET Held]
          /\ at' \in [Workers -> {"ready", "failed"}]
          /\ FailedHolds' /\ HeldIsOld' /\ Covered'
      BY <2>1, WentOn
    <2> QED BY <2>1, <2>2 DEF TypeOK, NothingLost, GivenUpAfterMaxRetries
  <1>10. ASSUME NEW w \in Workers, Restart(w) PROVE Fine'
    <2>1. /\ batch' \in [Workers -> SUBSET Held]
          /\ at' \in [Workers -> {"ready", "failed"}]
          /\ batch'[w] = {} /\ at'[w] = "ready"
          /\ \A v \in Workers \ {w} : batch'[v] = batch[v] /\ at'[v] = at[v]
          /\ UNCHANGED <<row, retry, events, dead, failures>>
      BY <1>10 DEF Restart, TypeOK
    <2>2. FailedHolds' /\ HeldIsOld' /\ Covered'
      BY <2>1, CountsKept
    <2> QED BY <2>1, <2>2 DEF TypeOK, NothingLost, GivenUpAfterMaxRetries
  <1>11. ASSUME UNCHANGED vars PROVE Fine'
    <2>1. Covered'
      <3>1. \A e \in Entries : HandlingAny(e)' \subseteq HandlingAny(e)
        BY <1>11 DEF vars, HandlingAny, Handling, IsFirst
      <3> QED BY <1>11, <3>1, FewerHandling DEF vars
    <2> QED BY <1>11, <2>1 DEF vars, TypeOK, FailedHolds, HeldIsOld, NothingLost, GivenUpAfterMaxRetries
  <1>12. ASSUME NEW w \in Workers, ScanFails(w) PROVE Fine'
    BY <1>3, <1>12 DEF ScanFails
  <1>13. ASSUME NEW w \in Workers, CountRetry(w) PROVE Fine'
    BY <1>13, RetryCounted
  <1> QED
    BY <1>1, <1>2, <1>4, <1>6, <1>7, <1>8, <1>9, <1>10, <1>11, <1>12, <1>13 DEF Next, Work

(* The inductive invariant holds in every reachable state. *)
THEOREM Invariance == Spec => []Fine
  <1> QED BY InitFine, StepFine, PTL DEF Spec

(* Types, for every set of entries and workers: rows, counts and batches of *)
(* OutboxWorker keep their shape.                                           *)
THEOREM TypeCorrect == Spec => []TypeOK
  <1>1. Fine => TypeOK
    BY DEF Fine
  <1> QED BY <1>1, Invariance, PTL

(* processEntry and moveToDeadLetter lose no event: each is pending, in the *)
(* trail or in the dead letters, whatever fails and whoever restarts.       *)
THEOREM NoEventLost == Spec => []NothingLost
  <1>1. Fine => NothingLost
    BY DEF Fine
  <1> QED BY <1>1, Invariance, PTL

(* handleFailure gives an event up after MaxRetries failed attempts and not *)
(* before, however many workers hold out-of-date copies of its retry_count. *)
THEOREM NotGivenUpEarly == Spec => []GivenUpAfterMaxRetries
  <1>1. Fine => GivenUpAfterMaxRetries
    BY DEF Fine
  <1> QED BY <1>1, Invariance, PTL

-----------------------------------------------------------------------------
(* How many copies of a row can still do something.  Once an event has a    *)
(* dead letter its row is deleted and is fetched no more, so each further   *)
(* dead letter uses up a worker that holds it; and once retry_count is one  *)
(* short of MaxRetries every new copy is exhausted, so each further count   *)
(* uses up a worker whose copy is older.                                    *)

Holders(e) == {w \in Workers : \E h \in batch[w] : h.id = e}

Counters(e) == {w \in Workers : \E h \in batch[w] : h.id = e /\ ~Exhausted(h)}

OneCopy == \A w \in Workers : \A g, h \in batch[w] : g.id = h.id => g = h

DeadRoom ==
  \A e \in Entries :
    dead[e] > 0 =>
      /\ row[e] = "deleted"
      /\ dead[e] + Cardinality(Holders(e)) <= Cardinality(Workers)

RetryRoom ==
  \A e \in Entries :
    \/ retry[e] + 2 <= MaxRetries
    \/ retry[e] + Cardinality(Counters(e)) <= MaxRetries - 2 + Cardinality(Workers)

Room == OneCopy /\ DeadRoom /\ RetryRoom

(* Sets of workers are finite, and a smaller one has no more of them. *)
LEMMA SomeWorkers ==
  ASSUME NEW S \in SUBSET Workers, NEW T \in SUBSET S
  PROVE  /\ Cardinality(S) \in Nat /\ Cardinality(T) \in Nat
         /\ Cardinality(T) <= Cardinality(S)
  <1>1. IsFiniteSet(S)
    BY WorkersAssumption, FS_Subset
  <1>2. IsFiniteSet(T) /\ Cardinality(T) <= Cardinality(S)
    BY <1>1, FS_Subset
  <1> QED BY <1>1, <1>2, FS_CardinalityType

(* Without one of its members a set of workers has one less. *)
LEMMA OneWorkerLess ==
  ASSUME NEW S \in SUBSET Workers, NEW w \in S, NEW T \in SUBSET (S \ {w})
  PROVE  Cardinality(T) + 1 <= Cardinality(S)
  <1>1. IsFiniteSet(S)
    BY WorkersAssumption, FS_Subset
  <1>2. IsFiniteSet(S \ {w}) /\ Cardinality(S \ {w}) = Cardinality(S) - 1
    BY <1>1, FS_RemoveElement
  <1>3. S \ {w} \in SUBSET Workers
    OBVIOUS
  <1>4. /\ Cardinality(T) \in Nat /\ Cardinality(T) <= Cardinality(S \ {w})
        /\ Cardinality(S) \in Nat
    BY <1>1, <1>3, SomeWorkers, FS_CardinalityType
  <1> QED BY <1>2, <1>4

\* Nothing has been counted, and nobody holds a copy.
LEMMA InitRoom ==
  ASSUME Workers # {} \/ MaxRetries > 1
  PROVE  Init => Room
  <1> SUFFICES ASSUME Init PROVE Room
    OBVIOUS
  <1>1. OneCopy /\ DeadRoom
    BY DEF Init, OneCopy, DeadRoom
  <1>2. RetryRoom
    <2> SUFFICES ASSUME NEW e \in Entries
                 PROVE  \/ retry[e] + 2 <= MaxRetries
                        \/ retry[e] + Cardinality(Counters(e))
                             <= MaxRetries - 2 + Cardinality(Workers)
      BY DEF RetryRoom
    <2>1. retry[e] = 0
      BY DEF Init
    <2>2. CASE MaxRetries > 1
      BY <2>1, <2>2, LimitsAssumption
    <2>3. CASE Workers # {}
      <3>1. PICK w \in Workers : TRUE
        BY <2>3
      <3>2. Counters(e) = {}
        BY DEF Init, Counters
      <3>3. Workers \in SUBSET Workers /\ {} \in SUBSET (Workers \ {w})
        OBVIOUS
      <3>4. Cardinality({}) + 1 <= Cardinality(Workers)
        BY <3>3, OneWorkerLess
      <3>5. Cardinality({}) \in Nat /\ Cardinality(Workers) \in Nat
        BY <3>3, SomeWorkers
      <3> QED BY <2>1, <3>2, <3>4, <3>5, LimitsAssumption
    <2> QED BY <2>2, <2>3
  <1> QED BY <1>1, <1>2 DEF Room

(* A step that gives no worker a new copy and counts nothing. *)
LEMMA NoNewCopies ==
  ASSUME TypeOK, Room, UNCHANGED <<retry, dead>>,
         \A v \in Workers : batch'[v] \subseteq batch[v],
         \A e \in Entries : row[e] = "deleted" => row'[e] = "deleted"
  PROVE  Room'
  <1>1. OneCopy'
    BY DEF Room, OneCopy
  <1>2. ASSUME NEW e \in Entries
        PROVE  /\ Holders(e) \in SUBSET Workers /\ Holders(e)' \in SUBSET Holders(e)
               /\ Counters(e) \in SUBSET Workers /\ Counters(e)' \in SUBSET Counters(e)
    BY DEF Holders, Counters, Exhausted
  <1>3. Cardinality(Workers) \in Nat
    BY WorkersAssumption, FS_CardinalityType
  <1>4. ASSUME NEW e \in Entries
        PROVE  /\ Cardinality(Holders(e)) \in Nat /\ Cardinality(Holders(e)') \in Nat
               /\ Cardinality(Holders(e)') <= Cardinality(Holders(e))
               /\ Cardinality(Counters(e)) \in Nat /\ Cardinality(Counters(e)') \in Nat
               /\ Cardinality(Counters(e)') <= Cardinality(Counters(e))
    BY <1>2, SomeWorkers
  <1>5. \A e \in Entries : dead[e] \in Nat /\ retry[e] \in Nat
    BY DEF TypeOK
  <1>6. DeadRoom'
    BY <1>3, <1>4, <1>5 DEF Room, DeadRoom
  <1>7. RetryRoom'
    BY <1>3, <1>4, <1>5, LimitsAssumption DEF Room, RetryRoom
  <1> QED BY <1>1, <1>6, <1>7 DEF Room

(* A worker that has gone on from a row holds no copy of it any more. *)
LEMMA LetGo ==
  ASSUME TypeOK, OneCopy, NEW w \in Workers, NEW h \in batch[w], Done(w, h)
  PROVE  /\ \A v \in Workers : batch'[v] \subseteq batch[v]
         /\ \A g \in batch'[w] : g.id # h.id
  BY DEF TypeOK, OneCopy, Done

(* A fetch gives copies of rows that are not deleted, and copies of a row   *)
(* that is one short of the limit are exhausted.                            *)
LEMMA FetchRoom ==
  ASSUME TypeOK, Room, NEW w \in Workers, Fetch(w)
  PROVE  Room'
  <1>1. /\ \A v \in Workers \ {w} : batch'[v] = batch[v]
        /\ batch'[w] = {[id |-> e, retry |-> retry[e]] : e \in Selected}
        /\ UNCHANGED <<row, retry, dead>>
    BY DEF Fetch, TypeOK
  <1>2. \A e \in Selected : e \in Entries /\ row[e] = "pending"
    BY DEF Selected, Undelivered
  <1>3. \A g \in batch'[w] : g.id \in Entries /\ row[g.id] = "pending" /\ g.retry = retry[g.id]
    BY <1>1, <1>2
  <1>4. OneCopy'
    <2>1. \A g, h \in batch'[w] : g.id = h.id => g = h
      BY <1>1
    <2> QED BY <1>1, <2>1 DEF Room, OneCopy
  <1>5. Cardinality(Workers) \in Nat /\ \A e \in Entries : dead[e] \in Nat /\ retry[e] \in Nat
    BY WorkersAssumption, FS_CardinalityType DEF TypeOK
  <1>6. DeadRoom'
    <2> SUFFICES ASSUME NEW e \in Entries, dead[e] > 0
                 PROVE  /\ row[e] = "deleted"
                        /\ dead[e] + Cardinality(Holders(e)') <= Cardinality(Workers)
      BY <1>1 DEF DeadRoom
    <2>1. row[e] = "deleted" /\ dead[e] + Cardinality(Holders(e)) <= Cardinality(Workers)
      BY DEF Room, DeadRoom
    <2>2. Holders(e)' \in SUBSET Holders(e) /\ Holders(e) \in SUBSET Workers
      BY <1>1, <1>3, <2>1 DEF Holders
    <2>3. /\ Cardinality(Holders(e)') <= Cardinality(Holders(e))
          /\ Cardinality(Holders(e)') \in Nat /\ Cardinality(Holders(e)) \in Nat
      BY <2>2, SomeWorkers
    <2> QED BY <1>5, <2>1, <2>3
  <1>7. RetryRoom'
    <2> SUFFICES ASSUME NEW e \in Entries, ~(retry[e] + 2 <= MaxRetries)
                 PROVE  retry[e] + Cardinality(Counters(e)') <= MaxRetries - 2 + Cardinality(Workers)
      BY <1>1 DEF RetryRoom
    <2>1. retry[e] + Cardinality(Counters(e)) <= MaxRetries - 2 + Cardinality(Workers)
      BY DEF Room, RetryRoom
    <2>2. ASSUME NEW g \in batch'[w], g.id = e PROVE Exhausted(g)
      BY <1>3, <1>5, <2>2, LimitsAssumption DEF Exhausted
    <2>3. Counters(e)' \in SUBSET Counters(e) /\ Counters(e) \in SUBSET Workers
      <3>1. ASSUME NEW v \in Workers, NEW g \in batch'[v], g.id = e, ~Exhausted(g)
            PROVE  v \in Counters(e)
        BY <1>1, <2>2, <3>1 DEF Counters
      <3>2. \A v \in Counters(e)' : v \in Workers /\ \E g \in batch'[v] : g.id = e /\ ~Exhausted(g)
        BY DEF Counters, Exhausted
      <3> QED BY <3>1, <3>2 DEF Counters
    <2>4. /\ Cardinality(Counters(e)') <= Cardinality(Counters(e))
          /\ Cardinality(Counters(e)') \in Nat /\ Cardinality(Counters(e)) \in Nat
      BY <2>3, SomeWorkers
    <2> QED BY <1>5, <2>1, <2>4, LimitsAssumption
  <1> QED BY <1>4, <1>6, <1>7 DEF Room

(* Counting a retry uses up a copy that was not exhausted. *)
LEMMA CountRetryRoom ==
  ASSUME TypeOK, Room, NEW w \in Workers, CountRetry(w)
  PROVE  Room'
  <1>1. PICK h \in batch[w] :
          /\ ~Exhausted(h)
          /\ retry' = [retry EXCEPT ![h.id] = IF row[h.id] = "deleted" THEN @ ELSE @ + 1]
          /\ Done(w, h)
          /\ UNCHANGED <<row, events, dead, failures>>
    BY DEF CountRetry
  <1>2. h.id \in Entries /\ Cardinality(Workers) \in Nat
    BY WorkersAssumption, FS_CardinalityType DEF TypeOK, Held
  <1>3. /\ \A v \in Workers : batch'[v] \subseteq batch[v]
        /\ \A g \in batch'[w] : g.id # h.id
    BY <1>1, LetGo DEF Room
  <1>4. OneCopy'
    BY <1>3 DEF Room, OneCopy
  <1>5. ASSUME NEW e \in Entries
        PROVE  /\ Holders(e) \in SUBSET Workers /\ Holders(e)' \in SUBSET Holders(e)
               /\ Counters(e) \in SUBSET Workers /\ Counters(e)' \in SUBSET Counters(e)
    BY <1>3 DEF Holders, Counters, Exhausted
  <1>6. ASSUME NEW e \in Entries
        PROVE  /\ Cardinality(Holders(e)) \in Nat /\ Cardinality(Holders(e)') \in Nat
               /\ Cardinality(Holders(e)') <= Cardinality(Holders(e))
               /\ Cardinality(Counters(e)) \in Nat /\ Cardinality(Counters(e)') \in Nat
               /\ Cardinality(Counters(e)') <= Cardinality(Counters(e))
    BY <1>5, SomeWorkers
  <1>7. \A e \in Entries : dead[e] \in Nat /\ retry[e] \in Nat
    BY DEF TypeOK
  <1>8. DeadRoom'
    BY <1>1, <1>2, <1>6, <1>7 DEF Room, DeadRoom
  <1>9. RetryRoom'
    <2> SUFFICES ASSUME NEW e \in Entries
                 PROVE  \/ retry'[e] + 2 <= MaxRetries
                        \/ retry'[e] + Cardinality(Counters(e)') <= MaxRetries - 2 + Cardinality(Workers)
      BY DEF RetryRoom
    <2>1. CASE e # h.id
      <3>1. retry'[e] = retry[e]
        BY <1>1, <2>1 DEF TypeOK
      <3> QED BY <1>2, <1>6, <1>7, <3>1, LimitsAssumption DEF Room, RetryRoom
    <2>2. CASE e = h.id
      <3>1. w \in Counters(e)
        BY <1>1, <2>2 DEF Counters
      <3>2. Counters(e)' \in SUBSET (Counters(e) \ {w})
        BY <1>3, <1>5, <2>2 DEF Counters
      <3>3. Cardinality(Counters(e)') + 1 <= Cardinality(Counters(e))
        BY <1>5, <3>1, <3>2, OneWorkerLess
      <3>4. Cardinality(Counters(e)) <= Cardinality(Workers)
        BY <1>5, SomeWorkers
      <3>5. retry'[e] = retry[e] \/ retry'[e] = retry[e] + 1
        BY <1>1, <2>2 DEF TypeOK
      <3> QED BY <1>2, <1>6, <1>7, <3>3, <3>4, <3>5, LimitsAssumption DEF Room, RetryRoom
    <2> QED BY <2>1, <2>2
  <1> QED BY <1>4, <1>8, <1>9 DEF Room

(* A dead letter uses up a copy, and no copy of a deleted row is made. *)
LEMMA DeadLetterRoom ==
  ASSUME TypeOK, Room, NEW w \in Workers, MoveToDeadLetter(w)
  PROVE  Room'
  <1>1. PICK h \in batch[w] :
          /\ dead' = [dead EXCEPT ![h.id] = @ + 1]
          /\ row' = [row EXCEPT ![h.id] = "deleted"]
          /\ Done(w, h)
          /\ UNCHANGED <<retry, events, failures>>
    BY DEF MoveToDeadLetter
  <1>2. h.id \in Entries /\ Cardinality(Workers) \in Nat
    BY WorkersAssumption, FS_CardinalityType DEF TypeOK, Held
  <1>3. /\ \A v \in Workers : batch'[v] \subseteq batch[v]
        /\ \A g \in batch'[w] : g.id # h.id
    BY <1>1, LetGo DEF Room
  <1>4. OneCopy'
    BY <1>3 DEF Room, OneCopy
  <1>5. ASSUME NEW e \in Entries
        PROVE  /\ Holders(e) \in SUBSET Workers /\ Holders(e)' \in SUBSET Holders(e)
               /\ Counters(e) \in SUBSET Workers /\ Counters(e)' \in SUBSET Counters(e)
    BY <1>3 DEF Holders, Counters, Exhausted
  <1>6. ASSUME NEW e \in Entries
        PROVE  /\ Cardinality(Holders(e)) \in Nat /\ Cardinality(Holders(e)') \in Nat
               /\ Cardinality(Holders(e)') <= Cardinality(Holders(e))
               /\ Cardinality(Holders(e)) <= Cardinality(Workers)
               /\ Cardinality(Counters(e)) \in Nat /\ Cardinality(Counters(e)') \in Nat
               /\ Cardinality(Counters(e)') <= Cardinality(Counters(e))
    BY <1>5, SomeWorkers
  <1>7. \A e \in Entries : dead[e] \in Nat /\ retry[e] \in Nat
    BY DEF TypeOK
  <1>8. DeadRoom'
    <2> SUFFICES ASSUME NEW e \in Entries, dead'[e] > 0
                 PROVE  /\ row'[e] = "deleted"
                        /\ dead'[e] + Cardinality(Holders(e)') <= Cardinality(Workers)
      BY DEF DeadRoom
    <2>1. CASE e # h.id
      <3>1. dead'[e] = dead[e] /\ row'[e] = row[e]
        BY <1>1, <2>1 DEF TypeOK
      <3> QED BY <1>2, <1>6, <1>7, <3>1 DEF Room, DeadRoom
    <2>2. CASE e = h.id
      <3>1. w \in Holders(e)
        BY <2>2 DEF Holders
      <3>2. Holders(e)' \in SUBSET (Holders(e) \ {w})
        BY <1>3, <1>5, <2>2 DEF Holders
      <3>3. Cardinality(Holders(e)') + 1 <= Cardinality(Holders(e))
        BY <1>5, <3>1, <3>2, OneWorkerLess
      <3>4. dead'[e] = dead[e] + 1 /\ row'[e] = "deleted"
        BY <1>1, <1>2, <2>2 DEF TypeOK
      <3> QED BY <1>2, <1>6, <1>7, <3>3, <3>4 DEF Room, DeadRoom
    <2> QED BY <2>1, <2>2
  <1>9. RetryRoom'
    BY <1>1, <1>2, <1>6, <1>7, LimitsAssumption DEF Room, RetryRoom
  <1> QED BY <1>4, <1>8, <1>9 DEF Room

\* Every step keeps the room: one lemma for each kind of step.
LEMMA StepRoom == Fine /\ Room /\ [Next]_vars => Room'
  <1> SUFFICES ASSUME Fine, Room, [Next]_vars PROVE Room'
    OBVIOUS
  <1>0. TypeOK /\ OneCopy
    BY DEF Fine, Room
  <1>1. ASSUME NEW e \in Entries, Record(e) PROVE Room'
    BY <1>0, <1>1, NoNewCopies DEF Record, TypeOK
  <1>2. ASSUME NEW w \in Workers, NEW h \in batch[w], Done(w, h), UNCHANGED <<row, retry, dead>>
        PROVE  Room'
    BY <1>0, <1>2, LetGo, NoNewCopies
  <1>3. ASSUME NEW w \in Workers, NEW h \in batch[w], Applied(h.id)
        PROVE  /\ UNCHANGED <<retry, dead>>
               /\ \A e \in Entries : row[e] = "deleted" => row'[e] = "deleted"
    BY <1>0, <1>3 DEF Applied, TypeOK
  <1>4. ASSUME NEW w \in Workers, Deliver(w) PROVE Room'
    <2>1. PICK h \in batch[w] : Applied(h.id) /\ Done(w, h)
      BY <1>4 DEF Deliver
    <2>2. \A v \in Workers : batch'[v] \subseteq batch[v]
      BY <1>0, <2>1, LetGo
    <2> QED BY <1>0, <1>3, <2>1, <2>2, NoNewCopies
  <1>5. ASSUME NEW w \in Workers, DeliverUnacknowledged(w) PROVE Room'
    BY <1>0, <1>3, <1>5, NoNewCopies DEF DeliverUnacknowledged
  <1>6. ASSUME UNCHANGED <<row, retry, dead, batch>> PROVE Room'
    BY <1>0, <1>6, NoNewCopies
  <1>7. ASSUME NEW w \in Workers, Restart(w) PROVE Room'
    BY <1>0, <1>7, NoNewCopies DEF Restart, TypeOK
  <1>8. ASSUME NEW w \in Workers, Work(w) PROVE Room'
    <2>1. CASE Fetch(w)
      BY <1>0, <2>1, FetchRoom
    <2>2. CASE ScanFails(w) \/ HandlingFails(w)
      BY <1>2, <2>2 DEF ScanFails, HandlingFails
    <2>3. CASE Deliver(w) \/ DeliverUnacknowledged(w)
      BY <1>4, <1>5, <2>3
    <2>4. CASE ProcessFails(w)
      BY <1>6, <2>4 DEF ProcessFails
    <2>5. CASE CountRetry(w)
      BY <1>0, <2>5, CountRetryRoom
    <2>6. CASE MoveToDeadLetter(w)
      BY <1>0, <2>6, DeadLetterRoom
    <2> QED BY <1>8, <2>1, <2>2, <2>3, <2>4, <2>5, <2>6 DEF Work
  <1>9. CASE UNCHANGED vars
    BY <1>6, <1>9 DEF vars
  <1> QED BY <1>1, <1>7, <1>8, <1>9 DEF Next

\* Workers are finitely many, so the room bounds the copies.
LEMMA RoomBounds == TypeOK /\ Room => CopiesBounded
  <1> SUFFICES ASSUME TypeOK, Room, NEW e \in Entries
               PROVE  /\ dead[e] <= Cardinality(Workers)
                      /\ retry[e] <= MaxRetries - 2 + Cardinality(Workers)
    BY DEF CopiesBounded
  <1>1. /\ Holders(e) \in SUBSET Workers /\ Counters(e) \in SUBSET Workers
        /\ Workers \in SUBSET Workers
    BY DEF Holders, Counters
  <1>2. /\ Cardinality(Workers) \in Nat
        /\ Cardinality(Holders(e)) \in Nat /\ Cardinality(Counters(e)) \in Nat
    BY <1>1, SomeWorkers
  <1>3. dead[e] \in Nat /\ retry[e] \in Nat
    BY DEF TypeOK
  <1> QED BY <1>2, <1>3, LimitsAssumption DEF Room, DeadRoom, RetryRoom

(* The dead letters of an event, and what retry_count of its row can reach  *)
(* beyond the limit, are bounded by the number of workers that can hold     *)
(* copies of it (MaxRetries is 10 in the code; with a limit of one and no   *)
(* worker there is nothing to bound).                                       *)
THEOREM FewCopies ==
  ASSUME Workers # {} \/ MaxRetries > 1
  PROVE  Spec => []CopiesBounded
  <1>1. Init => Room
    BY InitRoom
  <1> QED BY <1>1, StepRoom, RoomBounds, Invariance, TypeCorrect, PTL DEF Spec

-----------------------------------------------------------------------------
\* There are no events to deliver.
LEMMA InitMaps == Init => Abstract!Init
  BY DEF Init, Abstract!Init

(* Every step of the outbox is a step of AuditDelivery, or none. *)
LEMMA StepMaps == Fine /\ [Next]_vars => [Abstract!Next]_(Abstract!vars)
  <1> SUFFICES ASSUME Fine, [Next]_vars PROVE [Abstract!Next]_(Abstract!vars)
    OBVIOUS
  <1> USE DEF Fine, TypeOK
  <1>0. \A w \in Workers : \A h \in batch[w] : h.id \in Entries /\ row[h.id] # "none"
    BY DEF Held, HeldIsOld
  <1>1. ASSUME NEW e \in Entries, Record(e) PROVE Abstract!Record(e)
    BY <1>1 DEF Record, Abstract!Record
  <1>2. ASSUME NEW w \in Workers, NEW h \in batch[w], Applied(h.id)
        PROVE  Abstract!Archive(h.id)
    BY <1>0, <1>2 DEF Applied, Abstract!Archive
  <1>3. ASSUME NEW w \in Workers, MoveToDeadLetter(w)
        PROVE  \E e \in Entries : Abstract!Bury(e)
    <2>1. PICK h \in batch[w] :
            /\ dead' = [dead EXCEPT ![h.id] = @ + 1]
            /\ row' = [row EXCEPT ![h.id] = "deleted"]
            /\ UNCHANGED events
      BY <1>3 DEF MoveToDeadLetter
    <2>2. Abstract!Bury(h.id)
      BY <1>0, <2>1 DEF Abstract!Bury
    <2> QED BY <1>0, <2>2
  <1>4. ASSUME UNCHANGED <<row, events, dead>> PROVE UNCHANGED Abstract!vars
    BY <1>4 DEF Abstract!vars
  <1>5. ASSUME NEW w \in Workers, Work(w) \/ Restart(w)
        PROVE  [Abstract!Next]_(Abstract!vars)
    <2>1. CASE Deliver(w) \/ DeliverUnacknowledged(w)
      BY <1>0, <1>2, <2>1 DEF Deliver, DeliverUnacknowledged, Abstract!Next
    <2>2. CASE MoveToDeadLetter(w)
      BY <1>3, <2>2 DEF Abstract!Next
    <2>3. CASE \/ Fetch(w) \/ ScanFails(w) \/ ProcessFails(w)
               \/ CountRetry(w) \/ HandlingFails(w) \/ Restart(w)
      BY <1>4, <2>3 DEF Fetch, ScanFails, ProcessFails, CountRetry, HandlingFails, Restart
    <2> QED BY <1>5, <2>1, <2>2, <2>3 DEF Work
  <1> QED BY <1>1, <1>4, <1>5 DEF Next, Abstract!Next, vars

(* The safety part of the promise of AuditDelivery: the steps of the workers *)
(* are steps of it, or none.                                                 *)
THEOREM Refinement == Spec => ImplementsDeliverySafely
  <1> QED BY InitMaps, StepMaps, Invariance, PTL
       DEF Spec, ImplementsDeliverySafely, Abstract!SafeSpec
=============================================================================

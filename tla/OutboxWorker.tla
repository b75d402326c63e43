---------------------------- MODULE OutboxWorker ----------------------------
(***************************************************************************)
(* The audit outbox: business transactions insert events, workers move     *)
(* them to the audit trail or, after MaxRetries failures, to the dead      *)
(* letters.  Source: internal/platform/audit/outbox_worker.go, auditor.go. *)
(*                                                                         *)
(* A worker reads a batch in one query that locks nothing, so what it      *)
(* holds of a row is as old as that query, and several workers (one per    *)
(* replica) can hold the same row.  A database transaction is one step; it *)
(* can fail, or be applied while its caller sees an error.                 *)
(***************************************************************************)
EXTENDS Integers, FiniteSets

CONSTANTS
  Entries,      \* outbox ids, in the order of created_at
  Poison,       \* entries whose event no transaction accepts
  Workers,
  BatchSize,
  MaxRetries

ASSUME EntriesAssumption ==
  Entries \subseteq Nat /\ IsFiniteSet(Entries) /\ Poison \subseteq Entries
ASSUME WorkersAssumption == IsFiniteSet(Workers)
ASSUME LimitsAssumption ==
  BatchSize \in Nat \ {0} /\ MaxRetries \in Nat \ {0}

VARIABLES
  row,       \* audit.outbox: none yet, pending, delivered, or deleted
  retry,     \* retry_count of the row
  events,    \* audit.events, by audit_id
  dead,      \* number of audit.dead_letter rows of an entry
  batch,     \* rows each worker still holds, with the retry_count it read
  at,        \* "ready" for the next row, or "failed" on this one
  failures   \* history: failed attempts at an entry, up to MaxRetries

vars == <<row, retry, events, dead, batch, at, failures>>

RowStates == {"none", "pending", "delivered", "deleted"}

Held == [id: Entries, retry: Nat]

TypeOK ==
  /\ row \in [Entries -> RowStates]
  /\ retry \in [Entries -> Nat]
  /\ events \subseteq Entries
  /\ dead \in [Entries -> Nat]
  /\ batch \in [Workers -> SUBSET Held]
  /\ at \in [Workers -> {"ready", "failed"}]
  /\ failures \in [Entries -> 0 .. MaxRetries]

Init ==
  /\ row = [e \in Entries |-> "none"]
  /\ retry = [e \in Entries |-> 0]
  /\ events = {}
  /\ dead = [e \in Entries |-> 0]
  /\ batch = [w \in Workers |-> {}]
  /\ at = [w \in Workers |-> "ready"]
  /\ failures = [e \in Entries |-> 0]

Undelivered == {e \in Entries : row[e] = "pending"}

\* ORDER BY created_at LIMIT batchSize.
Selected ==
  {e \in Undelivered : Cardinality({f \in Undelivered : f < e}) < BatchSize}

\* The row a worker is at.
IsFirst(w, h) == h \in batch[w] /\ \A g \in batch[w] : h.id <= g.id

\* Mutant of Exhausted: the event is given up one attempt too early.
ExhaustedEarly(h) == h.retry + 2 >= MaxRetries

\* Mutant of Exhausted: the count is compared before it is incremented.
ExhaustedLate(h) == h.retry >= MaxRetries

\* entry.RetryCount++ ; entry.RetryCount >= MaxRetries
Exhausted(h) == h.retry + 1 >= MaxRetries

CountFailure(e) ==
  failures' = [failures EXCEPT ![e] = IF @ < MaxRetries THEN @ + 1 ELSE @]

Done(w, h) == batch' = [batch EXCEPT ![w] = @ \ {h}]
-----------------------------------------------------------------------------
\* Auditor.Record, committed with the business transaction.
Record(e) ==
  /\ row[e] = "none"
  /\ row' = [row EXCEPT ![e] = "pending"]
  /\ UNCHANGED <<retry, events, dead, batch, at, failures>>

Fetch(w) ==
  /\ batch[w] = {} /\ Selected # {}
  /\ batch' = [batch EXCEPT ![w] = {[id |-> e, retry |-> retry[e]] : e \in Selected}]
  /\ UNCHANGED <<row, retry, events, dead, at, failures>>

\* A row that does not scan is left for a later batch.
ScanFails(w) ==
  \E h \in batch[w] :
    /\ at[w] = "ready" /\ IsFirst(w, h)
    /\ Done(w, h)
    /\ UNCHANGED <<row, retry, events, dead, at, failures>>

\* Mutant of Applied: the row is marked although the event was not inserted.
MarkedOnly(e) ==
  /\ row' = [row EXCEPT ![e] = IF @ = "deleted" THEN @ ELSE "delivered"]
  /\ UNCHANGED <<retry, dead, events>>

\* The transaction of processEntry is applied: the event is in the trail, once,
\* and the row, if it is still there, is marked.
Applied(e) ==
  /\ e \notin Poison
  /\ events' = events \cup {e}
  /\ row' = [row EXCEPT ![e] = IF @ = "deleted" THEN @ ELSE "delivered"]
  /\ UNCHANGED <<retry, dead>>

Deliver(w) ==
  \E h \in batch[w] :
    /\ at[w] = "ready" /\ IsFirst(w, h)
    /\ Applied(h.id)
    /\ Done(w, h)
    /\ UNCHANGED <<at, failures>>

\* ... but Commit returned an error.
DeliverUnacknowledged(w) ==
  \E h \in batch[w] :
    /\ at[w] = "ready" /\ IsFirst(w, h)
    /\ Applied(h.id)
    /\ CountFailure(h.id)
    /\ at' = [at EXCEPT ![w] = "failed"]
    /\ UNCHANGED batch

ProcessFails(w) ==
  \E h \in batch[w] :
    /\ at[w] = "ready" /\ IsFirst(w, h)
    /\ CountFailure(h.id)
    /\ at' = [at EXCEPT ![w] = "failed"]
    /\ UNCHANGED <<row, retry, events, dead, batch>>

\* Mutant of CountRetry: the retries left are counted down instead.
CountRetryDown(w) ==
  \E h \in batch[w] :
    /\ at[w] = "failed" /\ IsFirst(w, h) /\ ~Exhausted(h)
    /\ retry' = [retry EXCEPT ![h.id] = @ - 1]
    /\ Done(w, h)
    /\ at' = [at EXCEPT ![w] = "ready"]
    /\ UNCHANGED <<row, events, dead, failures>>

\* handleFailure, with retries left: one more on the row, if it is there.
CountRetry(w) ==
  \E h \in batch[w] :
    /\ at[w] = "failed" /\ IsFirst(w, h) /\ ~Exhausted(h)
    /\ retry' = [retry EXCEPT ![h.id] = IF row[h.id] = "deleted" THEN @ ELSE @ + 1]
    /\ Done(w, h)
    /\ at' = [at EXCEPT ![w] = "ready"]
    /\ UNCHANGED <<row, events, dead, failures>>

\* Mutant of MoveToDeadLetter: the row is deleted without the dead letter.
DeleteOnly(w) ==
  \E h \in batch[w] :
    /\ at[w] = "failed" /\ IsFirst(w, h) /\ Exhausted(h)
    /\ row' = [row EXCEPT ![h.id] = "deleted"]
    /\ Done(w, h)
    /\ at' = [at EXCEPT ![w] = "ready"]
    /\ UNCHANGED <<retry, events, dead, failures>>

\* moveToDeadLetter: a dead letter, and the row deleted whatever became of it.
MoveToDeadLetter(w) ==
  \E h \in batch[w] :
    /\ at[w] = "failed" /\ IsFirst(w, h) /\ Exhausted(h)
    /\ dead' = [dead EXCEPT ![h.id] = @ + 1]
    /\ row' = [row EXCEPT ![h.id] = "deleted"]
    /\ Done(w, h)
    /\ at' = [at EXCEPT ![w] = "ready"]
    /\ UNCHANGED <<retry, events, failures>>

\* handleFailure itself fails: it logs, and the worker goes on.
HandlingFails(w) ==
  \E h \in batch[w] :
    /\ at[w] = "failed" /\ IsFirst(w, h)
    /\ Done(w, h)
    /\ at' = [at EXCEPT ![w] = "ready"]
    /\ UNCHANGED <<row, retry, events, dead, failures>>

\* The worker stops between two transactions, and starts again with nothing.
Restart(w) ==
  /\ batch[w] # {}
  /\ batch' = [batch EXCEPT ![w] = {}]
  /\ at' = [at EXCEPT ![w] = "ready"]
  /\ UNCHANGED <<row, retry, events, dead, failures>>

Work(w) ==
  \/ Fetch(w) \/ ScanFails(w)
  \/ Deliver(w) \/ DeliverUnacknowledged(w) \/ ProcessFails(w)
  \/ CountRetry(w) \/ MoveToDeadLetter(w) \/ HandlingFails(w)

Next ==
  \/ \E e \in Entries : Record(e)
  \/ \E w \in Workers : Work(w) \/ Restart(w)

Spec == Init /\ [][Next]_vars

\* A worker goes on polling and working through its batch, and what fails can
\* fail again and again but not for ever: a row that is reached again and again
\* is in the end scanned, and what its transaction does is in the end applied.
Reached(w, e) == \E h \in batch[w] : IsFirst(w, h) /\ h.id = e

Fairness ==
  \A w \in Workers :
    /\ WF_vars(Work(w))
    /\ \A e \in Entries :
         /\ SF_vars(Reached(w, e) /\ (Deliver(w) \/ ProcessFails(w)))
         /\ SF_vars(Reached(w, e) /\ (CountRetry(w) \/ MoveToDeadLetter(w)))

FairSpec == Spec /\ Fairness
-----------------------------------------------------------------------------
\* No event is lost: one that was recorded is pending, in the trail, or in the
\* dead letters; and a row marked delivered has its event in the trail.
NothingLost ==
  \A e \in Entries :
    /\ row[e] = "delivered" => e \in events
    /\ row[e] = "deleted" => dead[e] > 0

\* An event is given up only after MaxRetries failed attempts, although several
\* workers act on copies of retry_count that are out of date.
GivenUpAfterMaxRetries ==
  \A e \in Entries : dead[e] > 0 => failures[e] = MaxRetries

\* However many workers hold a row when it is given up, retry_count and the
\* dead letters of one event stay bounded by their number.
CopiesBounded ==
  \A e \in Entries :
    /\ dead[e] <= Cardinality(Workers)
    /\ retry[e] <= MaxRetries - 2 + Cardinality(Workers)

\* The outbox keeps the promise of AuditDelivery.
Abstract == INSTANCE AuditDelivery WITH
  recorded <- {e \in Entries : row[e] # "none"},
  archived <- events,
  buried   <- {e \in Entries : dead[e] > 0}

ImplementsDelivery == Abstract!Spec
ImplementsDeliverySafely == Abstract!SafeSpec
=============================================================================

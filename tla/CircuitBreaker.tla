--------------------------- MODULE CircuitBreaker ---------------------------
(***************************************************************************)
(* One circuit breaker shared by concurrent callers of Execute, monitoring *)
(* readers (GetState, IsAvailable) and operators (Reset).                  *)
(* Source: pkg/resilience/circuit_breaker.go.                              *)
(*                                                                         *)
(* Execute takes cb.mu twice, before and after fn, and runs fn and looks   *)
(* at ctx without it, so a call is three steps.  GetState changes the      *)
(* breaker while it holds only the read lock: it is two steps, between     *)
(* which other readers run but no writer does.                             *)
(***************************************************************************)
EXTENDS BreakerCore, FiniteSets

CONSTANTS
  Callers,      \* goroutines that use the breaker
  Cancellable   \* those whose ctx may be done before fn is called

ASSUME CallersAssumption == IsFiniteSet(Callers) /\ Cancellable \subseteq Callers

VARIABLES
  cb,      \* the breaker
  pc,      \* where each caller is
  probe    \* history: callers let in during the present half-open period
           \* whose call is not over

vars == <<cb, pc, probe>>

Places == {"idle", "admitted", "running", "readClosed", "readOpen"}

TypeOK ==
  /\ cb \in Breaker
  /\ pc \in [Callers -> Places]
  /\ probe \subseteq Callers

Init ==
  /\ cb = NewCircuitBreaker
  /\ pc = [c \in Callers |-> "idle"]
  /\ probe = {}

InFlight == {c \in Callers : pc[c] \in {"admitted", "running"}}

Readers == {c \in Callers : pc[c] \in {"readClosed", "readOpen"}}

Goto(c, place) == pc' = [pc EXCEPT ![c] = place]

\* Mutant of WriteLock: readers do not keep writers out.
NoWriteLock == TRUE

\* cb.mu.Lock() waits for every holder of the read lock.
WriteLock == Readers = {}

\* The probes, once the breaker is b: the rest of p only while half-open.
ProbesUnder(b, p) == IF b.state = "HalfOpen" THEN p ELSE {}
-----------------------------------------------------------------------------
Admit(c) ==
  LET b == CurrentState(cb) IN
  /\ pc[c] = "idle" /\ WriteLock
  /\ Admits(b)
  /\ cb' = CountRequest(b)
  /\ Goto(c, "admitted")
  /\ probe' = ProbesUnder(b, probe \cup {c})

\* ErrCircuitOpen or ErrTooManyRequests.
Reject(c) ==
  LET b == CurrentState(cb) IN
  /\ pc[c] = "idle" /\ WriteLock
  /\ ~Admits(b)
  /\ cb' = b
  /\ probe' = ProbesUnder(b, probe)
  /\ UNCHANGED pc

\* ctx is done: Execute returns, and afterRequest is never called.
CtxDone(c) ==
  /\ pc[c] = "admitted" /\ c \in Cancellable
  /\ Goto(c, "idle")
  /\ probe' = probe \ {c}
  /\ UNCHANGED cb

CallFn(c) ==
  /\ pc[c] = "admitted"
  /\ Goto(c, "running")
  /\ UNCHANGED <<cb, probe>>

AfterRequest(c, ok) ==
  /\ pc[c] = "running" /\ WriteLock
  /\ cb' = Record(cb, ok)
  /\ Goto(c, "idle")
  /\ probe' = ProbesUnder(cb', probe \ {c})

\* GetState, under the read lock, finds that time has moved the state on ...
ReadDue(c) ==
  /\ pc[c] = "idle" /\ Expired(cb)
  /\ \/ cb.state = "Closed" /\ Goto(c, "readClosed")
     \/ cb.state = "Open" /\ Goto(c, "readOpen")
  /\ UNCHANGED <<cb, probe>>

\* ... and writes what it decided, whatever other readers wrote meanwhile.
ReadWrite(c) ==
  /\ c \in Readers
  /\ cb' = IF pc[c] = "readClosed"
           THEN [Fresh("Closed") EXCEPT !.state = cb.state]
           ELSE SetState(cb, "HalfOpen")
  /\ Goto(c, "idle")
  /\ probe' = ProbesUnder(cb', probe)

Reset ==
  /\ WriteLock
  /\ cb' = ManuallyReset
  /\ probe' = {}
  /\ UNCHANGED pc

Tick ==
  /\ cb' = Elapse(cb)
  /\ UNCHANGED <<pc, probe>>

Next ==
  \/ \E c \in Callers :
       \/ Admit(c) \/ Reject(c) \/ CtxDone(c) \/ CallFn(c)
       \/ \E ok \in BOOLEAN : AfterRequest(c, ok)
       \/ ReadDue(c) \/ ReadWrite(c)
  \/ Reset
  \/ Tick

Spec == Init /\ [][Next]_vars

\* Time passes, fn returns, a reader that holds the lock goes on, and traffic
\* does not dry up: a caller that would be let in calls eventually.
Fairness ==
  /\ WF_vars(Tick)
  /\ \A c \in Callers :
       /\ WF_vars(Admit(c))
       /\ WF_vars(CallFn(c))
       /\ WF_vars(\E ok \in BOOLEAN : AfterRequest(c, ok))
       /\ WF_vars(ReadWrite(c))

FairSpec == Spec /\ Fairness
-----------------------------------------------------------------------------
(***************************************************************************)
(* Safety                                                                  *)
(***************************************************************************)

\* At rest the breaker has always acted on its counters: closed with fewer
\* failures in a row than open it, half-open with none and with fewer successes
\* than close it -- although results of calls let in during an earlier period
\* land in whatever counters there are when they arrive (onSuccess, onFailure).
ThresholdsPending == BelowThresholds(cb)

\* While half-open, the calls let in during this half-open period and still
\* running are within the number counted, and that within MaxRequests, across
\* every order of admissions, results, cancellations, readers and resets.
ProbeBudget ==
  cb.state = "HalfOpen" =>
    Cardinality(probe) <= cb.requests /\ cb.requests <= MaxRequests

\* GetState mutates under the read lock.  A reader about to write can still
\* only find what it decided on, or what another such reader wrote: nothing
\* counted is lost, and no state it did not see is overwritten.
RacyReadsLoseNothing ==
  \A c \in Readers :
    /\ pc[c] = "readClosed" =>
         /\ cb.state = "Closed" /\ cb.expiry # NoExpiry
         /\ Expired(cb) \/ cb.requests + cb.consSucc + cb.consFail = 0
    /\ pc[c] = "readOpen" =>
         \/ cb.state = "Open" /\ Expired(cb)
         \/ cb = Fresh("HalfOpen")

\* Bookkeeping behind the above: the timer fits the state, and probes are calls
\* in flight of a breaker that is half-open.
ProbesFollow ==
  /\ TimerShape(cb)
  /\ probe \subseteq InFlight
  /\ cb.state # "HalfOpen" => probe = {}

\* The inductive invariant: all of the above together.
IInv ==
  /\ TypeOK
  /\ ThresholdsPending
  /\ ProbeBudget
  /\ RacyReadsLoseNothing
  /\ ProbesFollow

\* An open breaker whose timeout runs stays open and lets no call in: only an
\* operator's Reset ends the period early.
OpenHolds ==
  [][cb.state = "Open" /\ cb.expiry > 0 =>
       /\ cb'.state = "Open" \/ cb' = ManuallyReset
       /\ InFlight' \subseteq InFlight]_vars

\* Results counted in a closed period that is over never open the circuit
\* together with later ones: the first step that touches an expired closed
\* breaker starts from cleared counters.
ExpiredCountsNeverTrip ==
  [][cb.state = "Closed" /\ Expired(cb) /\ cb' # cb =>
       /\ cb'.consFail <= 1 /\ cb'.consSucc <= 1
       /\ cb'.state = "Open" => FailureThreshold = 1]_vars

\* The breaker keeps the promise of AbstractBreaker.
Abstract == INSTANCE AbstractBreaker WITH
  Budget  <- MaxRequests,
  mode    <- cb.state,
  cooling <- cb.state = "Open" /\ ~Expired(cb),
  trials  <- IF cb.state = "HalfOpen" THEN cb.requests ELSE 0,
  inside  <- InFlight

ImplementsAbstract == Abstract!Spec
-----------------------------------------------------------------------------
(***************************************************************************)
(* Liveness                                                                *)
(***************************************************************************)

\* An open circuit does not stay open: it is tried again.
OpenIsTriedAgain == cb.state = "Open" ~> cb.state # "Open"

\* A call let in while half-open is neither running nor was it recorded.
SlotLost == cb.requests > Cardinality(probe) + cb.consSucc

\* Half-open ends, with a verdict or by Reset, unless a call lost its slot: one
\* whose ctx was done before fn was called (Execute returns and records nothing).
\* Nothing else keeps a breaker half-open: late results of earlier periods,
\* readers, refusals and every order of the probes leave a way out.
HalfOpenEnds == cb.state = "HalfOpen" ~> (cb.state # "HalfOpen" \/ SlotLost)
=============================================================================

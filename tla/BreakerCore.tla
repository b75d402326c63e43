---------------------------- MODULE BreakerCore ----------------------------
(***************************************************************************)
(* The data of one circuit breaker (pkg/resilience/circuit_breaker.go) and *)
(* what its methods do to it while they hold cb.mu, as operators from the  *)
(* record before to the record after.                                      *)
(*                                                                         *)
(* Time is the time LEFT until cb.expiry: setting expiry to now + d sets   *)
(* the field to d, one tick of the clock takes one off, and 0 means        *)
(* expiry.Before(now).  TotalSuccesses and TotalFailures are left out: no  *)
(* branch reads them.                                                      *)
(***************************************************************************)
EXTENDS Integers

CONSTANTS
  MaxRequests,       \* calls let through while half-open
  FailureThreshold,  \* consecutive failures that open the circuit
  SuccessThreshold,  \* consecutive successes that close it from half-open
  Interval,          \* length of a closed period, in ticks
  Timeout,           \* length of an open period, in ticks
  CounterSize        \* counters wrap here (2^32 in the code: uint32)

ASSUME ConfigAssumption ==
  /\ MaxRequests \in Nat \ {0} /\ MaxRequests < CounterSize
  /\ FailureThreshold \in Nat \ {0} /\ FailureThreshold < CounterSize
  /\ SuccessThreshold \in Nat \ {0} /\ SuccessThreshold < CounterSize
  /\ Interval \in Nat \ {0}
  /\ Timeout \in Nat \ {0}
  /\ CounterSize \in Nat \ {0}

States == {"Closed", "HalfOpen", "Open"}

NoExpiry == -1       \* the zero time.Time

Counter == 0 .. CounterSize - 1

Breaker == [state: States, requests: Counter,
            consSucc: Counter, consFail: Counter,
            expiry: Nat \cup {NoExpiry}]

\* Mutant of Inc: no width.
IncUnbounded(n) == n + 1

\* A uint32 increment.
Inc(n) == IF n + 1 = CounterSize THEN 0 ELSE n + 1

NewCircuitBreaker ==
  [state |-> "Closed", requests |-> 0, consSucc |-> 0, consFail |-> 0,
   expiry |-> NoExpiry]

\* Mutant of Period: opening forgets to set the expiry.
PeriodNoTimeout(s) == IF s = "Closed" THEN Interval ELSE NoExpiry

Period(s) == CASE s = "Closed"   -> Interval
               [] s = "Open"     -> Timeout
               [] s = "HalfOpen" -> NoExpiry

\* A period of state s that has just begun: resetCounts, and the expiry.
Fresh(s) ==
  [state |-> s, requests |-> 0, consSucc |-> 0, consFail |-> 0,
   expiry |-> Period(s)]

SetState(b, s) == IF b.state = s THEN b ELSE Fresh(s)

\* Reset: closed with a running interval, whatever the state was.
ManuallyReset == Fresh("Closed")

Expired(b) == b.expiry = 0

\* Mutant of CurrentState: an open circuit is tried again without waiting.
CurrentStateNoWait(b) ==
  IF b.state = "Open" THEN SetState(b, "HalfOpen") ELSE b

\* currentState: the transitions that are due to time alone.
CurrentState(b) ==
  CASE b.state = "Closed" /\ Expired(b) -> Fresh("Closed")
    [] b.state = "Open" /\ Expired(b)   -> SetState(b, "HalfOpen")
    [] OTHER                            -> b

\* Mutant of Admits: one probe too many.
AdmitsOneMore(b) ==
  \/ b.state = "Closed"
  \/ b.state = "HalfOpen" /\ b.requests <= MaxRequests

\* The switch of beforeRequest.
Admits(b) ==
  \/ b.state = "Closed"
  \/ b.state = "HalfOpen" /\ b.requests < MaxRequests

\* Mutant of CountRequest: the increment is missing.
CountRequestMissing(b) == b

CountRequest(b) == [b EXCEPT !.requests = Inc(@)]

\* Mutant of OnSuccess: > for >=.
OnSuccessOneMore(b) ==
  LET counted == [b EXCEPT !.consSucc = Inc(@), !.consFail = 0] IN
  IF b.state = "HalfOpen" /\ counted.consSucc > SuccessThreshold
  THEN SetState(counted, "Closed")
  ELSE counted

OnSuccess(b) ==
  LET counted == [b EXCEPT !.consSucc = Inc(@), !.consFail = 0] IN
  IF b.state = "HalfOpen" /\ counted.consSucc >= SuccessThreshold
  THEN SetState(counted, "Closed")
  ELSE counted

\* Mutant of OnFailure: > for >=.
OnFailureOneMore(b) ==
  LET counted == [b EXCEPT !.consFail = Inc(@), !.consSucc = 0] IN
  IF \/ b.state = "HalfOpen"
     \/ b.state = "Closed" /\ counted.consFail > FailureThreshold
  THEN SetState(counted, "Open")
  ELSE counted

OnFailure(b) ==
  LET counted == [b EXCEPT !.consFail = Inc(@), !.consSucc = 0] IN
  IF \/ b.state = "HalfOpen"
     \/ b.state = "Closed" /\ counted.consFail >= FailureThreshold
  THEN SetState(counted, "Open")
  ELSE counted

\* Mutant of Record: the stored state, without the time that has passed.
RecordUntimed(b, ok) == IF ok THEN OnSuccess(b) ELSE OnFailure(b)

\* afterRequest: time first, then the result.
Record(b, ok) ==
  IF ok THEN OnSuccess(CurrentState(b)) ELSE OnFailure(CurrentState(b))

\* One tick of the clock.
Elapse(b) == [b EXCEPT !.expiry = IF @ > 0 THEN @ - 1 ELSE @]
-----------------------------------------------------------------------------
\* What every operation leaves of the timer: running or past while open, and
\* never set while half-open (setState).
TimerShape(b) ==
  /\ b.state = "Open" => b.expiry \in Nat
  /\ b.state = "HalfOpen" => b.expiry = NoExpiry

\* The counters are below what makes the breaker act.
BelowThresholds(b) ==
  /\ b.state = "Closed" => b.consFail < FailureThreshold
  /\ b.state = "HalfOpen" => b.consFail = 0 /\ b.consSucc < SuccessThreshold
=============================================================================

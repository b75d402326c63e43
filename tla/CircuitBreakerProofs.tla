------------------------ MODULE CircuitBreakerProofs ------------------------
(***************************************************************************)
(* For every set of callers and every configuration: the safety invariants *)
(* of CircuitBreaker, by the inductive invariant IInv.                     *)
(***************************************************************************)
EXTENDS CircuitBreaker, FiniteSetTheorems, TLAPS
-----------------------------------------------------------------------------
(* What the operators of BreakerCore return, for every configuration.      *)

Sound(b) == b \in Breaker /\ TimerShape(b) /\ BelowThresholds(b)

\* A counter increment stays in uint32, and is exact below its last value.
LEMMA IncLemma ==
  ASSUME NEW n \in Counter
  PROVE  /\ Inc(n) \in Counter
         /\ n < CounterSize - 1 => Inc(n) = n + 1
  BY ConfigAssumption DEF Inc, Counter

\* A new breaker, and one that was reset by hand, is sound (NewCircuitBreaker,
\* Reset).
LEMMA NewLemma == Sound(NewCircuitBreaker) /\ Sound(ManuallyReset)
  BY ConfigAssumption
  DEF NewCircuitBreaker, ManuallyReset, Fresh, Period, Sound, Breaker,
      TimerShape, BelowThresholds, States, Counter, NoExpiry

\* A period that has just begun is sound and has its timer and no counts
\* (setState, resetCounts).
LEMMA FreshLemma ==
  ASSUME NEW s \in States
  PROVE  /\ Sound(Fresh(s))
         /\ Fresh(s).state = s
         /\ Fresh(s).requests = 0
         /\ Fresh(s).consSucc = 0
         /\ Fresh(s).consFail = 0
         /\ s = "Closed" => Fresh(s).expiry = Interval
         /\ s = "Open" => Fresh(s).expiry = Timeout
         /\ s = "HalfOpen" => Fresh(s).expiry = NoExpiry
         /\ ~Expired(Fresh(s))
  BY ConfigAssumption
  DEF Fresh, Period, Sound, Breaker, TimerShape, BelowThresholds, States,
      Counter, NoExpiry, Expired

\* The transitions due to time: what comes out is sound and not expired, and
\* is the breaker itself unless it had expired (currentState).
LEMMA CurrentStateLemma ==
  ASSUME NEW b, Sound(b)
  PROVE  LET n == CurrentState(b) IN
         /\ Sound(n)
         /\ ~(n.state # "HalfOpen" /\ Expired(n))
         /\ ~Expired(b) => n = b
         /\ Expired(b) => n.requests = 0 /\ n.consSucc = 0 /\ n.consFail = 0
         /\ n.state = IF b.state = "Open" /\ Expired(b)
                      THEN "HalfOpen" ELSE b.state
  <1> DEFINE n == CurrentState(b)
  <1>1. CASE b.state = "Closed" /\ Expired(b)
    <2>1. n = Fresh("Closed")
      BY <1>1 DEF CurrentState
    <2> QED
      BY <1>1, <2>1, FreshLemma DEF States
  <1>2. CASE b.state = "Open" /\ Expired(b)
    <2>1. n = Fresh("HalfOpen")
      BY <1>2 DEF CurrentState, SetState
    <2> QED
      BY <1>2, <2>1, FreshLemma DEF States
  <1>3. CASE ~(b.state = "Closed" /\ Expired(b)) /\ ~(b.state = "Open" /\ Expired(b))
    <2>1. n = b
      BY <1>3 DEF CurrentState
    <2>2. b.state \in States
      BY DEF Sound, Breaker
    <2>3. b.state = "HalfOpen" => ~Expired(b)
      BY DEF Sound, TimerShape, Expired, NoExpiry
    <2> QED
      BY <1>3, <2>1, <2>2, <2>3 DEF States, Expired
  <1> QED
    BY <1>1, <1>2, <1>3

\* Counting a request changes nothing else.
LEMMA CountRequestLemma ==
  ASSUME NEW b, Sound(b)
  PROVE  /\ Sound(CountRequest(b))
         /\ CountRequest(b).state = b.state
         /\ CountRequest(b).expiry = b.expiry
         /\ CountRequest(b).requests = Inc(b.requests)
  <1>1. Inc(b.requests) \in Counter
    BY IncLemma DEF Sound, Breaker
  <1> QED
    BY <1>1 DEF CountRequest, Sound, Breaker, TimerShape, BelowThresholds

\* Time alone keeps the breaker sound (the clock).
LEMMA ElapseLemma ==
  ASSUME NEW b, Sound(b)
  PROVE  /\ Sound(Elapse(b))
         /\ Elapse(b).state = b.state
         /\ Elapse(b).requests = b.requests
         /\ Elapse(b).consSucc = b.consSucc
         /\ Elapse(b).consFail = b.consFail
         /\ Elapse(b).expiry = IF b.expiry > 0 THEN b.expiry - 1 ELSE b.expiry
  BY DEF Elapse, Sound, Breaker, TimerShape, BelowThresholds, NoExpiry

\* A success keeps the breaker sound: it stays as it is, or half-open closes
\* (onSuccess).
LEMMA OnSuccessLemma ==
  ASSUME NEW b, Sound(b)
  PROVE  LET n == OnSuccess(b) IN
         /\ Sound(n)
         /\ \/ n.state = b.state /\ n.expiry = b.expiry /\ n.requests = b.requests
            \/ b.state = "HalfOpen" /\ n.state = "Closed" /\ n.expiry = Interval
         /\ n.consSucc <= Inc(b.consSucc) /\ n.consFail = 0
  <1> DEFINE counted == [b EXCEPT !.consSucc = Inc(@), !.consFail = 0]
             n == OnSuccess(b)
  <1>1. Inc(b.consSucc) \in Counter
    BY IncLemma DEF Sound, Breaker
  <1>2. /\ counted \in Breaker /\ counted.state = b.state
        /\ counted.expiry = b.expiry /\ counted.requests = b.requests
        /\ counted.consSucc = Inc(b.consSucc) /\ counted.consFail = 0
    <2>1. 0 \in Counter
      BY ConfigAssumption DEF Counter
    <2> QED
      BY <1>1, <2>1 DEF Sound, Breaker
  <1>3. CASE b.state = "HalfOpen" /\ counted.consSucc >= SuccessThreshold
    <2>1. n = Fresh("Closed")
      BY <1>2, <1>3 DEF OnSuccess, SetState
    <2> QED
      BY <1>1, <1>3, <2>1, FreshLemma DEF States, Counter
  <1>4. CASE ~(b.state = "HalfOpen" /\ counted.consSucc >= SuccessThreshold)
    <2>1. n = counted
      BY <1>4 DEF OnSuccess
    <2> HIDE DEF counted
    <2> QED
      BY <1>1, <1>2, <1>4, <2>1, ConfigAssumption
      DEF Sound, TimerShape, BelowThresholds, Counter
  <1> QED
    BY <1>3, <1>4

\* A failure keeps the breaker sound: it stays as it is, or closed at its
\* threshold or half-open opens (onFailure).
LEMMA OnFailureLemma ==
  ASSUME NEW b, Sound(b)
  PROVE  LET n == OnFailure(b) IN
         /\ Sound(n)
         /\ \/ /\ b.state # "HalfOpen" /\ n.state = b.state
               /\ n.expiry = b.expiry /\ n.requests = b.requests
            \/ /\ b.state \in {"Closed", "HalfOpen"}
               /\ n.state = "Open" /\ n.expiry = Timeout
         /\ n.consSucc = 0 /\ n.consFail <= Inc(b.consFail)
         /\ b.state = "Closed" /\ n.state = "Open" =>
              Inc(b.consFail) >= FailureThreshold
  <1> DEFINE counted == [b EXCEPT !.consFail = Inc(@), !.consSucc = 0]
             n == OnFailure(b)
             trips == \/ b.state = "HalfOpen"
                      \/ b.state = "Closed" /\ counted.consFail >= FailureThreshold
  <1>1. Inc(b.consFail) \in Counter
    BY IncLemma DEF Sound, Breaker
  <1>2. /\ counted \in Breaker /\ counted.state = b.state
        /\ counted.expiry = b.expiry /\ counted.requests = b.requests
        /\ counted.consFail = Inc(b.consFail) /\ counted.consSucc = 0
    <2>1. 0 \in Counter
      BY ConfigAssumption DEF Counter
    <2> QED
      BY <1>1, <2>1 DEF Sound, Breaker
  <1>3. CASE trips
    <2>1. n = Fresh("Open")
      BY <1>2, <1>3 DEF OnFailure, SetState
    <2> QED
      BY <1>1, <1>2, <1>3, <2>1, FreshLemma DEF States, Counter
  <1>4. CASE ~trips
    <2>1. n = counted
      BY <1>4 DEF OnFailure
    <2>2. b.state \in States
      BY DEF Sound, Breaker
    <2>3. /\ n \in Breaker /\ n.state = b.state /\ n.expiry = b.expiry
          /\ n.requests = b.requests
          /\ n.consFail = Inc(b.consFail) /\ n.consSucc = 0
          /\ b.state # "HalfOpen"
          /\ b.state = "Closed" => n.consFail < FailureThreshold
      BY <1>1, <1>2, <1>4, <2>1, ConfigAssumption DEF Counter
    <2> HIDE DEF counted
    <2> QED
      BY <1>1, <2>2, <2>3
      DEF Sound, TimerShape, BelowThresholds, Counter, States
  <1> QED
    BY <1>3, <1>4
-----------------------------------------------------------------------------
(* The callers.                                                            *)

\* The parts of IInv that speak of the breaker alone say that it is sound.
LEMMA IInvSound == IInv => Sound(cb)
  BY DEF IInv, TypeOK, ThresholdsPending, ProbesFollow, Sound

\* A set of callers is finite, and one more caller adds one.
LEMMA ProbeCardinality ==
  ASSUME NEW P \in SUBSET Callers, NEW c \in Callers
  PROVE  /\ Cardinality(P) \in Nat
         /\ c \notin P => Cardinality(P \cup {c}) = Cardinality(P) + 1
         /\ Cardinality(P \ {c}) \in Nat
         /\ Cardinality(P \ {c}) <= Cardinality(P)
  <1>1. IsFiniteSet(P)
    BY CallersAssumption, FS_Subset
  <1>2. c \notin P => Cardinality(P \cup {c}) = Cardinality(P) + 1
    BY <1>1, FS_AddElement
  <1>3. Cardinality(P) \in Nat
    BY <1>1, FS_CardinalityType
  <1>4. Cardinality(P \ {c}) \in Nat /\ Cardinality(P \ {c}) <= Cardinality(P)
    <2>0. IsFiniteSet(P \ {c}) /\ Cardinality(P \ {c}) \in Nat
      BY <1>1, FS_RemoveElement, FS_CardinalityType
    <2>1. Cardinality(P \ {c}) = IF c \in P THEN Cardinality(P) - 1 ELSE Cardinality(P)
      BY <1>1, FS_RemoveElement
    <2> QED
      BY <1>3, <2>0, <2>1
  <1> QED
    BY <1>2, <1>3, <1>4

\* No reader is about to write: nothing to show of readers.
LEMMA NoReaders ==
  ASSUME TypeOK, WriteLock, NEW c \in Callers, NEW place \in {"idle", "admitted", "running"},
         pc' = [pc EXCEPT ![c] = place]
  PROVE  RacyReadsLoseNothing'
  <1>1. Readers' = {}
    BY DEF TypeOK, WriteLock, Readers
  <1> QED
    BY <1>1 DEF RacyReadsLoseNothing

\* A new breaker is closed, has counted nothing, and nobody is inside.
LEMMA InitIInv == Init => IInv
  <1> SUFFICES ASSUME Init PROVE IInv
    OBVIOUS
  <1>1. Sound(cb)
    BY NewLemma DEF Init
  <1>2. Readers = {}
    BY DEF Init, Readers
  <1>3. TypeOK
    BY <1>1 DEF Init, TypeOK, Sound, Places
  <1>4. RacyReadsLoseNothing
    BY <1>2 DEF RacyReadsLoseNothing
  <1>5. ProbeBudget
    BY DEF Init, ProbeBudget, NewCircuitBreaker
  <1> QED
    BY <1>1, <1>3, <1>4, <1>5
    DEF Init, IInv, ThresholdsPending, ProbesFollow, Sound

\* A call is let in: half-open, there was room for one more probe.
LEMMA AdmitIInv ==
  ASSUME IInv, NEW c \in Callers, Admit(c)
  PROVE  IInv'
  <1> DEFINE b == CurrentState(cb)
  <1>1. Sound(cb)
    BY IInvSound
  <1>2. Sound(b)
    BY <1>1, CurrentStateLemma
  <1>3. cb' = CountRequest(b) /\ pc' = [pc EXCEPT ![c] = "admitted"] /\ pc[c] = "idle"
    BY DEF Admit, Goto
  <1>4. /\ Sound(cb') /\ cb'.state = b.state
        /\ cb'.requests = Inc(b.requests)
    BY <1>2, <1>3, CountRequestLemma
  <1>5. probe' = IF b.state = "HalfOpen" THEN probe \cup {c} ELSE {}
    BY DEF Admit, ProbesUnder
  <1>6. c \notin probe
    BY <1>3 DEF IInv, ProbesFollow, InFlight
  <1>7. TypeOK'
    BY <1>3, <1>4, <1>5 DEF IInv, TypeOK, Sound, Places
  <1>8. ProbeBudget'
    <2> SUFFICES ASSUME b.state = "HalfOpen"
                 PROVE  /\ Cardinality(probe \cup {c}) <= Inc(b.requests)
                        /\ Inc(b.requests) <= MaxRequests
      BY <1>4, <1>5 DEF ProbeBudget
    <2>1. b.requests < MaxRequests /\ b.requests \in Counter
      BY <1>2 DEF Admit, Admits, Sound, Breaker
    <2>2. Inc(b.requests) = b.requests + 1
      BY <2>1, IncLemma, ConfigAssumption DEF Counter
    <2>3. Cardinality(probe \cup {c}) = Cardinality(probe) + 1 /\ Cardinality(probe) \in Nat
      BY <1>6, ProbeCardinality DEF IInv, TypeOK
    <2>4. Cardinality(probe) <= b.requests
      <3>1. CASE cb.state = "HalfOpen"
        <4>1. b = cb
          BY <1>1, <3>1, CurrentStateLemma DEF Sound, TimerShape, Expired, NoExpiry
        <4> QED
          BY <3>1, <4>1 DEF IInv, ProbeBudget
      <3>2. CASE cb.state # "HalfOpen"
        <4>1. probe = {}
          BY <3>2 DEF IInv, ProbesFollow
        <4> QED
          BY <2>1, <4>1, FS_EmptySet DEF Counter
      <3> QED
        BY <3>1, <3>2
    <2> QED
      BY <2>1, <2>2, <2>3, <2>4, ConfigAssumption DEF Counter
  <1>9. RacyReadsLoseNothing'
    BY <1>3, NoReaders DEF Admit, IInv
  <1>10. ProbesFollow'
    <2>1. probe' \subseteq InFlight'
      BY <1>3, <1>5 DEF IInv, TypeOK, ProbesFollow, InFlight
    <2> QED
      BY <1>4, <1>5, <2>1 DEF ProbesFollow, Sound
  <1> QED
    BY <1>4, <1>7, <1>8, <1>9, <1>10 DEF IInv, ThresholdsPending, Sound

\* A call is refused: time alone may have moved the breaker on.
LEMMA RejectIInv ==
  ASSUME IInv, NEW c \in Callers, Reject(c)
  PROVE  IInv'
  <1>1. Sound(cb)
    BY IInvSound
  <1>2. cb' = CurrentState(cb) /\ pc' = pc
    BY DEF Reject
  <1>3. Sound(cb')
    BY <1>1, <1>2, CurrentStateLemma
  <1>4. probe' = IF cb'.state = "HalfOpen" THEN probe ELSE {}
    BY <1>2 DEF Reject, ProbesUnder
  <1>5. TypeOK'
    BY <1>2, <1>3, <1>4 DEF IInv, TypeOK, Sound
  <1>6. ProbeBudget'
    <2>1. CASE Expired(cb)
      <3>1. cb'.requests = 0 /\ cb.state # "HalfOpen"
        BY <1>1, <1>2, <2>1, CurrentStateLemma
        DEF Sound, TimerShape, Expired, NoExpiry
      <3>2. probe = {}
        BY <3>1 DEF IInv, ProbesFollow
      <3> QED
        BY <1>4, <3>1, <3>2, FS_EmptySet, ConfigAssumption DEF ProbeBudget
    <2>2. CASE ~Expired(cb)
      <3>1. cb' = cb
        BY <1>1, <1>2, <2>2, CurrentStateLemma
      <3> QED
        BY <1>4, <3>1 DEF IInv, ProbeBudget
    <2> QED
      BY <2>1, <2>2
  <1>7. RacyReadsLoseNothing'
    <2>1. Readers' = {}
      BY <1>2 DEF Reject, WriteLock, Readers
    <2> QED
      BY <2>1 DEF RacyReadsLoseNothing
  <1>8. ProbesFollow'
    BY <1>2, <1>3, <1>4 DEF IInv, ProbesFollow, InFlight, Sound
  <1> QED
    BY <1>3, <1>5, <1>6, <1>7, <1>8 DEF IInv, ThresholdsPending, Sound

\* A call whose ctx is done leaves; its slot stays counted.
LEMMA CtxDoneIInv ==
  ASSUME IInv, NEW c \in Callers, CtxDone(c)
  PROVE  IInv'
  <1>1. /\ cb' = cb /\ pc' = [pc EXCEPT ![c] = "idle"]
        /\ pc[c] = "admitted" /\ probe' = probe \ {c}
    BY DEF CtxDone, Goto
  <1>2. TypeOK'
    BY <1>1 DEF IInv, TypeOK, Places
  <1>3. ProbeBudget'
    <2>1. /\ Cardinality(probe) \in Nat /\ Cardinality(probe \ {c}) \in Nat
          /\ Cardinality(probe \ {c}) <= Cardinality(probe)
      BY ProbeCardinality DEF IInv, TypeOK
    <2>2. cb.requests \in Int
      BY DEF IInv, TypeOK, Breaker, Counter
    <2> QED
      BY <1>1, <2>1, <2>2 DEF IInv, ProbeBudget
  <1>4. RacyReadsLoseNothing'
    BY <1>1 DEF IInv, TypeOK, RacyReadsLoseNothing, Readers, Expired
  <1>5. ProbesFollow'
    BY <1>1 DEF IInv, TypeOK, ProbesFollow, InFlight
  <1> QED
    BY <1>1, <1>2, <1>3, <1>4, <1>5 DEF IInv, ThresholdsPending

\* A call that was let in runs.
LEMMA CallFnIInv ==
  ASSUME IInv, NEW c \in Callers, CallFn(c)
  PROVE  IInv'
  <1>1. /\ cb' = cb /\ pc' = [pc EXCEPT ![c] = "running"]
        /\ pc[c] = "admitted" /\ probe' = probe
    BY DEF CallFn, Goto
  <1>2. TypeOK'
    BY <1>1 DEF IInv, TypeOK, Places
  <1>3. ProbeBudget'
    BY <1>1 DEF IInv, ProbeBudget
  <1>4. RacyReadsLoseNothing'
    BY <1>1 DEF IInv, TypeOK, RacyReadsLoseNothing, Readers, Expired
  <1>5. ProbesFollow'
    BY <1>1 DEF IInv, TypeOK, ProbesFollow, InFlight
  <1> QED
    BY <1>1, <1>2, <1>3, <1>4, <1>5 DEF IInv, ThresholdsPending

\* What recording a result can do to a sound breaker.
LEMMA RecordLemma ==
  ASSUME NEW b, Sound(b), NEW ok \in BOOLEAN
  PROVE  LET n == Record(b, ok) IN
         /\ Sound(n)
         /\ n.state = "HalfOpen" =>
              \/ b.state = "HalfOpen" /\ n.requests = b.requests
              \/ b.state = "Open" /\ n.requests = 0
  <1> DEFINE m == CurrentState(b)
  <1>1. /\ Sound(m)
        /\ m.state = "HalfOpen" =>
             \/ b.state = "HalfOpen" /\ m = b
             \/ b.state = "Open" /\ m.requests = 0
    BY CurrentStateLemma DEF Sound, TimerShape, Expired, NoExpiry
  <1>2. CASE ok
    <2>1. Record(b, ok) = OnSuccess(m)
      BY <1>2 DEF Record
    <2> HIDE DEF m
    <2> QED
      BY <1>1, <2>1, OnSuccessLemma
  <1>3. CASE ~ok
    <2>1. Record(b, ok) = OnFailure(m)
      BY <1>3 DEF Record
    <2> HIDE DEF m
    <2> QED
      BY <1>1, <2>1, OnFailureLemma
  <1> QED
    BY <1>2, <1>3

\* A result is recorded, in whatever period the breaker is in by then.
LEMMA AfterRequestIInv ==
  ASSUME IInv, NEW c \in Callers, NEW ok \in BOOLEAN, AfterRequest(c, ok)
  PROVE  IInv'
  <1>1. Sound(cb)
    BY IInvSound
  <1>2. /\ cb' = Record(cb, ok) /\ pc' = [pc EXCEPT ![c] = "idle"]
        /\ pc[c] = "running"
        /\ probe' = IF cb'.state = "HalfOpen" THEN probe \ {c} ELSE {}
    BY DEF AfterRequest, Goto, ProbesUnder
  <1>3. /\ Sound(cb')
        /\ cb'.state = "HalfOpen" =>
             \/ cb.state = "HalfOpen" /\ cb'.requests = cb.requests
             \/ cb.state = "Open" /\ cb'.requests = 0
    BY <1>1, <1>2, RecordLemma
  <1>4. TypeOK'
    BY <1>2, <1>3 DEF IInv, TypeOK, Places, Sound
  <1>5. ProbeBudget'
    <2> SUFFICES ASSUME cb'.state = "HalfOpen"
                 PROVE  /\ Cardinality(probe \ {c}) <= cb'.requests
                        /\ cb'.requests <= MaxRequests
      BY <1>2 DEF ProbeBudget
    <2>1. CASE cb.state = "HalfOpen" /\ cb'.requests = cb.requests
      BY <2>1, ProbeCardinality DEF IInv, TypeOK, ProbeBudget, Breaker, Counter
    <2>2. CASE cb.state = "Open" /\ cb'.requests = 0
      <3>1. probe \ {c} = {}
        BY <2>2 DEF IInv, ProbesFollow
      <3> QED
        BY <2>2, <3>1, FS_EmptySet, ConfigAssumption
    <2> QED
      BY <1>3, <2>1, <2>2
  <1>6. RacyReadsLoseNothing'
    BY <1>2, NoReaders DEF AfterRequest, IInv
  <1>7. ProbesFollow'
    <2>1. probe' \subseteq InFlight'
      BY <1>2 DEF IInv, TypeOK, ProbesFollow, InFlight
    <2> QED
      BY <1>2, <1>3, <2>1 DEF ProbesFollow, Sound
  <1> QED
    BY <1>3, <1>4, <1>5, <1>6, <1>7 DEF IInv, ThresholdsPending, Sound

\* A reader finds that the period is over.
LEMMA ReadDueIInv ==
  ASSUME IInv, NEW c \in Callers, ReadDue(c)
  PROVE  IInv'
  <1>1. PICK place \in {"readClosed", "readOpen"} :
          /\ pc' = [pc EXCEPT ![c] = place]
          /\ place = "readClosed" => cb.state = "Closed"
          /\ place = "readOpen" => cb.state = "Open"
    BY DEF ReadDue, Goto
  <1>2. cb' = cb /\ probe' = probe /\ pc[c] = "idle" /\ Expired(cb)
    BY DEF ReadDue
  <1>3. TypeOK'
    BY <1>1, <1>2 DEF IInv, TypeOK, Places
  <1>4. ProbeBudget'
    BY <1>2 DEF IInv, ProbeBudget
  <1>5. RacyReadsLoseNothing'
    <2> SUFFICES ASSUME NEW d \in Callers
                 PROVE  /\ pc'[d] = "readClosed" =>
                             cb.state = "Closed" /\ cb.expiry # NoExpiry
                        /\ pc'[d] = "readOpen" => cb.state = "Open"
      BY <1>2 DEF RacyReadsLoseNothing, Readers, Expired
    <2>1. CASE d = c
      BY <1>1, <1>2, <2>1 DEF IInv, TypeOK, Expired, NoExpiry
    <2>2. CASE d # c
      <3>1. pc'[d] = pc[d]
        BY <1>1, <2>2 DEF IInv, TypeOK
      <3>2. cb # Fresh("HalfOpen")
        BY <1>2, FreshLemma DEF States
      <3> QED
        BY <3>1, <3>2 DEF IInv, RacyReadsLoseNothing, Readers
    <2> QED
      BY <2>1, <2>2
  <1>6. ProbesFollow'
    BY <1>1, <1>2 DEF IInv, TypeOK, ProbesFollow, InFlight
  <1> QED
    BY <1>2, <1>3, <1>4, <1>5, <1>6 DEF IInv, ThresholdsPending

\* A reader writes what it decided: nobody else has counted anything since.
LEMMA ReadWriteIInv ==
  ASSUME IInv, NEW c \in Callers, ReadWrite(c)
  PROVE  IInv'
  <1>1. /\ pc' = [pc EXCEPT ![c] = "idle"] /\ pc[c] \in {"readClosed", "readOpen"}
        /\ probe' = IF cb'.state = "HalfOpen" THEN probe ELSE {}
    BY DEF ReadWrite, Goto, ProbesUnder, Readers
  <1>2. \/ pc[c] = "readClosed" /\ cb' = Fresh("Closed") /\ cb.state = "Closed"
        \/ /\ pc[c] = "readOpen" /\ cb' = Fresh("HalfOpen")
           /\ cb.state = "Open" \/ cb = Fresh("HalfOpen")
    <2>1. CASE pc[c] = "readClosed"
      <3>1. cb.state = "Closed"
        BY <2>1 DEF IInv, RacyReadsLoseNothing, Readers
      <3>2. cb' = [Fresh("Closed") EXCEPT !.state = "Closed"]
        BY <2>1, <3>1 DEF ReadWrite
      <3> QED
        BY <2>1, <3>1, <3>2 DEF Fresh
    <2>2. CASE pc[c] = "readOpen"
      <3>1. cb.state = "Open" \/ cb = Fresh("HalfOpen")
        BY <2>2 DEF IInv, RacyReadsLoseNothing, Readers
      <3>2. cb' = SetState(cb, "HalfOpen")
        BY <2>2 DEF ReadWrite
      <3> QED
        BY <2>2, <3>1, <3>2 DEF SetState, Fresh
    <2> QED
      BY <1>1, <2>1, <2>2
  <1>3. /\ Sound(cb') /\ cb'.state \in {"Closed", "HalfOpen"} /\ cb'.requests = 0
        /\ cb'.consSucc = 0 /\ cb'.consFail = 0
    BY <1>2, FreshLemma DEF States
  <1>4. probe = {}
    <2>1. CASE cb.state # "HalfOpen"
      BY <2>1 DEF IInv, ProbesFollow
    <2>2. CASE cb = Fresh("HalfOpen")
      <3>1. Cardinality(probe) <= 0
        BY <2>2, FreshLemma DEF IInv, ProbeBudget, States
      <3>2. IsFiniteSet(probe) /\ Cardinality(probe) \in Nat
        BY CallersAssumption, FS_Subset, FS_CardinalityType DEF IInv, TypeOK
      <3> QED
        BY <3>1, <3>2, FS_EmptySet
    <2> QED
      BY <1>2, <2>1, <2>2
  <1>5. TypeOK'
    BY <1>1, <1>3, <1>4 DEF IInv, TypeOK, Places, Sound
  <1>6. ProbeBudget'
    BY <1>1, <1>3, <1>4, FS_EmptySet, ConfigAssumption DEF ProbeBudget
  <1>7. RacyReadsLoseNothing'
    <2> SUFFICES ASSUME NEW d \in Callers, pc'[d] \in {"readClosed", "readOpen"}
                 PROVE  /\ pc'[d] = "readClosed" => cb' = Fresh("Closed")
                        /\ pc'[d] = "readOpen" => cb' = Fresh("HalfOpen")
      BY FreshLemma, ConfigAssumption
      DEF RacyReadsLoseNothing, Readers, States, NoExpiry
    <2>1. pc'[d] = pc[d]
      BY <1>1 DEF IInv, TypeOK
    <2>2. \/ pc[d] = "readClosed" /\ cb.state = "Closed"
          \/ pc[d] = "readOpen" /\ (cb.state = "Open" \/ cb = Fresh("HalfOpen"))
      BY <2>1 DEF IInv, RacyReadsLoseNothing, Readers
    <2> QED
      BY <1>2, <2>1, <2>2, FreshLemma DEF States
  <1>8. ProbesFollow'
    BY <1>1, <1>3, <1>4 DEF ProbesFollow, Sound
  <1> QED
    BY <1>3, <1>5, <1>6, <1>7, <1>8 DEF IInv, ThresholdsPending, Sound

\* An operator resets the breaker; no reader is about to write.
LEMMA ResetIInv ==
  ASSUME IInv, Reset
  PROVE  IInv'
  <1>1. cb' = ManuallyReset /\ probe' = {} /\ pc' = pc /\ Readers = {}
    BY DEF Reset, WriteLock
  <1>2. Sound(cb') /\ cb'.state = "Closed"
    BY <1>1, NewLemma DEF ManuallyReset, Fresh
  <1>3. Readers' = {}
    BY <1>1 DEF Readers
  <1>4. TypeOK' /\ ProbeBudget' /\ RacyReadsLoseNothing' /\ ProbesFollow'
    BY <1>1, <1>2, <1>3
    DEF IInv, TypeOK, ProbeBudget, RacyReadsLoseNothing, ProbesFollow, Sound
  <1> QED
    BY <1>2, <1>4 DEF IInv, ThresholdsPending, Sound

\* Time passes.
LEMMA TickIInv ==
  ASSUME IInv, Tick
  PROVE  IInv'
  <1>1. cb' = Elapse(cb) /\ probe' = probe /\ pc' = pc
    BY DEF Tick
  <1>2. Sound(cb)
    BY IInvSound
  <1>3. /\ Sound(cb') /\ cb'.state = cb.state /\ cb'.requests = cb.requests
        /\ cb'.consSucc = cb.consSucc /\ cb'.consFail = cb.consFail
        /\ cb'.expiry = IF cb.expiry > 0 THEN cb.expiry - 1 ELSE cb.expiry
    BY <1>1, <1>2, ElapseLemma
  <1>4. TypeOK' /\ ProbeBudget' /\ ProbesFollow'
    BY <1>1, <1>3
    DEF IInv, TypeOK, ProbeBudget, ProbesFollow, InFlight, Sound
  <1>5. RacyReadsLoseNothing'
    <2> SUFFICES ASSUME NEW d \in Readers
                 PROVE  /\ pc[d] = "readClosed" =>
                             /\ cb'.state = "Closed" /\ cb'.expiry # NoExpiry
                             /\ \/ Expired(cb)'
                                \/ cb'.requests + cb'.consSucc + cb'.consFail = 0
                        /\ pc[d] = "readOpen" =>
                             \/ cb'.state = "Open" /\ Expired(cb)'
                             \/ cb' = Fresh("HalfOpen")
      BY <1>1 DEF RacyReadsLoseNothing, Readers
    <2>1. CASE pc[d] = "readClosed"
      <3>1. cb.expiry \in Nat
        BY <1>2, <2>1 DEF IInv, RacyReadsLoseNothing, Sound, Breaker
      <3> QED
        BY <1>3, <2>1, <3>1 DEF IInv, RacyReadsLoseNothing, Expired, NoExpiry
    <2>2. CASE pc[d] = "readOpen"
      <3>1. CASE cb.state = "Open" /\ Expired(cb)
        BY <1>3, <2>2, <3>1 DEF Expired
      <3>2. CASE cb = Fresh("HalfOpen")
        BY <1>1, <2>2, <3>2 DEF Elapse, Fresh, Period, NoExpiry
      <3> QED
        BY <2>2, <3>1, <3>2 DEF IInv, RacyReadsLoseNothing
    <2> QED
      BY <2>1, <2>2 DEF Readers
  <1> QED
    BY <1>3, <1>4, <1>5 DEF IInv, ThresholdsPending, Sound

\* Every step keeps the invariant: one lemma for each kind of step.
LEMMA NextIInv == IInv /\ [Next]_vars => IInv'
  <1> SUFFICES ASSUME IInv, [Next]_vars PROVE IInv'
    OBVIOUS
  <1>1. ASSUME NEW c \in Callers, Admit(c) PROVE IInv'
    BY <1>1, AdmitIInv
  <1>2. ASSUME NEW c \in Callers, Reject(c) PROVE IInv'
    BY <1>2, RejectIInv
  <1>3. ASSUME NEW c \in Callers, CtxDone(c) PROVE IInv'
    BY <1>3, CtxDoneIInv
  <1>4. ASSUME NEW c \in Callers, CallFn(c) PROVE IInv'
    BY <1>4, CallFnIInv
  <1>5. ASSUME NEW c \in Callers, NEW ok \in BOOLEAN, AfterRequest(c, ok) PROVE IInv'
    BY <1>5, AfterRequestIInv
  <1>6. ASSUME NEW c \in Callers, ReadDue(c) PROVE IInv'
    BY <1>6, ReadDueIInv
  <1>7. ASSUME NEW c \in Callers, ReadWrite(c) PROVE IInv'
    BY <1>7, ReadWriteIInv
  <1>8. CASE Reset
    BY <1>8, ResetIInv
  <1>9. CASE Tick
    BY <1>9, TickIInv
  <1>10. CASE UNCHANGED vars
    BY <1>10
    DEF vars, IInv, TypeOK, ThresholdsPending, ProbeBudget, ProbesFollow,
        RacyReadsLoseNothing, Readers, InFlight, Expired
  <1> QED
    BY <1>1, <1>2, <1>3, <1>4, <1>5, <1>6, <1>7, <1>8, <1>9, <1>10 DEF Next

\* Every reachable state of every instance satisfies the inductive invariant
\* (every method of the breaker preserves it).
THEOREM Invariance == Spec => []IInv
  BY InitIInv, NextIInv, PTL DEF Spec

\* The breaker's fields keep their types and widths (uint32 counters).
THEOREM TypeCorrect == Spec => []TypeOK
  <1>1. IInv => TypeOK
    BY DEF IInv
  <1> QED
    BY <1>1, Invariance, PTL

\* At rest, the breaker has acted on its counters, whatever period the results
\* it counted come from (onSuccess, onFailure).
THEOREM ThresholdsHold == Spec => []ThresholdsPending
  <1>1. IInv => ThresholdsPending
    BY DEF IInv
  <1> QED
    BY <1>1, Invariance, PTL

\* Half-open never has more than MaxRequests of its own calls running
\* (beforeRequest).
THEOREM ProbesBounded == Spec => []ProbeBudget
  <1>1. IInv => ProbeBudget
    BY DEF IInv
  <1> QED
    BY <1>1, Invariance, PTL

\* The writes GetState makes under the read lock are harmless (GetState).
THEOREM ReadersHarmless == Spec => []RacyReadsLoseNothing
  <1>1. IInv => RacyReadsLoseNothing
    BY DEF IInv
  <1> QED
    BY <1>1, Invariance, PTL
-----------------------------------------------------------------------------
(***************************************************************************)
(* The breaker implements AbstractBreaker.                                 *)
(***************************************************************************)

\* The abstract state that time alone leads to is the state currentState finds.
LEMMA EffectiveLemma ==
  ASSUME Sound(cb)
  PROVE  Abstract!Effective = CurrentState(cb).state
  BY CurrentStateLemma DEF Abstract!Effective

\* What recording a result does, in the terms of the abstract breaker.
LEMMA RecordSettles ==
  ASSUME NEW b, Sound(b), NEW ok \in BOOLEAN
  PROVE  LET m == CurrentState(b)
             n == Record(b, ok)
         IN /\ n.state \in Abstract!Settles(m.state)
            /\ n.state = "HalfOpen" => n.requests = m.requests
            /\ n.state = "Open" =>
                 \/ m.state = "Open" /\ n.expiry = m.expiry
                 \/ m.state # "Open" /\ ~Expired(n)
  <1> DEFINE m == CurrentState(b)
             n == Record(b, ok)
  <1>1. Sound(m) /\ m.state \in States
    BY CurrentStateLemma DEF Sound, Breaker
  <1>2. CASE ok
    <2>1. n = OnSuccess(m)
      BY <1>2 DEF Record
    <2> QED
      BY <1>1, <2>1, OnSuccessLemma DEF Abstract!Settles, States
  <1>3. CASE ~ok
    <2>1. n = OnFailure(m)
      BY <1>3 DEF Record
    <2> QED
      BY <1>1, <2>1, OnFailureLemma, ConfigAssumption
      DEF Abstract!Settles, States, Expired
  <1> QED
    BY <1>2, <1>3

\* A call that is let in enters the abstract breaker.
LEMMA AdmitEnters ==
  ASSUME IInv, NEW c \in Callers, Admit(c)
  PROVE  Abstract!Enter(c)
  <1> DEFINE b == CurrentState(cb)
  <1>1. Sound(cb) /\ Sound(b) /\ Abstract!Effective = b.state
    BY IInvSound, CurrentStateLemma, EffectiveLemma
  <1>2. /\ cb' = CountRequest(b) /\ pc' = [pc EXCEPT ![c] = "admitted"]
        /\ pc[c] = "idle" /\ Admits(b)
    BY DEF Admit, Goto
  <1>3. cb'.state = b.state /\ cb'.requests = Inc(b.requests)
    BY <1>1, <1>2, CountRequestLemma
  <1> HIDE DEF b
  <1>4. c \notin InFlight /\ InFlight' = InFlight \cup {c}
    BY <1>2 DEF IInv, TypeOK, InFlight
  <1>5. Abstract!Become(Abstract!Effective)
    BY <1>1, <1>2, <1>3 DEF Abstract!Become, Admits
  <1>6. CASE b.state = "Closed"
    BY <1>1, <1>3, <1>4, <1>5, <1>6 DEF Abstract!Enter
  <1>7. CASE b.state = "HalfOpen" /\ b.requests < MaxRequests
    <2>1. Inc(b.requests) = b.requests + 1
      BY <1>1, <1>7, IncLemma, ConfigAssumption DEF Sound, Breaker, Counter
    <2>2. b.requests = IF cb.state = "HalfOpen" THEN cb.requests ELSE 0
      BY <1>1, <1>7, CurrentStateLemma
      DEF b, Sound, TimerShape, Expired, NoExpiry
    <2> QED
      BY <1>1, <1>3, <1>4, <1>5, <1>7, <2>1, <2>2 DEF Abstract!Enter
  <1> QED
    BY <1>2, <1>6, <1>7 DEF Admits

\* A result that is recorded leaves the abstract breaker, which settles.
LEMMA AfterRequestLeaves ==
  ASSUME IInv, NEW c \in Callers, NEW ok \in BOOLEAN, AfterRequest(c, ok)
  PROVE  Abstract!Leave(c)
  <1> DEFINE m == CurrentState(cb)
  <1>1. Sound(cb) /\ Sound(m) /\ Abstract!Effective = m.state
    BY IInvSound, CurrentStateLemma, EffectiveLemma
  <1>2. cb' = Record(cb, ok) /\ pc' = [pc EXCEPT ![c] = "idle"] /\ pc[c] = "running"
    BY DEF AfterRequest, Goto
  <1>3. /\ cb'.state \in Abstract!Settles(m.state)
        /\ cb'.state = "HalfOpen" => cb'.requests = m.requests
        /\ cb'.state = "Open" =>
             \/ m.state = "Open" /\ cb'.expiry = m.expiry
             \/ m.state # "Open" /\ ~Expired(cb')
    BY <1>1, <1>2, RecordSettles
  <1>4. m.state = "Open" => m = cb
    BY <1>1, CurrentStateLemma DEF Expired
  <1>5. /\ cb.state = "HalfOpen" => m = cb
        /\ m.state = "HalfOpen" /\ cb.state # "HalfOpen" => m.requests = 0
    BY <1>1, CurrentStateLemma DEF Sound, TimerShape, Expired, NoExpiry
  <1>6. cb'.state = "HalfOpen" => m.state = "HalfOpen"
    BY <1>1, <1>3 DEF Abstract!Settles, Sound, Breaker, States
  <1> HIDE DEF m
  <1>7. c \in InFlight /\ InFlight' = InFlight \ {c}
    BY <1>2 DEF IInv, TypeOK, InFlight
  <1>8. Abstract!Become(cb'.state)
    <2>1. CASE cb'.state # "Open"
      BY <2>1 DEF Abstract!Become
    <2>2. CASE cb'.state = "Open" /\ m.state = "Open"
      <3>1. Expired(cb)' <=> Expired(cb)
        BY <1>3, <1>4, <2>2 DEF Expired
      <3> QED
        BY <1>1, <1>4, <2>2, <3>1 DEF Abstract!Become
    <2>3. CASE cb'.state = "Open" /\ m.state # "Open"
      BY <1>1, <1>3, <2>3 DEF Abstract!Become, Expired
    <2> QED
      BY <2>1, <2>2, <2>3
  <1>9. (IF cb.state = "HalfOpen" THEN cb.requests ELSE 0)'
          = IF cb'.state = "HalfOpen"
            THEN IF cb.state = "HalfOpen" THEN cb.requests ELSE 0 ELSE 0
    BY <1>3, <1>5, <1>6
  <1> QED
    BY <1>1, <1>3, <1>7, <1>8, <1>9 DEF Abstract!Leave

\* A reader, or a caller that is turned away, at most starts the trial period.
LEMMA ReadOrRejectStarts ==
  ASSUME IInv, NEW c \in Callers, Reject(c) \/ ReadWrite(c)
  PROVE  Abstract!StartTrial
  <1> DEFINE m == CurrentState(cb)
  <1>1. Sound(cb) /\ Sound(m) /\ Abstract!Effective = m.state
    BY IInvSound, CurrentStateLemma, EffectiveLemma
  <1>2. /\ cb'.state = m.state
        /\ cb'.state = "Open" => cb' = cb
        /\ cb'.state = "HalfOpen" =>
             cb'.requests = IF cb.state = "HalfOpen" THEN cb.requests ELSE 0
    <2>1. CASE Reject(c)
      <3>1. cb' = m
        BY <2>1 DEF Reject
      <3> QED
        BY <1>1, <3>1, CurrentStateLemma
        DEF Sound, TimerShape, Expired, NoExpiry
    <2>2. CASE ReadWrite(c) /\ pc[c] = "readClosed"
      <3>1. cb.state = "Closed"
        BY <2>2 DEF ReadWrite, IInv, RacyReadsLoseNothing
      <3>2. cb'.state = "Closed"
        BY <2>2, <3>1 DEF ReadWrite, Fresh
      <3> QED
        BY <1>1, <3>1, <3>2, CurrentStateLemma
    <2>3. CASE ReadWrite(c) /\ pc[c] = "readOpen"
      <3>1. cb' = SetState(cb, "HalfOpen")
        BY <2>3 DEF ReadWrite
      <3>2. CASE cb.state = "Open" /\ Expired(cb)
        BY <1>1, <3>1, <3>2, CurrentStateLemma DEF SetState, Fresh
      <3>3. CASE cb = Fresh("HalfOpen")
        BY <1>1, <3>1, <3>3, CurrentStateLemma DEF SetState, Fresh
      <3> QED
        BY <2>3, <3>2, <3>3 DEF ReadWrite, IInv, RacyReadsLoseNothing
    <2> QED
      BY <2>1, <2>2, <2>3 DEF ReadWrite, Readers
  <1>3. InFlight' = InFlight
    <2>1. CASE Reject(c)
      BY <2>1 DEF Reject, InFlight
    <2>2. CASE ReadWrite(c)
      BY <2>2 DEF ReadWrite, Goto, Readers, InFlight, IInv, TypeOK
    <2> QED
      BY <2>1, <2>2
  <1>4. (IF cb.state = "HalfOpen" THEN cb.requests ELSE 0)'
          = IF cb.state = "HalfOpen" THEN cb.requests ELSE 0
    <2>1. CASE cb'.state = "HalfOpen"
      BY <1>2, <2>1
    <2>2. CASE cb'.state # "HalfOpen"
      BY <1>1, <1>2, <2>2, CurrentStateLemma
    <2> QED
      BY <2>1, <2>2
  <1> HIDE DEF m
  <1>5. Abstract!Become(Abstract!Effective)
    <2>1. CASE m.state = "Open"
      <3>1. cb' = cb
        BY <1>2, <2>1
      <3> QED
        BY <1>1, <1>2, <2>1, <3>1 DEF Abstract!Become, Expired
    <2>2. CASE m.state # "Open"
      BY <1>1, <1>2, <2>2 DEF Abstract!Become
    <2> QED
      BY <2>1, <2>2
  <1> QED
    BY <1>3, <1>4, <1>5 DEF Abstract!StartTrial

\* Time that passes ends the cooling, or nothing the abstract breaker sees.
LEMMA TickCools ==
  ASSUME IInv, Tick
  PROVE  Abstract!CoolDown \/ UNCHANGED Abstract!vars
  <1>1. Sound(cb) /\ cb' = Elapse(cb) /\ pc' = pc
    BY IInvSound DEF Tick
  <1>2. /\ cb'.state = cb.state /\ cb'.requests = cb.requests
        /\ cb'.expiry = IF cb.expiry > 0 THEN cb.expiry - 1 ELSE cb.expiry
    BY <1>1, ElapseLemma
  <1>3. InFlight' = InFlight
    BY <1>1 DEF InFlight
  <1>4. cb.expiry \in Int
    BY <1>1 DEF Sound, Breaker, NoExpiry
  <1>5. Expired(cb) => Expired(cb)'
    BY <1>2 DEF Expired
  <1> QED
    BY <1>2, <1>3, <1>5 DEF Abstract!CoolDown, Abstract!vars

\* One step of the breaker is one abstract step, or none.
LEMMA StepRefines ==
  IInv /\ [Next]_vars => [Abstract!Next]_Abstract!vars
  <1> SUFFICES ASSUME IInv, [Next]_vars PROVE [Abstract!Next]_Abstract!vars
    OBVIOUS
  <1>1. ASSUME NEW c \in Callers, Admit(c) PROVE Abstract!Next
    BY <1>1, AdmitEnters DEF Abstract!Next
  <1>2. ASSUME NEW c \in Callers, Reject(c) \/ ReadWrite(c) PROVE Abstract!Next
    BY <1>2, ReadOrRejectStarts DEF Abstract!Next
  <1>3. ASSUME NEW c \in Callers, CtxDone(c) PROVE Abstract!Next
    <2>1. c \in InFlight /\ InFlight' = InFlight \ {c} /\ cb' = cb
      BY <1>3 DEF CtxDone, Goto, InFlight, IInv, TypeOK
    <2> QED
      BY <2>1 DEF Abstract!Next, Abstract!GiveUp, Expired
  <1>4. ASSUME NEW c \in Callers, CallFn(c) \/ ReadDue(c)
        PROVE  UNCHANGED Abstract!vars
    <2>1. InFlight' = InFlight /\ cb' = cb
      BY <1>4 DEF CallFn, ReadDue, Goto, InFlight, IInv, TypeOK
    <2> QED
      BY <2>1 DEF Abstract!vars, Expired
  <1>5. ASSUME NEW c \in Callers, NEW ok \in BOOLEAN, AfterRequest(c, ok)
        PROVE  Abstract!Next
    BY <1>5, AfterRequestLeaves DEF Abstract!Next
  <1>6. CASE Reset
    <2>1. cb' = Fresh("Closed") /\ InFlight' = InFlight
      BY <1>6 DEF Reset, ManuallyReset, InFlight
    <2> QED
      BY <2>1, FreshLemma DEF Abstract!Next, Abstract!ManualReset, States
  <1>7. CASE Tick
    BY <1>7, TickCools DEF Abstract!Next
  <1>8. CASE UNCHANGED vars
    BY <1>8 DEF vars, Abstract!vars, InFlight, Expired
  <1> QED
    BY <1>1, <1>2, <1>3, <1>4, <1>5, <1>6, <1>7, <1>8 DEF Next

\* The breaker keeps, for every configuration and every set of callers, the
\* promise of the abstract breaker (Execute, GetState and Reset together).
THEOREM Refinement == Spec => ImplementsAbstract
  <1>1. Init => Abstract!Init
    BY DEF Init, Abstract!Init, NewCircuitBreaker, InFlight
  <1> QED
    BY <1>1, Invariance, StepRefines, PTL
    DEF Spec, ImplementsAbstract, Abstract!Spec

\* While an open breaker's timeout runs, only Reset changes its state and no
\* call is let in (beforeRequest, currentState).
THEOREM OpenPeriodHolds == Spec => OpenHolds
  <1>1. ASSUME IInv, [Next]_vars, cb.state = "Open", cb.expiry > 0
        PROVE  /\ cb'.state = "Open" \/ cb' = ManuallyReset
               /\ InFlight' \subseteq InFlight
    <2>1. Sound(cb) /\ ~Expired(cb) /\ CurrentState(cb) = cb
      BY <1>1, IInvSound, CurrentStateLemma DEF Expired
    <2>2. Readers = {}
      BY <1>1, <2>1, FreshLemma
      DEF IInv, RacyReadsLoseNothing, Readers, States
    <2>3. ASSUME NEW c \in Callers, Admit(c) PROVE FALSE
      BY <1>1, <2>1, <2>3 DEF Admit, Admits
    <2>4. ASSUME NEW c \in Callers, Reject(c) PROVE cb' = cb /\ InFlight' = InFlight
      BY <2>1, <2>4 DEF Reject, InFlight
    <2>5. ASSUME NEW c \in Callers, CtxDone(c) \/ CallFn(c)
          PROVE  cb' = cb /\ InFlight' \subseteq InFlight
      BY <1>1, <2>5 DEF CtxDone, CallFn, Goto, InFlight, IInv, TypeOK
    <2>6. ASSUME NEW c \in Callers, NEW ok \in BOOLEAN, AfterRequest(c, ok)
          PROVE  cb'.state = "Open" /\ InFlight' \subseteq InFlight
      <3>1. cb' = Record(cb, ok) /\ pc' = [pc EXCEPT ![c] = "idle"]
        BY <2>6 DEF AfterRequest, Goto
      <3>2. cb'.state \in Abstract!Settles("Open")
        BY <1>1, <2>1, <3>1, RecordSettles
      <3> QED
        BY <1>1, <3>1, <3>2 DEF Abstract!Settles, InFlight, IInv, TypeOK
    <2>7. ASSUME NEW c \in Callers, ReadDue(c) \/ ReadWrite(c) PROVE FALSE
      BY <2>1, <2>2, <2>7 DEF ReadDue, ReadWrite
    <2>8. CASE Reset
      BY <2>8 DEF Reset, InFlight
    <2>9. CASE Tick
      BY <2>1, <2>9, ElapseLemma, <1>1 DEF Tick, InFlight
    <2>10. CASE UNCHANGED vars
      BY <1>1, <2>10 DEF vars, InFlight
    <2> QED
      BY <1>1, <2>3, <2>4, <2>5, <2>6, <2>7, <2>8, <2>9, <2>10 DEF Next
  <1>2. IInv /\ [Next]_vars =>
          [cb.state = "Open" /\ cb.expiry > 0 =>
             /\ cb'.state = "Open" \/ cb' = ManuallyReset
             /\ InFlight' \subseteq InFlight]_vars
    BY <1>1
  <1> QED
    BY <1>2, Invariance, PTL DEF Spec, OpenHolds

\* A closed period that is over has no say in what comes next: whichever step
\* touches the breaker first starts from cleared counters, so that at most the
\* one result it brings is in them (currentState in afterRequest, GetState).
THEOREM ExpiredCountsAreGone == Spec => ExpiredCountsNeverTrip
  <1> DEFINE Gone == /\ cb'.consFail <= 1 /\ cb'.consSucc <= 1
                     /\ cb'.state = "Open" => FailureThreshold = 1
  <1>1. ASSUME IInv, [Next]_vars, cb.state = "Closed", Expired(cb), cb' # cb
        PROVE  Gone
    <2> DEFINE m == CurrentState(cb)
    <2>1. /\ Sound(cb) /\ Sound(m) /\ m.state = "Closed"
          /\ m.consSucc = 0 /\ m.consFail = 0
      BY <1>1, IInvSound, CurrentStateLemma
    <2>2. Inc(0) <= 1 /\ Inc(0) \in Nat
      BY ConfigAssumption DEF Inc
    <2> HIDE DEF m
    <2>3. ASSUME NEW c \in Callers, Admit(c) PROVE Gone
      <3>1. cb' = CountRequest(m)
        BY <2>3 DEF Admit, m
      <3>2. cb'.state = "Closed" /\ cb'.consFail = 0 /\ cb'.consSucc = 0
        BY <2>1, <3>1 DEF CountRequest, Sound, Breaker
      <3> QED
        BY <3>2
    <2>4. ASSUME NEW c \in Callers, Reject(c) PROVE Gone
      BY <2>1, <2>4 DEF Reject, m
    <2>5. ASSUME NEW c \in Callers, NEW ok \in BOOLEAN, AfterRequest(c, ok) PROVE Gone
      <3>1. CASE ok
        <4>1. cb' = OnSuccess(m)
          BY <2>5, <3>1 DEF AfterRequest, Record, m
        <4>2. /\ cb'.state = "Closed" /\ cb'.consFail = 0
              /\ cb'.consSucc <= Inc(0) /\ cb'.consSucc \in Nat
          BY <2>1, <4>1, OnSuccessLemma DEF Sound, Breaker, Counter
        <4> QED
          BY <2>2, <4>2
      <3>2. CASE ~ok
        <4>1. cb' = OnFailure(m)
          BY <2>5, <3>2 DEF AfterRequest, Record, m
        <4>2. /\ cb'.consSucc = 0
              /\ cb'.consFail <= Inc(0) /\ cb'.consFail \in Nat
              /\ cb'.state = "Open" => Inc(0) >= FailureThreshold
          BY <2>1, <4>1, OnFailureLemma DEF Sound, Breaker, Counter
        <4> QED
          BY <2>2, <4>2, ConfigAssumption
      <3> QED
        BY <3>1, <3>2
    <2>6. ASSUME NEW c \in Callers, ReadWrite(c) PROVE Gone
      <3>1. pc[c] = "readClosed"
        BY <1>1, <2>6, FreshLemma
        DEF ReadWrite, Readers, IInv, RacyReadsLoseNothing, States
      <3>2. cb' = [Fresh("Closed") EXCEPT !.state = cb.state]
        BY <2>6, <3>1 DEF ReadWrite
      <3> QED
        BY <1>1, <3>2 DEF Fresh
    <2>7. ASSUME NEW c \in Callers, CtxDone(c) \/ CallFn(c) \/ ReadDue(c) PROVE Gone
      BY <1>1, <2>7 DEF CtxDone, CallFn, ReadDue
    <2>8. CASE Reset
      BY <2>8, FreshLemma DEF Reset, ManuallyReset, States
    <2>9. CASE Tick
      <3>1. cb' = cb
        BY <1>1, <2>1, <2>9 DEF Tick, Elapse, Expired, Sound, Breaker
      <3> QED
        BY <1>1, <3>1
    <2>10. CASE UNCHANGED vars
      BY <1>1, <2>10 DEF vars
    <2> HIDE DEF Gone
    <2> QED
      BY <1>1, <2>3, <2>4, <2>5, <2>6, <2>7, <2>8, <2>9, <2>10 DEF Next
  <1>2. IInv /\ [Next]_vars =>
          [cb.state = "Closed" /\ Expired(cb) /\ cb' # cb => Gone]_vars
    BY <1>1
  <1> QED
    BY <1>2, Invariance, PTL DEF Spec, ExpiredCountsNeverTrip

\* Half-open never shuts everyone out with nobody inside: unless a call lost its
\* slot, a probe is running or the next call is let in.  A configuration must ask
\* for no more successes than it lets calls through, as each of breakers.go does
\* (beforeRequest, onSuccess, Execute when ctx is done).
THEOREM HalfOpenHasAWayOut ==
  ASSUME SuccessThreshold <= MaxRequests
  PROVE  Spec => [](cb.state = "HalfOpen" => Admits(cb) \/ probe # {} \/ SlotLost)
  <1>1. IInv => (cb.state = "HalfOpen" => Admits(cb) \/ probe # {} \/ SlotLost)
    <2> SUFFICES ASSUME IInv, cb.state = "HalfOpen", ~Admits(cb), probe = {}
                 PROVE  SlotLost
      OBVIOUS
    <2>1. cb.requests \in Nat /\ cb.consSucc \in Nat
      BY ConfigAssumption DEF IInv, TypeOK, Breaker, Counter
    <2>2. cb.requests >= MaxRequests
      BY <2>1, ConfigAssumption DEF Admits
    <2>3. cb.consSucc < SuccessThreshold
      BY DEF IInv, ThresholdsPending, BelowThresholds
    <2>4. Cardinality(probe) = 0
      BY FS_EmptySet
    <2> QED
      BY <2>1, <2>2, <2>3, <2>4, ConfigAssumption DEF SlotLost
  <1> QED
    BY <1>1, Invariance, PTL
=============================================================================

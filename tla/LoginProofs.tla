---------------------------- MODULE LoginProofs -----------------------------
(* Proofs about Login and the timeout middleware around it, for every      *)
(* number of requests and every limit.                                     *)
EXTENDS Login, FiniteSetTheorems, TLAPS

-----------------------------------------------------------------------------
(* What a client receives.  While the server's goroutine waits, what has    *)
(* been sent is what the handler has written; a handler that has ended      *)
(* without a header is wedged.  P are the places of the handler, whichever  *)
(* it is.                                                                   *)

Written(r) ==
  IF work[r] = "done" THEN {"header", "body"}
  ELSE IF wrote[r] THEN {"header"} ELSE {}

Answers ==
  /\ \A r \in Requests : main[r] = "waiting" => sent[r] = Written(r)
  /\ \A r \in Requests : work[r] \in {"done", "failed"} => wrote[r]
  /\ AnsweredOnce

\* No request has been taken up: the last one was answered whole.
LEMMA AnswersInit == Init => TimeoutTypeOK /\ Answers
  BY DEF Init, TimeoutInit, TimeoutTypeOK, WorkStates, Parts, Answers,
         AnsweredOnce, Written

\* Nothing of a new request has been written.
LEMMA ServeAnswers ==
  ASSUME TimeoutTypeOK, NEW P, at \in [Requests -> P], Answers,
         NEW r \in Requests,
         NEW first, first \notin {"answer", "end"}, Serve(r, first)
  PROVE  TimeoutTypeOK' /\ Answers'
  <1>1. TimeoutTypeOK'
    BY DEF TimeoutTypeOK, Serve, WorkStates, Parts
  <1>2. Answers'
    BY DEF TimeoutTypeOK, Serve, WorkStates, Answers, AnsweredOnce, Written
  <1> QED BY <1>1, <1>2

\* A handler on its way has not written.
LEMMA GoesAnswers ==
  ASSUME TimeoutTypeOK, NEW P, at \in [Requests -> P], Answers,
         NEW r \in Requests, NEW from, NEW to, from \notin {"answer", "end"},
         to # "end", Goes(r, from, to)
  PROVE  TimeoutTypeOK' /\ Answers'
  <1>1. TimeoutTypeOK'
    BY DEF TimeoutTypeOK, Goes, writerVars
  <1>2. Answers'
    BY DEF Goes, writerVars, Answers, AnsweredOnce, Written
  <1> QED BY <1>1, <1>2

\* A panic writes nothing, whether its recovery ends or waits for ever.
LEMMA PanicAnswers ==
  ASSUME TimeoutTypeOK, NEW P, at \in [Requests -> P], Answers,
         NEW r \in Requests, Panic(r)
  PROVE  TimeoutTypeOK' /\ Answers'
  <1>1. TimeoutTypeOK'
    BY DEF TimeoutTypeOK, Panic, Recovered, WorkStates
  <1>2. Answers'
    BY DEF TimeoutTypeOK, Panic, Recovered, WorkStates, Answers, AnsweredOnce,
           Written
  <1> QED BY <1>1, <1>2

\* Both goroutines at the writer: whichever comes first, the other adds nothing
\* that is not its due.
LEMMA MiddlewareAnswers ==
  ASSUME TimeoutTypeOK, NEW P, at \in [Requests -> P], Answers,
         NEW r \in Requests, Middleware(r)
  PROVE  TimeoutTypeOK' /\ Answers'
  <1>1. CASE Deadline(r)
    BY <1>1 DEF TimeoutTypeOK, Deadline, Answers, AnsweredOnce, Written
  <1>2. CASE ReturnDone(r)
    BY <1>2 DEF TimeoutTypeOK, ReturnDone, Answers, AnsweredOnce, Written
  <1>3. CASE ReturnTimeout(r)
    <2>1. TimeoutTypeOK'
      BY <1>3 DEF TimeoutTypeOK, ReturnTimeout, Refusal, Parts
    <2>2. sent[r] = Written(r)
      BY <1>3 DEF ReturnTimeout, Answers
    <2>3. wrote[r] => sent[r] \in {{"header"}, {"header", "body"}}
      BY <2>2 DEF Written
    <2>4. ~wrote[r] => sent[r] = {}
      BY <1>3, <2>2 DEF TimeoutTypeOK, WorkStates, Answers, Written
    <2>5. sent'[r] \in {{"header"}, {"header", "body"}, {"503"}}
      BY <1>3, <2>3, <2>4 DEF TimeoutTypeOK, ReturnTimeout, Refusal
    <2>6. Answers'
      BY <1>3, <2>5 DEF TimeoutTypeOK, ReturnTimeout, Answers, AnsweredOnce,
                        Written
    <2> QED BY <2>1, <2>6
  <1>4. CASE WriteHeader(r)
    <2>1. TimeoutTypeOK'
      BY <1>4 DEF TimeoutTypeOK, WriteHeader, Sends, Parts
    <2>2. Answers'
      BY <1>4 DEF TimeoutTypeOK, WriteHeader, Sends, Answers, AnsweredOnce,
                  Written
    <2> QED BY <2>1, <2>2
  <1>5. CASE WriteBody(r)
    <2>1. TimeoutTypeOK'
      BY <1>5 DEF TimeoutTypeOK, WorkStates, WriteBody, Sends, Parts
    <2>2. Answers'
      BY <1>5 DEF TimeoutTypeOK, WriteBody, Sends, Answers, AnsweredOnce,
                  Written
    <2> QED BY <2>1, <2>2
  <1> QED BY <1>1, <1>2, <1>3, <1>4, <1>5 DEF Middleware

\* A step of an administrator, or none, writes nothing.
LEMMA UnchangedAnswers ==
  ASSUME TimeoutTypeOK, NEW P, at \in [Requests -> P], Answers, UNCHANGED timeoutVars
  PROVE  TimeoutTypeOK' /\ Answers'
  BY DEF timeoutVars, writerVars, TimeoutTypeOK, Answers, AnsweredOnce, Written

Good(P) == TimeoutTypeOK /\ at \in [Requests -> P] /\ Answers

\* Every step of the middleware and of any handler keeps what was written and
\* what was sent in agreement.
LEMMA AnyHandlerStep ==
  ASSUME NEW P, "end" \in P
  PROVE  Good(P) /\ [TimeoutNext(P)]_timeoutVars => Good(P)'
  <1> SUFFICES ASSUME Good(P), [TimeoutNext(P)]_timeoutVars PROVE Good(P)'
    OBVIOUS
  <1> USE DEF Good
  <1>1. CASE UNCHANGED timeoutVars
    BY <1>1, UnchangedAnswers DEF timeoutVars
  <1>2. CASE TimeoutNext(P)
    <2>1. PICK r \in Requests :
            \/ \E first \in P \ {"answer", "end"} : Serve(r, first)
            \/ \E from \in P \ {"answer", "end"}, to \in P \ {"end"} :
                 Goes(r, from, to)
            \/ Panic(r)
            \/ Middleware(r)
      BY <1>2 DEF TimeoutNext
    <2>2. ASSUME NEW first \in P \ {"answer", "end"}, Serve(r, first)
          PROVE  Good(P)'
      BY <2>2, ServeAnswers DEF Serve
    <2>3. ASSUME NEW from \in P \ {"answer", "end"}, NEW to \in P \ {"end"},
                 Goes(r, from, to)
          PROVE  Good(P)'
      BY <2>3, GoesAnswers DEF Goes
    <2>4. CASE Panic(r)
      BY <2>4, PanicAnswers DEF Panic
    <2>5. CASE Middleware(r)
      <3>1. at' = at \/ at' = [at EXCEPT ![r] = "end"]
        BY <2>5 DEF Middleware, Deadline, ReturnDone, ReturnTimeout,
                    WriteHeader, WriteBody
      <3>2. at' \in [Requests -> P]
        BY <3>1
      <3> QED BY <2>5, <3>2, MiddlewareAnswers
    <2> QED BY <2>1, <2>2, <2>3, <2>4, <2>5
  <1> QED BY <1>1, <1>2

\* They agree in every behaviour, whatever the handler does on the way.
LEMMA AnyHandlerGood ==
  ASSUME NEW P, "end" \in P
  PROVE  TimeoutSpec(P) => []Good(P)
  <1>1. TimeoutInit => Good(P)
    BY DEF TimeoutInit, TimeoutTypeOK, WorkStates, Parts, Answers, AnsweredOnce,
           Written, Good
  <1> QED BY <1>1, AnyHandlerStep, PTL DEF TimeoutSpec

\* Every route with a timeout answers a client at most once, whatever its
\* handler does on the way: nothing of the login is used (TimeoutMiddleware).
THEOREM AnyHandlerAnswersOnce ==
  ASSUME NEW P, "end" \in P
  PROVE  TimeoutSpec(P) => []AnsweredOnce
  <1>1. Good(P) => AnsweredOnce
    BY DEF Good, Answers
  <1> QED BY <1>1, AnyHandlerGood, PTL

\* No request waits with its deadline past and nothing to be done about it: the
\* server's goroutine can send its answer, or the handler panicked before its
\* header and nobody has been told anything (TimeoutMiddleware).
THEOREM AnyHandlerCanEnd ==
  ASSUME NEW P, "end" \in P
  PROVE  TimeoutSpec(P) =>
           [](\A r \in Requests :
                main[r] = "waiting" /\ expired[r] => MuFree(r) \/ PanickedSilently(r))
  <1>1. Good(P) =>
          \A r \in Requests :
            main[r] = "waiting" /\ expired[r] => MuFree(r) \/ PanickedSilently(r)
    BY DEF Good, TimeoutTypeOK, Answers, Written, MuFree, PanickedSilently
  <1> QED BY <1>1, AnyHandlerGood, PTL
-----------------------------------------------------------------------------
(* How many wrong passwords are compared.  A guess is counted, still to be  *)
(* counted, or lost; and the count passes the limit only by requests that   *)
(* are about to lock, or that were let in before the lock.  A lost count    *)
(* and a lost lock loosen different halves of this, so what is lost is in   *)
(* two parts.                                                               *)

Here(f, S) == Cardinality({r \in Requests : f[r] \in S})

N == Cardinality(Requests)

Uncounted == {"increment"}
Passed == {"compare", "increment"}
Locking == {"lock"}

Covered ==
  \E a, b \in Nat :
    /\ a + b = lost
    /\ guesses <= count + Here(at, Uncounted) + a
    /\ ~locked => count <= MaxLoginAttempts - 1 + Here(at, Locking) + b
    /\ locked => count + Here(at, Passed) <= MaxLoginAttempts - 1 + N + b

Inv == TypeOK /\ Answers /\ Covered

\* Requests are counted: those at some places, and those at any of two sets of
\* places that have none in common.
LEMMA HereType ==
  ASSUME NEW f, NEW S
  PROVE  Here(f, S) \in Nat /\ Here(f, S) <= N /\ N \in Nat
  BY RequestsAssumption, FS_Subset, FS_CardinalityType DEF Here, N

\* Requests at places of two kinds are not the same requests.
LEMMA HereDisjoint ==
  ASSUME NEW f, NEW S, NEW T, S \cap T = {}
  PROVE  Here(f, S) + Here(f, T) <= N
  <1> DEFINE A == {r \in Requests : f[r] \in S}
             B == {r \in Requests : f[r] \in T}
  <1>1. IsFiniteSet(A) /\ IsFiniteSet(B)
    BY RequestsAssumption, FS_Subset
  <1>2. A \cap B = {} /\ A \cup B \subseteq Requests
    OBVIOUS
  <1>3. Cardinality(A \cap B) = 0
    BY <1>2, FS_EmptySet
  <1>4. Cardinality(A) \in Nat /\ Cardinality(B) \in Nat
    BY <1>1, FS_CardinalityType
  <1> HIDE DEF A, B
  <1>5. Cardinality(A \cup B)
          = Cardinality(A) + Cardinality(B) - Cardinality(A \cap B)
    BY <1>1, FS_Union
  <1>6. Cardinality(A \cup B) <= Cardinality(Requests)
    BY <1>2, RequestsAssumption, FS_Subset
  <1>7. Cardinality(A) + Cardinality(B) <= Cardinality(Requests)
    BY <1>3, <1>4, <1>5, <1>6
  <1> QED BY <1>7 DEF Here, N, A, B

\* One request moves: the count of the places it leaves is one less, of those it
\* comes to one more.
LEMMA Moves ==
  ASSUME NEW f \in [Requests -> Places], NEW r \in Requests, NEW to \in Places,
         NEW S
  PROVE  LET g == [f EXCEPT ![r] = to]
         IN  /\ f[r] \in S /\ to \notin S => Here(g, S) = Here(f, S) - 1
             /\ f[r] \notin S /\ to \in S => Here(g, S) = Here(f, S) + 1
             /\ (f[r] \in S) = (to \in S) => Here(g, S) = Here(f, S)
  <1> DEFINE g == [f EXCEPT ![r] = to]
             A == {q \in Requests : f[q] \in S}
             B == {q \in Requests : g[q] \in S}
  <1>1. IsFiniteSet(A) /\ Here(f, S) = Cardinality(A) /\ Here(g, S) = Cardinality(B)
    BY RequestsAssumption, FS_Subset DEF Here
  <1>2. f[r] \in S /\ to \notin S => r \in A /\ B = A \ {r}
    OBVIOUS
  <1>3. f[r] \notin S /\ to \in S => r \notin A /\ B = A \cup {r}
    OBVIOUS
  <1>4. (f[r] \in S) = (to \in S) => B = A
    OBVIOUS
  <1> HIDE DEF A, B
  <1>5. r \in A => Cardinality(A \ {r}) = Cardinality(A) - 1
    BY <1>1, FS_RemoveElement
  <1>6. r \notin A => Cardinality(A \cup {r}) = Cardinality(A) + 1
    BY <1>1, FS_AddElement
  <1> HIDE DEF g
  <1>7. /\ f[r] \in S /\ to \notin S => Here(g, S) = Here(f, S) - 1
        /\ f[r] \notin S /\ to \in S => Here(g, S) = Here(f, S) + 1
        /\ (f[r] \in S) = (to \in S) => Here(g, S) = Here(f, S)
    BY <1>1, <1>2, <1>3, <1>4, <1>5, <1>6
  <1> QED BY <1>7 DEF g

\* A request comes from one place to another: what that does to the three
\* counts.
Step(S, from, to) ==
  IF from \in S THEN (IF to \in S THEN 0 ELSE 0 - 1) ELSE (IF to \in S THEN 1 ELSE 0)

\* The number of requests at places S, before and after one goes from from to to.
LEMMA Counts ==
  ASSUME TypeOK, NEW r \in Requests, NEW from, NEW to \in Places,
         at[r] = from, at' = [at EXCEPT ![r] = to], NEW S
  PROVE  /\ Here(at, S) \in Nat /\ Here(at', S) \in Nat /\ N \in Nat
         /\ Here(at', S) = Here(at, S) + Step(S, from, to)
  <1>1. at \in [Requests -> Places]
    BY DEF TypeOK
  <1>2. /\ from \in S /\ to \notin S => Here(at', S) = Here(at, S) - 1
        /\ from \notin S /\ to \in S => Here(at', S) = Here(at, S) + 1
        /\ (from \in S) = (to \in S) => Here(at', S) = Here(at, S)
    BY <1>1, Moves
  <1>3. Here(at, S) \in Nat /\ Here(at', S) \in Nat /\ N \in Nat
    BY HereType
  <1> QED BY <1>2, <1>3 DEF Step
-----------------------------------------------------------------------------
(* Each kind of step keeps Covered.  C, L and P are the three counts.       *)

Bound(g, k, l, m, C, L, P) ==
  \E a, b \in Nat :
    /\ a + b = m
    /\ g <= k + C + a
    /\ ~l => k <= MaxLoginAttempts - 1 + L + b
    /\ l => k + P <= MaxLoginAttempts - 1 + N + b

\* Covered, said of the values that it depends on.
LEMMA CoveredIsBound ==
  /\ Covered <=> Bound(guesses, count, locked, lost, Here(at, Uncounted),
                       Here(at, Locking), Here(at, Passed))
  /\ Covered' <=> Bound(guesses', count', locked', lost', Here(at', Uncounted),
                        Here(at', Locking), Here(at', Passed))
  BY DEF Covered, Bound

\* Requests go on, to compare only while there is no lock; none that is counted
\* at the places before a statement of the account.
LEMMA StepKeeps ==
  ASSUME NEW g \in Nat, NEW k \in Nat, NEW l \in BOOLEAN, NEW m \in Nat,
         NEW C \in Nat, NEW L \in Nat, NEW P \in Nat, NEW P1 \in Nat,
         Bound(g, k, l, m, C, L, P), l => P1 <= P
  PROVE  Bound(g, k, l, m, C, L, P1)
  BY HereType, LimitsAssumption DEF Bound

\* A wrong password is compared.
LEMMA GuessKeeps ==
  ASSUME NEW g \in Nat, NEW k \in Nat, NEW l \in BOOLEAN, NEW m \in Nat,
         NEW C \in Nat, NEW L \in Nat, NEW P \in Nat,
         Bound(g, k, l, m, C, L, P)
  PROVE  Bound(g + 1, k, l, m, C + 1, L, P)
  BY HereType, LimitsAssumption DEF Bound

\* The account is locked, by a request or an administrator.
LEMMA LockKeeps ==
  ASSUME NEW g \in Nat, NEW k \in Nat, NEW l \in BOOLEAN, NEW m \in Nat,
         NEW C \in Nat, NEW L \in Nat, NEW P \in Nat, NEW L1 \in Nat,
         L + P <= N, Bound(g, k, l, m, C, L, P)
  PROVE  Bound(g, k, TRUE, m, C, L1, P)
  BY HereType, LimitsAssumption DEF Bound

\* The lock is lost.
LEMMA LockLostKeeps ==
  ASSUME NEW g \in Nat, NEW k \in Nat, NEW l \in BOOLEAN, NEW m \in Nat,
         NEW C \in Nat, NEW L \in Nat, NEW P \in Nat,
         Bound(g, k, l, m, C, L, P)
  PROVE  Bound(g, k, l, m + 1, C, L - 1, P)
  <1>1. PICK a \in Nat, b \in Nat :
          /\ a + b = m
          /\ g <= k + C + a
          /\ ~l => k <= MaxLoginAttempts - 1 + L + b
          /\ l => k + P <= MaxLoginAttempts - 1 + N + b
    BY DEF Bound
  <1>2. /\ b + 1 \in Nat /\ a + (b + 1) = m + 1
        /\ ~l => k <= MaxLoginAttempts - 1 + (L - 1) + (b + 1)
        /\ l => k + P <= MaxLoginAttempts - 1 + N + (b + 1)
    BY <1>1, HereType, LimitsAssumption
  <1> QED BY <1>1, <1>2 DEF Bound

\* The count begins again.
LEMMA ZeroKeeps ==
  ASSUME NEW l \in BOOLEAN, NEW C \in Nat, NEW L \in Nat, NEW P \in Nat, P <= N
  PROVE  Bound(0, 0, l, 0, C, L, P)
  <1>1. /\ 0 \in Nat /\ 0 + 0 = 0 /\ 0 <= 0 + C + 0
        /\ ~l => 0 <= MaxLoginAttempts - 1 + L + 0
        /\ l => 0 + P <= MaxLoginAttempts - 1 + N + 0
    BY HereType, LimitsAssumption
  <1> QED BY <1>1 DEF Bound
-----------------------------------------------------------------------------
(* The steps of the specification.                                          *)

\* Where a request goes, the three counts go.
LEMMA Count3 ==
  ASSUME TypeOK, NEW r \in Requests, NEW from \in Places, NEW to \in Places,
         at[r] = from, at' = [at EXCEPT ![r] = to]
  PROVE  /\ Here(at', Uncounted) = Here(at, Uncounted) + Step(Uncounted, from, to)
         /\ Here(at', Locking) = Here(at, Locking) + Step(Locking, from, to)
         /\ Here(at', Passed) = Here(at, Passed) + Step(Passed, from, to)
  BY Counts

\* The three numbers are natural, and those that may still guess are at most N.
LEMMA CountTypes ==
  /\ Here(at, Uncounted) \in Nat /\ Here(at', Uncounted) \in Nat
  /\ Here(at, Locking) \in Nat /\ Here(at', Locking) \in Nat
  /\ Here(at, Passed) \in Nat /\ Here(at', Passed) \in Nat
  /\ Here(at, Passed) <= N /\ Here(at', Passed) <= N
  /\ Here(at, Locking) + Here(at, Passed) <= N
  <1>1. Locking \cap Passed = {}
    BY DEF Locking, Passed
  <1> QED BY <1>1, HereType, HereDisjoint

\* Moves that none of the three statements are part of.
LEMMA IdleKeeps ==
  ASSUME Inv, NEW r \in Requests, NEW from \in Places, NEW to \in Places,
         at[r] = from, at' = [at EXCEPT ![r] = to], UNCHANGED account,
         from \notin Uncounted \cup Locking, to \notin Uncounted \cup Locking,
         to \in Passed => ~locked
  PROVE  Covered'
  <1>1. /\ Here(at', Uncounted) = Here(at, Uncounted) + Step(Uncounted, from, to)
        /\ Here(at', Locking) = Here(at, Locking) + Step(Locking, from, to)
        /\ Here(at', Passed) = Here(at, Passed) + Step(Passed, from, to)
    BY Count3 DEF Inv
  <1>2. Step(Uncounted, from, to) = 0 /\ Step(Locking, from, to) = 0
    BY DEF Step
  <1>3. locked => Step(Passed, from, to) \in {0, 0 - 1}
    BY DEF Step
  <1>4. /\ Here(at', Uncounted) = Here(at, Uncounted)
        /\ Here(at', Locking) = Here(at, Locking)
        /\ locked => Here(at', Passed) <= Here(at, Passed)
    BY <1>1, <1>2, <1>3, CountTypes
  <1>5. /\ guesses \in Nat /\ count \in Nat /\ lost \in Nat /\ locked \in BOOLEAN
        /\ Covered
    BY DEF Inv, TypeOK
  <1>6. Bound(guesses, count, locked, lost, Here(at, Uncounted),
              Here(at, Locking), Here(at, Passed))
    BY <1>5, CoveredIsBound
  <1>7. Here(at', Passed) \in Nat
    BY CountTypes
  <1>8. Bound(guesses, count, locked, lost, Here(at, Uncounted),
              Here(at, Locking), Here(at', Passed))
    <2>1. /\ Here(at, Uncounted) \in Nat /\ Here(at, Locking) \in Nat
          /\ Here(at, Passed) \in Nat
      BY CountTypes
    <2>2. locked => Here(at', Passed) <= Here(at, Passed)
      BY <1>4
    <2> QED BY <1>5, <1>6, <1>7, <2>1, <2>2, StepKeeps, Zenon
  <1> QED BY <1>4, <1>8, CoveredIsBound DEF account

\* Nobody moves, or nobody who is counted.
LEMMA StillKeeps ==
  ASSUME Inv, UNCHANGED account,
         Here(at', Uncounted) = Here(at, Uncounted),
         Here(at', Locking) = Here(at, Locking),
         Here(at', Passed) = Here(at, Passed)
  PROVE  Covered'
  BY CoveredIsBound DEF Inv, account

\* A login begins: nobody counts it before it has read the row.
LEMMA BeginStep ==
  ASSUME Inv, NEW r \in Requests, BeginLogin(r)
  PROVE  Inv'
  <1>1. TimeoutTypeOK' /\ Answers'
    BY ServeAnswers DEF Inv, TypeOK, BeginLogin
  <1>2. TypeOK'
    BY <1>1 DEF Inv, TypeOK, BeginLogin, Serve, account, Places
  <1>3. at[r] = "end"
    BY DEF Inv, TypeOK, TimeoutTypeOK, BeginLogin, Serve
  <1>4. Covered'
    BY <1>3, IdleKeeps
    DEF BeginLogin, Serve, Uncounted, Locking, Passed, Places
  <1> QED BY <1>1, <1>2, <1>4 DEF Inv

\* The middleware moves nobody but a handler that has answered.
LEMMA MiddlewareStep ==
  ASSUME Inv, NEW r \in Requests, Middleware(r), UNCHANGED account
  PROVE  Inv'
  <1>1. TimeoutTypeOK' /\ Answers'
    BY MiddlewareAnswers DEF Inv, TypeOK
  <1>2. at' = at \/ (at[r] = "answer" /\ at' = [at EXCEPT ![r] = "end"])
    BY DEF Middleware, Deadline, ReturnDone, ReturnTimeout, WriteHeader, WriteBody
  <1>3. TypeOK'
    BY <1>1, <1>2 DEF Inv, TypeOK, account, Places
  <1>4. CASE at' = at
    BY <1>4, StillKeeps, <1>1, <1>3 DEF Inv
  <1>5. CASE at[r] = "answer" /\ at' = [at EXCEPT ![r] = "end"]
    <2>1. Covered'
      BY <1>5, IdleKeeps DEF Uncounted, Locking, Passed, Places
    <2> QED BY <2>1, <1>1, <1>3 DEF Inv
  <1> QED BY <1>2, <1>4, <1>5

\* An administrator locks, which stops whoever has not read the row, or unlocks.
LEMMA AdminStep ==
  ASSUME Inv, AdminLocks \/ UnlockAccount
  PROVE  Inv'
  <1>1. at' = at /\ UNCHANGED timeoutVars
    BY DEF AdminLocks, UnlockAccount, timeoutVars
  <1>2. TimeoutTypeOK' /\ Answers'
    BY <1>1, UnchangedAnswers DEF Inv, TypeOK
  <1>3. /\ guesses \in Nat /\ count \in Nat /\ lost \in Nat /\ locked \in BOOLEAN
        /\ at \in [Requests -> Places] /\ Covered
    BY DEF Inv, TypeOK
  <1>4. CASE AdminLocks
    <2>1. locked' = TRUE /\ guesses' = guesses /\ count' = count /\ lost' = lost
      BY <1>4 DEF AdminLocks
    <2>2. Bound(guesses, count, TRUE, lost, Here(at, Uncounted),
                Here(at, Locking), Here(at, Passed))
      BY <1>3, LockKeeps, CountTypes, CoveredIsBound
    <2>3. Covered'
      BY <1>1, <2>1, <2>2, CoveredIsBound
    <2>4. TypeOK'
      BY <1>1, <1>2, <1>3, <2>1 DEF TypeOK
    <2> QED BY <1>2, <2>3, <2>4 DEF Inv
  <1>5. CASE UnlockAccount
    <2>1. locked' = FALSE /\ guesses' = 0 /\ count' = 0 /\ lost' = 0
      BY <1>5 DEF UnlockAccount, Zeroed
    <2>2. Bound(0, 0, FALSE, 0, Here(at, Uncounted), Here(at, Locking),
                Here(at, Passed))
      BY ZeroKeeps, CountTypes
    <2>3. Covered'
      BY <1>1, <2>1, <2>2, CoveredIsBound
    <2>4. TypeOK'
      BY <1>1, <1>2, <1>3, <2>1 DEF TypeOK
    <2> QED BY <1>2, <2>3, <2>4 DEF Inv
  <1> QED BY <1>4, <1>5

\* What a step of a handler leaves to show once its place and Covered are known.
LEMMA GoesStep ==
  ASSUME Inv, NEW r \in Requests, NEW from \in Places, NEW to \in Places,
         from \notin {"answer", "end"}, to # "end", Goes(r, from, to),
         count' \in Nat, guesses' \in Nat, lost' \in Nat, locked' \in BOOLEAN,
         Covered'
  PROVE  Inv'
  <1>1. TimeoutTypeOK' /\ Answers'
    BY GoesAnswers DEF Inv, TypeOK
  <1>2. at' \in [Requests -> Places]
    BY DEF Inv, TypeOK, Goes
  <1> QED BY <1>1, <1>2 DEF Inv, TypeOK

\* The three counts before and after, for the places of each statement.
LEMMA CountsAt ==
  ASSUME Inv, NEW r \in Requests, NEW from \in Places, NEW to \in Places,
         at[r] = from, at' = [at EXCEPT ![r] = to]
  PROVE  /\ from = "compare" /\ to = "increment" =>
              /\ Here(at', Uncounted) = Here(at, Uncounted) + 1
              /\ Here(at', Locking) = Here(at, Locking)
              /\ Here(at', Passed) = Here(at, Passed)
         /\ from = "increment" /\ to \in {"lock", "answer", "end"} =>
              /\ Here(at', Uncounted) = Here(at, Uncounted) - 1
              /\ Here(at', Locking)
                   = Here(at, Locking) + (IF to = "lock" THEN 1 ELSE 0)
              /\ Here(at', Passed) = Here(at, Passed) - 1
         /\ from = "lock" /\ to \in {"answer", "end"} =>
              /\ Here(at', Uncounted) = Here(at, Uncounted)
              /\ Here(at', Locking) = Here(at, Locking) - 1
              /\ Here(at', Passed) = Here(at, Passed)
  <1>1. /\ Here(at', Uncounted) = Here(at, Uncounted) + Step(Uncounted, from, to)
        /\ Here(at', Locking) = Here(at, Locking) + Step(Locking, from, to)
        /\ Here(at', Passed) = Here(at, Passed) + Step(Passed, from, to)
    BY Count3 DEF Inv
  <1>2. from = "compare" /\ to = "increment" =>
          /\ Step(Uncounted, from, to) = 1 /\ Step(Locking, from, to) = 0
          /\ Step(Passed, from, to) = 0
    BY DEF Step, Uncounted, Locking, Passed
  <1>3. from = "increment" /\ to \in {"lock", "answer", "end"} =>
          /\ Step(Uncounted, from, to) = 0 - 1
          /\ Step(Locking, from, to) = IF to = "lock" THEN 1 ELSE 0
          /\ Step(Passed, from, to) = 0 - 1
    BY DEF Step, Uncounted, Locking, Passed
  <1>4. from = "lock" /\ to \in {"answer", "end"} =>
          /\ Step(Uncounted, from, to) = 0 /\ Step(Locking, from, to) = 0 - 1
          /\ Step(Passed, from, to) = 0
    BY DEF Step, Uncounted, Locking, Passed
  <1> QED BY <1>1, <1>2, <1>3, <1>4, CountTypes

\* What of Inv the counting needs.
LEMMA InvBound ==
  ASSUME Inv
  PROVE  /\ guesses \in Nat /\ count \in Nat /\ lost \in Nat
         /\ locked \in BOOLEAN
         /\ Bound(guesses, count, locked, lost, Here(at, Uncounted),
                  Here(at, Locking), Here(at, Passed))
  BY CoveredIsBound DEF Inv, TypeOK

\* The row is read or refused, or a right password is found.
LEMMA PlainStep ==
  ASSUME Inv, NEW r \in Requests,
         \/ Lookup(r) \/ LookupRefused(r) \/ RightPassword(r) \/ ResetFails(r)
  PROVE  Inv'
  <1>1. PICK from \in {"lookup", "compare", "reset"},
             to \in {"compare", "answer", "reset"} :
          Goes(r, from, to) /\ (to = "compare" => ~locked)
    BY DEF Lookup, LookupRefused, RightPassword, ResetFails, MayTry
  <1>2. UNCHANGED account
    BY DEF Lookup, LookupRefused, RightPassword, ResetFails
  <1>3. from \in Places /\ to \in Places
    BY DEF Places
  <1>4. Covered'
    BY <1>1, <1>2, <1>3, IdleKeeps DEF Goes, Uncounted, Locking, Passed
  <1> QED BY <1>1, <1>2, <1>3, <1>4, GoesStep, InvBound DEF account

\* A guess is made, and its count is due.
LEMMA WrongPasswordStep ==
  ASSUME Inv, NEW r \in Requests, WrongPassword(r)
  PROVE  Inv'
  <1>1. /\ Goes(r, "compare", "increment") /\ guesses' = guesses + 1
        /\ count' = count /\ locked' = locked /\ lost' = lost
    BY DEF WrongPassword
  <1>2. "compare" \in Places /\ "increment" \in Places
    BY DEF Places
  <1>3. /\ Here(at', Uncounted) = Here(at, Uncounted) + 1
        /\ Here(at', Locking) = Here(at, Locking)
        /\ Here(at', Passed) = Here(at, Passed)
    BY <1>1, <1>2, CountsAt DEF Goes
  <1>4. Bound(guesses + 1, count, locked, lost, Here(at, Uncounted) + 1,
              Here(at, Locking), Here(at, Passed))
    BY InvBound, GuessKeeps, CountTypes
  <1>5. Covered'
    BY <1>1, <1>3, <1>4, CoveredIsBound
  <1> QED BY <1>1, <1>2, <1>5, GoesStep, InvBound

\* The attempt is counted, and the account is locked next if the count is full.
LEMMA IncrementStep ==
  ASSUME Inv, NEW r \in Requests, IncrementFailedAttempts(r)
  PROVE  Inv'
  <1> PICK to : to = AfterCount(count + 1)
    OBVIOUS
  <1>1. /\ Goes(r, "increment", to) /\ count' = count + 1
        /\ guesses' = guesses /\ locked' = locked /\ lost' = lost
    BY DEF IncrementFailedAttempts
  <1>2. /\ to \in {"lock", "answer"} /\ to \in Places /\ "increment" \in Places
        /\ Full(count + 1) => to = "lock"
        /\ ~Full(count + 1) => to = "answer"
    BY DEF Places, AfterCount
  <1>3. /\ Here(at', Uncounted) = Here(at, Uncounted) - 1
        /\ Here(at', Locking) = Here(at, Locking) + (IF to = "lock" THEN 1 ELSE 0)
        /\ Here(at', Passed) = Here(at, Passed) - 1
    BY <1>1, <1>2, CountsAt DEF Goes
  <1>4. PICK a \in Nat, b \in Nat :
          /\ a + b = lost
          /\ guesses <= count + Here(at, Uncounted) + a
          /\ ~locked => count <= MaxLoginAttempts - 1 + Here(at, Locking) + b
          /\ locked => count + Here(at, Passed) <= MaxLoginAttempts - 1 + N + b
    BY InvBound DEF Bound
  <1>5. guesses <= count + 1 + Here(at', Uncounted) + a
    BY <1>3, <1>4, InvBound, CountTypes
  <1>6. ~locked => count + 1 <= MaxLoginAttempts - 1 + Here(at', Locking) + b
    BY <1>2, <1>3, <1>4, InvBound, CountTypes, LimitsAssumption DEF Full
  <1>7. locked => count + 1 + Here(at', Passed) <= MaxLoginAttempts - 1 + N + b
    BY <1>3, <1>4, InvBound, CountTypes
  <1>8. Covered'
    BY <1>1, <1>4, <1>5, <1>6, <1>7 DEF Covered, Here, N
  <1> QED BY <1>1, <1>2, <1>8, GoesStep, InvBound

\* The count is lost, or only its answer.
LEMMA IncrementLostStep ==
  ASSUME Inv, NEW r \in Requests, IncrementLost(r)
  PROVE  Inv'
  <1>1. /\ Goes(r, "increment", "answer") /\ count' \in {count, count + 1}
        /\ guesses' = guesses /\ locked' = locked /\ lost' = lost + 1
    BY DEF IncrementLost
  <1>2. "increment" \in Places /\ "answer" \in Places
    BY DEF Places
  <1>3. /\ Here(at', Uncounted) = Here(at, Uncounted) - 1
        /\ Here(at', Locking) = Here(at, Locking) + 0
        /\ Here(at', Passed) = Here(at, Passed) - 1
    BY <1>1, <1>2, CountsAt DEF Goes
  <1>4. PICK a \in Nat, b \in Nat :
          /\ a + b = lost
          /\ guesses <= count + Here(at, Uncounted) + a
          /\ ~locked => count <= MaxLoginAttempts - 1 + Here(at, Locking) + b
          /\ locked => count + Here(at, Passed) <= MaxLoginAttempts - 1 + N + b
    BY InvBound DEF Bound
  <1>5. Covered'
    <2>1. CASE count' = count
      <3>1. /\ a + 1 \in Nat /\ (a + 1) + b = lost'
            /\ guesses' <= count' + Here(at', Uncounted) + (a + 1)
            /\ ~locked' => count' <= MaxLoginAttempts - 1 + Here(at', Locking) + b
            /\ locked' => count' + Here(at', Passed) <= MaxLoginAttempts - 1 + N + b
        BY <1>1, <1>3, <1>4, <2>1, InvBound, CountTypes, LimitsAssumption, HereType
      <3> QED BY <3>1 DEF Covered, Here, N
    <2>2. CASE count' = count + 1
      <3>1. /\ b + 1 \in Nat /\ a + (b + 1) = lost'
            /\ guesses' <= count' + Here(at', Uncounted) + a
            /\ ~locked' =>
                 count' <= MaxLoginAttempts - 1 + Here(at', Locking) + (b + 1)
            /\ locked' =>
                 count' + Here(at', Passed) <= MaxLoginAttempts - 1 + N + (b + 1)
        BY <1>1, <1>3, <1>4, <2>2, InvBound, CountTypes, LimitsAssumption, HereType
      <3> QED BY <3>1 DEF Covered, Here, N
    <2> QED BY <1>1, <2>1, <2>2
  <1>6. count' \in Nat /\ lost' \in Nat
    BY <1>1, InvBound
  <1> QED BY <1>1, <1>2, <1>5, <1>6, GoesStep, InvBound

\* The account is locked, whatever it was before.
LEMMA LockStep ==
  ASSUME Inv, NEW r \in Requests, LockAccount(r)
  PROVE  Inv'
  <1>1. /\ Goes(r, "lock", "answer") /\ locked' = TRUE
        /\ guesses' = guesses /\ count' = count /\ lost' = lost
    BY DEF LockAccount
  <1>2. "lock" \in Places /\ "answer" \in Places
    BY DEF Places
  <1>3. /\ Here(at', Uncounted) = Here(at, Uncounted)
        /\ Here(at', Passed) = Here(at, Passed)
    BY <1>1, <1>2, CountsAt DEF Goes
  <1>4. Bound(guesses, count, TRUE, lost, Here(at, Uncounted),
              Here(at', Locking), Here(at, Passed))
    BY InvBound, LockKeeps, CountTypes
  <1>5. Covered'
    BY <1>1, <1>3, <1>4, CoveredIsBound
  <1> QED BY <1>1, <1>2, <1>5, GoesStep, InvBound

\* The lock is lost: one of the requests that were about to lock is lost with it.
LEMMA LockLostStep ==
  ASSUME Inv, NEW r \in Requests, LockLost(r)
  PROVE  Inv'
  <1>1. /\ Goes(r, "lock", "answer") /\ lost' = lost + 1
        /\ guesses' = guesses /\ count' = count /\ locked' = locked
    BY DEF LockLost
  <1>2. "lock" \in Places /\ "answer" \in Places
    BY DEF Places
  <1>3. /\ Here(at', Uncounted) = Here(at, Uncounted)
        /\ Here(at', Locking) = Here(at, Locking) - 1
        /\ Here(at', Passed) = Here(at, Passed)
    BY <1>1, <1>2, CountsAt DEF Goes
  <1>4. Bound(guesses, count, locked, lost + 1, Here(at, Uncounted),
              Here(at, Locking) - 1, Here(at, Passed))
    BY InvBound, LockLostKeeps, CountTypes
  <1>5. Covered'
    BY <1>1, <1>3, <1>4, CoveredIsBound
  <1> QED BY <1>1, <1>2, <1>5, GoesStep, InvBound

\* A right password sets the count back.
LEMMA ResetStep ==
  ASSUME Inv, NEW r \in Requests, ResetFailedAttempts(r)
  PROVE  Inv'
  <1>1. /\ Goes(r, "reset", "answer") /\ locked' = locked
        /\ guesses' = 0 /\ count' = 0 /\ lost' = 0
    BY DEF ResetFailedAttempts, Zeroed
  <1>2. "reset" \in Places /\ "answer" \in Places
    BY DEF Places
  <1>3. Bound(0, 0, locked, 0, Here(at', Uncounted), Here(at', Locking),
              Here(at', Passed))
    BY InvBound, ZeroKeeps, CountTypes
  <1>4. Covered'
    BY <1>1, <1>3, CoveredIsBound
  <1> QED BY <1>1, <1>2, <1>4, GoesStep, InvBound

\* A handler panics, at whatever place it is.
LEMMA PanicStep ==
  ASSUME Inv, NEW r \in Requests, HandlerPanics(r)
  PROVE  Inv'
  <1> PICK from : from = at[r]
    OBVIOUS
  <1>1. /\ at' = [at EXCEPT ![r] = "end"] /\ at[r] = from
        /\ guesses' = guesses /\ count' = count /\ locked' = locked
        /\ lost' = IF from \in {"increment", "lock"} THEN lost + 1 ELSE lost
    BY DEF HandlerPanics, Panic
  <1>2. from \in Places /\ "end" \in Places
    BY DEF Inv, TypeOK, Places
  <1>3. TimeoutTypeOK' /\ Answers'
    BY PanicAnswers DEF Inv, TypeOK, HandlerPanics
  <1>4. TypeOK'
    BY <1>1, <1>2, <1>3, InvBound DEF Inv, TypeOK
  <1>5. Covered'
    <2>1. CASE from = "increment"
      <3>1. /\ Here(at', Uncounted) = Here(at, Uncounted) - 1
            /\ Here(at', Locking) = Here(at, Locking) + 0
            /\ Here(at', Passed) = Here(at, Passed) - 1
        BY <1>1, <1>2, <2>1, CountsAt
      <3>2. PICK a \in Nat, b \in Nat :
              /\ a + b = lost
              /\ guesses <= count + Here(at, Uncounted) + a
              /\ ~locked => count <= MaxLoginAttempts - 1 + Here(at, Locking) + b
              /\ locked => count + Here(at, Passed) <= MaxLoginAttempts - 1 + N + b
        BY InvBound DEF Bound
      <3>3. /\ a + 1 \in Nat /\ (a + 1) + b = lost'
            /\ guesses' <= count' + Here(at', Uncounted) + (a + 1)
            /\ ~locked' =>
                 count' <= MaxLoginAttempts - 1 + Here(at', Locking) + b
            /\ locked' =>
                 count' + Here(at', Passed) <= MaxLoginAttempts - 1 + N + b
        BY <1>1, <2>1, <3>1, <3>2, InvBound, CountTypes, LimitsAssumption, HereType
      <3> QED BY <3>3 DEF Covered, Here, N
    <2>2. CASE from = "lock"
      <3>1. /\ Here(at', Uncounted) = Here(at, Uncounted)
            /\ Here(at', Locking) = Here(at, Locking) - 1
            /\ Here(at', Passed) = Here(at, Passed)
        BY <1>1, <1>2, <2>2, CountsAt
      <3>2. Bound(guesses, count, locked, lost + 1, Here(at, Uncounted),
                  Here(at, Locking) - 1, Here(at, Passed))
        BY InvBound, LockLostKeeps, CountTypes
      <3> QED BY <1>1, <2>2, <3>1, <3>2, CoveredIsBound
    <2>3. CASE from \notin {"increment", "lock"}
      <3>1. UNCHANGED account
        BY <1>1, <2>3 DEF account
      <3> QED
        BY <1>1, <1>2, <2>3, <3>1, IdleKeeps DEF Uncounted, Locking, Passed
    <2> QED BY <2>1, <2>2, <2>3
  <1> QED BY <1>3, <1>4, <1>5 DEF Inv

\* Nobody has guessed, and nobody is on the way.
LEMMA InvInit == Init => Inv
  <1> SUFFICES ASSUME Init PROVE Inv
    OBVIOUS
  <1>1. TimeoutTypeOK /\ Answers
    BY AnswersInit
  <1>2. TypeOK
    BY <1>1 DEF Init, TimeoutInit, TypeOK, Places
  <1>3. Bound(0, 0, FALSE, 0, Here(at, Uncounted), Here(at, Locking),
              Here(at, Passed))
    BY ZeroKeeps, CountTypes
  <1>4. Covered
    BY <1>3, CoveredIsBound DEF Init
  <1> QED BY <1>1, <1>2, <1>4 DEF Inv

\* Every step keeps the invariant: one lemma for each kind of step.
LEMMA InvNext == Inv /\ [Next]_vars => Inv'
  <1> SUFFICES ASSUME Inv, [Next]_vars PROVE Inv'
    OBVIOUS
  <1>1. ASSUME NEW r \in Requests, BeginLogin(r) PROVE Inv'
    BY <1>1, BeginStep
  <1>2. ASSUME NEW r \in Requests, LoginHandler(r) PROVE Inv'
    BY <1>2, PlainStep, WrongPasswordStep, IncrementStep, IncrementLostStep,
       LockStep, LockLostStep, ResetStep, PanicStep DEF LoginHandler
  <1>3. ASSUME NEW r \in Requests, Middleware(r), UNCHANGED account PROVE Inv'
    BY <1>3, MiddlewareStep
  <1>4. CASE AdminLocks \/ UnlockAccount
    BY <1>4, AdminStep
  <1>5. CASE UNCHANGED vars
    <2>1. UNCHANGED timeoutVars /\ UNCHANGED account /\ at' = at
      BY <1>5 DEF vars, timeoutVars
    <2>2. TimeoutTypeOK' /\ Answers'
      BY <2>1, UnchangedAnswers DEF Inv, TypeOK
    <2>3. TypeOK' /\ Covered'
      BY <2>1, <2>2, StillKeeps DEF Inv, TypeOK, account
    <2> QED BY <2>2, <2>3 DEF Inv
  <1> QED BY <1>1, <1>2, <1>3, <1>4, <1>5 DEF Next

\* The invariant holds of logins in every behaviour (LoginHandler, timeout.go).
THEOREM Invariance == Spec => []Inv
  BY InvInit, InvNext, PTL DEF Spec

\* The rows, the goroutines and the response writer keep their types; a handler
\* has ended exactly when its goroutine has (timeout.go).
THEOREM TypeCorrect == Spec => []TypeOK
  <1>1. Inv => TypeOK
    BY DEF Inv
  <1> QED BY <1>1, Invariance, PTL

\* A client that is answered is answered once, in every order of the handler's
\* goroutine and the server's (timeout.go).
THEOREM OneAnswer == Spec => []AnsweredOnce
  <1>1. Inv => AnsweredOnce
    BY DEF Inv, Answers
  <1> QED BY <1>1, Invariance, PTL

\* Wrong passwords are bounded by the limit, the requests in progress and the
\* statements that are lost (LoginHandler).
THEOREM GuessesAreBounded == Spec => []GuessesBounded
  <1>1. Inv => GuessesBounded
    <2> SUFFICES ASSUME Inv PROVE GuessesBounded
      OBVIOUS
    <2>1. PICK a \in Nat, b \in Nat :
            /\ a + b = lost
            /\ guesses <= count + Here(at, Uncounted) + a
            /\ ~locked => count <= MaxLoginAttempts - 1 + Here(at, Locking) + b
            /\ locked => count + Here(at, Passed) <= MaxLoginAttempts - 1 + N + b
      BY InvBound DEF Bound
    <2>2. Uncounted \cap Locking = {}
      BY DEF Uncounted, Locking
    <2>3. Here(at, Uncounted) + Here(at, Locking) <= N /\ N \in Nat
      BY <2>2, HereDisjoint, HereType
    <2>4. Here(at, Uncounted) <= Here(at, Passed)
      <3>1. {r \in Requests : at[r] \in Uncounted}
              \subseteq {r \in Requests : at[r] \in Passed}
        BY DEF Uncounted, Passed
      <3>2. IsFiniteSet({r \in Requests : at[r] \in Passed})
        BY RequestsAssumption, FS_Subset
      <3> QED BY <3>1, <3>2, FS_Subset DEF Here
    <2>5. guesses <= MaxLoginAttempts - 1 + N + lost
      <3>1. CASE locked
        BY <2>1, <2>4, <3>1, <2>3, InvBound, CountTypes, LimitsAssumption
      <3>2. CASE ~locked
        BY <2>1, <2>3, <3>2, InvBound, CountTypes, LimitsAssumption
      <3> QED BY <3>1, <3>2
    <2> QED BY <2>5 DEF GuessesBounded, N
  <1> QED BY <1>1, Invariance, PTL

\* The login is one of those handlers (LoginHandler behind TimeoutMiddleware).
THEOREM LoginIsAHandler == Spec => TimeoutSpec(Places)
  <1>1. Init => TimeoutInit
    BY DEF Init
  <1>2. [Next]_vars => [TimeoutNext(Places)]_timeoutVars
    <2> SUFFICES ASSUME Next, ~UNCHANGED timeoutVars PROVE TimeoutNext(Places)
      BY DEF vars
    <2>1. CASE AdminLocks \/ UnlockAccount
      BY <2>1 DEF AdminLocks, UnlockAccount, timeoutVars
    <2>2. ASSUME NEW r \in Requests, BeginLogin(r) PROVE TimeoutNext(Places)
      BY <2>2 DEF BeginLogin, TimeoutNext, Places
    <2>3. ASSUME NEW r \in Requests, LoginHandler(r) PROVE TimeoutNext(Places)
      <3>1. \/ \E from \in Places \ {"answer", "end"}, to \in Places \ {"end"} :
                 Goes(r, from, to)
            \/ Panic(r)
        BY <2>3 DEF LoginHandler, Lookup, LookupRefused, RightPassword,
             WrongPassword, IncrementFailedAttempts, IncrementLost, AfterCount,
             LockAccount, LockLost, ResetFailedAttempts, ResetFails,
             HandlerPanics, Places
      <3> QED BY <3>1 DEF TimeoutNext
    <2>4. ASSUME NEW r \in Requests, Middleware(r) PROVE TimeoutNext(Places)
      BY <2>4 DEF TimeoutNext
    <2> QED BY <2>1, <2>2, <2>3, <2>4 DEF Next
  <1> QED BY <1>1, <1>2, PTL DEF Spec, TimeoutSpec
=============================================================================

------------------------ MODULE PasswordResetProofs -------------------------
(* Proofs about PasswordReset, for every number of requests and tokens.    *)
EXTENDS PasswordReset, FiniteSetTheorems, TLAPS

-----------------------------------------------------------------------------
(* A token that is live has been used once by each request that is about to *)
(* mark it, and once for each mark that was lost.  One that is not can be   *)
(* used once more by each request that has validated it.                    *)

\* The requests at place x with token t in their hands.
Holding(f, p, t, x) == {r \in Requests : f[r] = x /\ p[r] = t}
Held(f, p, t, x) == Cardinality(Holding(f, p, t, x))

N == Cardinality(Requests)

\* Of one token: live or not, its changes, its lost marks, and the requests that
\* are about to mark it and to change the password with it.
Fair(l, u, m, M, U) == IF l THEN u <= m + M ELSE u + U <= m + N

Presents ==
  \A r \in Requests :
    at[r] \in {"validate", "update", "mark"} => presented[r] \in Tokens

Used ==
  \A t \in Tokens :
    Fair(t \in live, uses[t], unmarked[t], Held(at, presented, t, "mark"),
         Held(at, presented, t, "update"))

\* Each live token has a request that let it be: its creator, at its latest; and
\* a request about to commit has found the token it stands for.
Stands(f, L, a, F) ==
  /\ f \in [L -> Requests]
  /\ \A s, t \in L : f[s] = f[t] => s = t
  /\ \A t \in L : a[f[t]] = "commit" => t \in F[f[t]]

StoodFor == \E f : Stands(f, live, at, found)

Inv == TypeOK /\ Presents /\ Used /\ StoodFor

-----------------------------------------------------------------------------
(* Counting.                                                                *)

\* There are finitely many requests.
LEMMA HeldType ==
  ASSUME NEW f, NEW p, NEW t, NEW x
  PROVE  Held(f, p, t, x) \in Nat /\ N \in Nat
  BY RequestsAssumption, FS_Subset, FS_CardinalityType DEF Held, Holding, N

\* A request is at one place.
LEMMA HeldTwo ==
  ASSUME NEW f, NEW p, NEW t, NEW x, NEW y, x # y
  PROVE  Held(f, p, t, x) + Held(f, p, t, y) <= N
  <1> DEFINE A == Holding(f, p, t, x)
             B == Holding(f, p, t, y)
  <1>1. A \cap B = {} /\ A \cup B \subseteq Requests
    BY DEF Holding
  <1>2. IsFiniteSet(A) /\ IsFiniteSet(B)
    BY RequestsAssumption, FS_Subset DEF Holding
  <1>3. Cardinality(A \cap B) = 0
    BY <1>1, FS_EmptySet
  <1>4. Cardinality(A) \in Nat /\ Cardinality(B) \in Nat
    BY <1>2, FS_CardinalityType
  <1> HIDE DEF A, B
  <1>5. Cardinality(A \cup B)
          = Cardinality(A) + Cardinality(B) - Cardinality(A \cap B)
    BY <1>2, FS_Union
  <1>6. Cardinality(A \cup B) <= Cardinality(Requests)
    BY <1>1, RequestsAssumption, FS_Subset
  <1>7. Cardinality(A) + Cardinality(B) <= Cardinality(Requests)
    BY <1>3, <1>4, <1>5, <1>6
  <1> QED BY <1>7 DEF Held, N, A, B

-----------------------------------------------------------------------------
(* Types.                                                                   *)

\* A request that is taken up has types.
LEMMA ServeTypes ==
  ASSUME TimeoutTypeOK, at \in [Requests -> Places], NEW r \in Requests,
         NEW first, first \notin {"answer", "end"}, Serve(r, first)
  PROVE  TimeoutTypeOK'
  BY DEF TimeoutTypeOK, Serve, WorkStates, Parts

\* A handler on its way keeps the types of the middleware.
LEMMA GoesTypes ==
  ASSUME TimeoutTypeOK, at \in [Requests -> Places], NEW r \in Requests,
         NEW from, NEW to, from \notin {"answer", "end"}, to # "end",
         Goes(r, from, to)
  PROVE  TimeoutTypeOK'
  BY DEF TimeoutTypeOK, Goes, writerVars

\* A panic keeps the types of the middleware.
LEMMA PanicTypes ==
  ASSUME TimeoutTypeOK, at \in [Requests -> Places], NEW r \in Requests, Panic(r)
  PROVE  TimeoutTypeOK'
  BY DEF TimeoutTypeOK, Panic, Recovered, WorkStates

\* The middleware keeps its types.
LEMMA MiddlewareTypes ==
  ASSUME TimeoutTypeOK, at \in [Requests -> Places], NEW r \in Requests,
         Middleware(r)
  PROVE  TimeoutTypeOK'
  <1>1. CASE Deadline(r) \/ ReturnDone(r)
    BY <1>1 DEF TimeoutTypeOK, Deadline, ReturnDone
  <1>2. CASE ReturnTimeout(r)
    BY <1>2 DEF TimeoutTypeOK, ReturnTimeout, Refusal, Parts
  <1>3. CASE WriteHeader(r)
    BY <1>3 DEF TimeoutTypeOK, WriteHeader, Sends, Parts
  <1>4. CASE WriteBody(r)
    BY <1>4 DEF TimeoutTypeOK, WorkStates, WriteBody, Sends, Parts
  <1> QED BY <1>1, <1>2, <1>3, <1>4 DEF Middleware

-----------------------------------------------------------------------------
(* Kinds of steps, by what they do to one request r.                        *)

\* The others are where they were, with what they had.
Only(r) ==
  \A s \in Requests \ {r} :
    at'[s] = at[s] /\ presented'[s] = presented[s] /\ found'[s] = found[s]

\* One request moves, and may let go of its token: how many hold t at x changes
\* by what it did.
LEMMA HeldNow ==
  ASSUME NEW r \in Requests, Only(r), NEW t, NEW x
  PROVE  /\ at[r] = x /\ presented[r] = t /\ ~(at'[r] = x /\ presented'[r] = t) =>
              Held(at', presented', t, x) = Held(at, presented, t, x) - 1
         /\ ~(at[r] = x /\ presented[r] = t) /\ at'[r] = x /\ presented'[r] = t =>
              Held(at', presented', t, x) = Held(at, presented, t, x) + 1
         /\ (at[r] = x /\ presented[r] = t) = (at'[r] = x /\ presented'[r] = t) =>
              Held(at', presented', t, x) = Held(at, presented, t, x)
  <1> DEFINE A == Holding(at, presented, t, x)
             B == Holding(at', presented', t, x)
  <1>1. IsFiniteSet(A) /\ Held(at, presented, t, x) = Cardinality(A)
                       /\ Held(at', presented', t, x) = Cardinality(B)
    BY RequestsAssumption, FS_Subset DEF Held, Holding
  <1>2. at[r] = x /\ presented[r] = t /\ ~(at'[r] = x /\ presented'[r] = t) =>
          r \in A /\ B = A \ {r}
    BY DEF Holding, Only
  <1>3. ~(at[r] = x /\ presented[r] = t) /\ at'[r] = x /\ presented'[r] = t =>
          r \notin A /\ B = A \cup {r}
    BY DEF Holding, Only
  <1>4. (at[r] = x /\ presented[r] = t) = (at'[r] = x /\ presented'[r] = t) =>
          B = A
    BY DEF Holding, Only
  <1> HIDE DEF A, B
  <1>5. r \in A => Cardinality(A \ {r}) = Cardinality(A) - 1
    BY <1>1, FS_RemoveElement
  <1>6. r \notin A => Cardinality(A \cup {r}) = Cardinality(A) + 1
    BY <1>1, FS_AddElement
  <1> QED BY <1>1, <1>2, <1>3, <1>4, <1>5, <1>6

\* Some requests that stood for a token have none left, and none is at its
\* commit that was not, or it has just found all there is.
LEMMA StandsOn ==
  ASSUME StoodFor, NEW r \in Requests, Only(r), live' \subseteq live,
         \/ at'[r] # "commit"
         \/ found'[r] = live
         \/ at'[r] = at[r] /\ found'[r] = found[r]
  PROVE  StoodFor'
  <1>1. PICK f : Stands(f, live, at, found)
    BY DEF StoodFor
  <1>2. Stands([t \in live' |-> f[t]], live', at', found')
    BY <1>1 DEF Stands, Only
  <1> QED BY <1>2 DEF StoodFor

\* The one that commits stands for its new token; it has ended all it stood for.
LEMMA StandsForNew ==
  ASSUME StoodFor, NEW r \in Requests, Only(r), NEW n \in Tokens,
         at[r] = "commit", at'[r] # "commit", n \notin live,
         live' = (live \ found[r]) \cup {n}
  PROVE  StoodFor'
  <1>1. PICK f : Stands(f, live, at, found)
    BY DEF StoodFor
  <1> DEFINE g == [t \in live' |-> IF t = n THEN r ELSE f[t]]
  <1>2. \A t \in live' \ {n} : t \in live /\ g[t] = f[t] /\ f[t] # r
    BY <1>1 DEF Stands
  <1>3. n \in live' /\ g[n] = r
    OBVIOUS
  <1>4. g \in [live' -> Requests]
    BY <1>1, <1>2 DEF Stands
  <1> HIDE DEF g
  <1>5. Stands(g, live', at', found')
    BY <1>1, <1>2, <1>3, <1>4 DEF Stands, Only
  <1> QED BY <1>5 DEF StoodFor

\* Nothing is used.  Tokens may die; the one that r was about to mark has.
LEMMA NothingUsed ==
  ASSUME TypeOK, Used, NEW r \in Requests, Only(r), live' \subseteq live,
         UNCHANGED <<uses, unmarked>>,
         at'[r] \notin {"mark", "update"} \/ (at'[r] = at[r] /\ presented'[r] = presented[r]),
         at[r] = "mark" /\ at'[r] # "mark" => presented[r] \notin live'
  PROVE  Used'
  <1> SUFFICES ASSUME NEW t \in Tokens
               PROVE  Fair(t \in live', uses'[t], unmarked'[t],
                           Held(at', presented', t, "mark"),
                           Held(at', presented', t, "update"))
    BY DEF Used
  <1> PICK M, U, M1, U1 :
        /\ M = Held(at, presented, t, "mark")
        /\ U = Held(at, presented, t, "update")
        /\ M1 = Held(at', presented', t, "mark")
        /\ U1 = Held(at', presented', t, "update")
    OBVIOUS
  <1>1. /\ M \in Nat /\ U \in Nat /\ M1 \in Nat /\ U1 \in Nat /\ N \in Nat
        /\ M + U <= N /\ M1 + U1 <= N
    BY HeldType, HeldTwo
  <1>2. M1 <= M /\ U1 <= U
    <2>1. M1 = M \/ M1 = M - 1
      BY HeldNow
    <2>2. U1 = U \/ U1 = U - 1
      BY HeldNow
    <2> QED BY <1>1, <2>1, <2>2
  <1>3. t \in live' => M1 = M
    <2> SUFFICES ASSUME t \in live' PROVE M1 = M
      OBVIOUS
    <2>1. (at[r] = "mark" /\ presented[r] = t)
            = (at'[r] = "mark" /\ presented'[r] = t)
      OBVIOUS
    <2> QED BY <2>1, HeldNow
  <1>4. Fair(t \in live, uses[t], unmarked[t], M, U)
    BY DEF Used
  <1>5. uses[t] \in Nat /\ unmarked[t] \in Nat /\ uses' = uses /\ unmarked' = unmarked
    BY DEF TypeOK
  <1>6. CASE t \in live'
    BY <1>3, <1>4, <1>5, <1>6 DEF Fair
  <1>7. CASE t \in live /\ t \notin live'
    BY <1>1, <1>2, <1>4, <1>5, <1>7 DEF Fair
  <1>8. CASE t \notin live
    BY <1>1, <1>2, <1>4, <1>5, <1>8 DEF Fair
  <1> QED BY <1>6, <1>7, <1>8

\* A live token is validated: its changes are those it had.
LEMMA Validates ==
  ASSUME TypeOK, Used, NEW r \in Requests, Only(r),
         at[r] = "validate", at'[r] = "update", presented'[r] = presented[r],
         presented[r] \in live, UNCHANGED <<live, uses, unmarked>>
  PROVE  Used'
  <1> SUFFICES ASSUME NEW t \in Tokens
               PROVE  Fair(t \in live', uses'[t], unmarked'[t],
                           Held(at', presented', t, "mark"),
                           Held(at', presented', t, "update"))
    BY DEF Used
  <1> PICK M, U, M1, U1 :
        /\ M = Held(at, presented, t, "mark")
        /\ U = Held(at, presented, t, "update")
        /\ M1 = Held(at', presented', t, "mark")
        /\ U1 = Held(at', presented', t, "update")
    OBVIOUS
  <1>1. /\ M \in Nat /\ U \in Nat /\ M1 \in Nat /\ U1 \in Nat /\ N \in Nat
    BY HeldType
  <1>2. /\ Fair(t \in live, uses[t], unmarked[t], M, U)
        /\ uses[t] \in Nat /\ unmarked[t] \in Nat
    BY DEF Used, TypeOK
  <1>3. M1 = M
    BY HeldNow
  <1>4. t \notin live => U1 = U
    BY HeldNow
  <1> QED BY <1>1, <1>2, <1>3, <1>4 DEF Fair

\* The password is changed; what remains is the mark.
LEMMA Changes ==
  ASSUME TypeOK, Used, NEW r \in Requests, Only(r),
         at[r] = "update", at'[r] = "mark", presented'[r] = presented[r],
         UNCHANGED <<live, unmarked>>,
         uses' = [uses EXCEPT ![presented[r]] = @ + 1]
  PROVE  Used'
  <1> SUFFICES ASSUME NEW t \in Tokens
               PROVE  Fair(t \in live', uses'[t], unmarked'[t],
                           Held(at', presented', t, "mark"),
                           Held(at', presented', t, "update"))
    BY DEF Used
  <1> PICK M, U, M1, U1 :
        /\ M = Held(at, presented, t, "mark")
        /\ U = Held(at, presented, t, "update")
        /\ M1 = Held(at', presented', t, "mark")
        /\ U1 = Held(at', presented', t, "update")
    OBVIOUS
  <1>1. /\ M \in Nat /\ U \in Nat /\ M1 \in Nat /\ U1 \in Nat /\ N \in Nat
    BY HeldType
  <1>2. /\ Fair(t \in live, uses[t], unmarked[t], M, U)
        /\ uses[t] \in Nat /\ unmarked[t] \in Nat
    BY DEF Used, TypeOK
  <1>3. presented[r] = t => M1 = M + 1 /\ U1 = U - 1 /\ uses'[t] = uses[t] + 1
    BY HeldNow DEF TypeOK
  <1>4. presented[r] # t => M1 = M /\ U1 = U /\ uses'[t] = uses[t]
    BY HeldNow DEF TypeOK
  <1>5. CASE presented[r] = t
    BY <1>1, <1>2, <1>3, <1>5 DEF Fair
  <1>6. CASE presented[r] # t
    BY <1>1, <1>2, <1>4, <1>6 DEF Fair
  <1> QED BY <1>5, <1>6

\* The password is changed and the handler does not know.
LEMMA ChangesUnseen ==
  ASSUME TypeOK, Used, NEW r \in Requests, Only(r),
         at[r] = "update", at'[r] = "answer",
         UNCHANGED live,
         uses' = [uses EXCEPT ![presented[r]] = @ + 1],
         unmarked' = [unmarked EXCEPT ![presented[r]] = @ + 1]
  PROVE  Used'
  <1> SUFFICES ASSUME NEW t \in Tokens
               PROVE  Fair(t \in live', uses'[t], unmarked'[t],
                           Held(at', presented', t, "mark"),
                           Held(at', presented', t, "update"))
    BY DEF Used
  <1> PICK M, U, M1, U1 :
        /\ M = Held(at, presented, t, "mark")
        /\ U = Held(at, presented, t, "update")
        /\ M1 = Held(at', presented', t, "mark")
        /\ U1 = Held(at', presented', t, "update")
    OBVIOUS
  <1>1. /\ M \in Nat /\ U \in Nat /\ M1 \in Nat /\ U1 \in Nat /\ N \in Nat
    BY HeldType
  <1>2. /\ Fair(t \in live, uses[t], unmarked[t], M, U)
        /\ uses[t] \in Nat /\ unmarked[t] \in Nat
    BY DEF Used, TypeOK
  <1>3. presented[r] = t =>
          /\ M1 = M /\ U1 = U - 1
          /\ uses'[t] = uses[t] + 1 /\ unmarked'[t] = unmarked[t] + 1
    BY HeldNow DEF TypeOK
  <1>4. presented[r] # t =>
          M1 = M /\ U1 = U /\ uses'[t] = uses[t] /\ unmarked'[t] = unmarked[t]
    BY HeldNow DEF TypeOK
  <1>5. CASE presented[r] = t
    BY <1>1, <1>2, <1>3, <1>5 DEF Fair
  <1>6. CASE presented[r] # t
    BY <1>1, <1>2, <1>4, <1>6 DEF Fair
  <1> QED BY <1>5, <1>6

\* The mark is lost, with the handler or without it.
LEMMA MarkMissed ==
  ASSUME TypeOK, Used, NEW r \in Requests, Only(r),
         at[r] = "mark", at'[r] \in {"answer", "end"},
         UNCHANGED <<live, uses>>,
         unmarked' = [unmarked EXCEPT ![presented[r]] = @ + 1]
  PROVE  Used'
  <1> SUFFICES ASSUME NEW t \in Tokens
               PROVE  Fair(t \in live', uses'[t], unmarked'[t],
                           Held(at', presented', t, "mark"),
                           Held(at', presented', t, "update"))
    BY DEF Used
  <1> PICK M, U, M1, U1 :
        /\ M = Held(at, presented, t, "mark")
        /\ U = Held(at, presented, t, "update")
        /\ M1 = Held(at', presented', t, "mark")
        /\ U1 = Held(at', presented', t, "update")
    OBVIOUS
  <1>1. /\ M \in Nat /\ U \in Nat /\ M1 \in Nat /\ U1 \in Nat /\ N \in Nat
    BY HeldType
  <1>2. /\ Fair(t \in live, uses[t], unmarked[t], M, U)
        /\ uses[t] \in Nat /\ unmarked[t] \in Nat
    BY DEF Used, TypeOK
  <1>3. presented[r] = t =>
          M1 = M - 1 /\ U1 = U /\ unmarked'[t] = unmarked[t] + 1
    BY HeldNow DEF TypeOK
  <1>4. presented[r] # t => M1 = M /\ U1 = U /\ unmarked'[t] = unmarked[t]
    BY HeldNow DEF TypeOK
  <1>5. CASE presented[r] = t
    BY <1>1, <1>2, <1>3, <1>5 DEF Fair
  <1>6. CASE presented[r] # t
    BY <1>1, <1>2, <1>4, <1>6 DEF Fair
  <1> QED BY <1>5, <1>6

\* A token is created: it has no changes, and the others may have died.
LEMMA Creates ==
  ASSUME TypeOK, Used, NEW r \in Requests, Only(r),
         NEW n \in Tokens, at[r] = "commit", at'[r] = "answer",
         live' = (live \ found[r]) \cup {n},
         uses' = [uses EXCEPT ![n] = 0],
         unmarked' = [unmarked EXCEPT ![n] = 0]
  PROVE  Used'
  <1> SUFFICES ASSUME NEW t \in Tokens
               PROVE  Fair(t \in live', uses'[t], unmarked'[t],
                           Held(at', presented', t, "mark"),
                           Held(at', presented', t, "update"))
    BY DEF Used
  <1> PICK M, U, M1, U1 :
        /\ M = Held(at, presented, t, "mark")
        /\ U = Held(at, presented, t, "update")
        /\ M1 = Held(at', presented', t, "mark")
        /\ U1 = Held(at', presented', t, "update")
    OBVIOUS
  <1>1. /\ M \in Nat /\ U \in Nat /\ M1 \in Nat /\ U1 \in Nat /\ N \in Nat
    BY HeldType
  <1>2. /\ Fair(t \in live, uses[t], unmarked[t], M, U)
        /\ uses[t] \in Nat /\ unmarked[t] \in Nat
    BY DEF Used, TypeOK
  <1>3. M1 = M /\ U1 = U /\ M + U <= N
    BY HeldNow, HeldTwo
  <1>4. t = n => t \in live' /\ uses'[t] = 0 /\ unmarked'[t] = 0
    BY DEF TypeOK
  <1>5. t # n =>
          /\ uses'[t] = uses[t] /\ unmarked'[t] = unmarked[t]
          /\ t \in live' => t \in live
    BY DEF TypeOK
  <1>6. CASE t = n
    BY <1>1, <1>4, <1>6 DEF Fair
  <1>7. CASE t # n /\ t \in live'
    BY <1>1, <1>2, <1>3, <1>5, <1>7 DEF Fair
  <1>8. CASE t # n /\ t \notin live'
    BY <1>1, <1>2, <1>3, <1>5, <1>8 DEF Fair
  <1> QED BY <1>6, <1>7, <1>8

-----------------------------------------------------------------------------
(* The steps of the specification.                                          *)

\* A request to create a token begins with nothing in its hands.
LEMMA BeginForgotStep ==
  ASSUME Inv, NEW r \in Requests, BeginForgot(r)
  PROVE  Inv'
  <1>1. TimeoutTypeOK'
    BY ServeTypes DEF Inv, TypeOK, BeginForgot
  <1>2. at[r] = "end" /\ at' = [at EXCEPT ![r] = "invalidate"] /\ UNCHANGED tokenVars
    BY DEF Inv, TypeOK, TimeoutTypeOK, BeginForgot, Serve
  <1>3. TypeOK' /\ Presents' /\ Only(r) /\ at'[r] = "invalidate"
    BY <1>1, <1>2 DEF Inv, TypeOK, Presents, Only, tokenVars, Places
  <1>4. Used'
    BY <1>2, <1>3, NothingUsed DEF Inv, tokenVars
  <1>5. StoodFor'
    BY <1>2, <1>3, StandsOn DEF Inv, tokenVars
  <1> QED BY <1>3, <1>4, <1>5 DEF Inv

\* A token is presented; nothing has been done with it yet.
LEMMA BeginResetStep ==
  ASSUME Inv, NEW r \in Requests, NEW t \in Tokens, BeginReset(r, t)
  PROVE  Inv'
  <1>1. TimeoutTypeOK'
    BY ServeTypes DEF Inv, TypeOK, BeginReset
  <1>2. /\ at[r] = "end" /\ at' = [at EXCEPT ![r] = "validate"]
        /\ presented' = [presented EXCEPT ![r] = t]
        /\ UNCHANGED <<live, found, uses, unmarked>>
    BY DEF Inv, TypeOK, TimeoutTypeOK, BeginReset, Serve
  <1>3. TypeOK' /\ Presents' /\ Only(r) /\ at'[r] = "validate"
    BY <1>1, <1>2 DEF Inv, TypeOK, Presents, Only, Places
  <1>4. Used'
    BY <1>2, <1>3, NothingUsed DEF Inv
  <1>5. StoodFor'
    BY <1>2, <1>3, StandsOn DEF Inv
  <1> QED BY <1>3, <1>4, <1>5 DEF Inv

\* The UPDATE finds what is live, the token it stands for among it.
LEMMA InvalidateStep ==
  ASSUME Inv, NEW r \in Requests, Invalidate(r)
  PROVE  Inv'
  <1>1. TimeoutTypeOK'
    BY GoesTypes DEF Inv, TypeOK, Invalidate
  <1>2. /\ at[r] = "invalidate" /\ at' = [at EXCEPT ![r] = "commit"]
        /\ found' = [found EXCEPT ![r] = live]
        /\ UNCHANGED <<live, presented, uses, unmarked>>
    BY DEF Invalidate, Goes, Superseded
  <1>3. /\ TypeOK' /\ Presents' /\ Only(r)
        /\ at'[r] = "commit" /\ found'[r] = live
    BY <1>1, <1>2 DEF Inv, TypeOK, Presents, Only, Places
  <1>4. Used'
    BY <1>2, <1>3, NothingUsed DEF Inv
  <1>5. StoodFor'
    BY <1>2, <1>3, StandsOn DEF Inv
  <1> QED BY <1>3, <1>4, <1>5 DEF Inv

\* The new token is stood for by its creator, those that were found by nobody.
LEMMA CommitStep ==
  ASSUME Inv, NEW r \in Requests, Commit(r)
  PROVE  Inv'
  <1>1. TimeoutTypeOK'
    BY GoesTypes DEF Inv, TypeOK, Commit
  <1>2. PICK n \in Tokens :
          /\ n \notin live
          /\ live' = (live \ found[r]) \cup {n}
          /\ uses' = [uses EXCEPT ![n] = 0]
          /\ unmarked' = [unmarked EXCEPT ![n] = 0]
    BY DEF Commit, IsNew
  <1>3. /\ at[r] = "commit" /\ at' = [at EXCEPT ![r] = "answer"]
        /\ found' = [found EXCEPT ![r] = {}] /\ UNCHANGED presented
    BY DEF Commit, Goes
  <1>4. TypeOK' /\ Presents' /\ Only(r) /\ at'[r] = "answer"
    BY <1>1, <1>2, <1>3 DEF Inv, TypeOK, Presents, Only, Places
  <1>5. Used'
    BY <1>2, <1>3, <1>4, Creates DEF Inv
  <1>6. StoodFor'
    BY <1>2, <1>3, <1>4, StandsForNew DEF Inv
  <1> QED BY <1>4, <1>5, <1>6 DEF Inv

\* The handler ends, and nothing was used or has died.
LEMMA RefusedStep ==
  ASSUME Inv, NEW r \in Requests, NotCreated(r) \/ NotValidated(r)
  PROVE  Inv'
  <1>1. PICK from \in {"invalidate", "commit", "validate"} : Goes(r, from, "answer")
    BY DEF NotCreated, NotValidated
  <1>2. TimeoutTypeOK'
    BY <1>1, GoesTypes DEF Inv, TypeOK
  <1>3. /\ at[r] = from /\ at' = [at EXCEPT ![r] = "answer"]
        /\ UNCHANGED <<live, uses, unmarked>>
        /\ found' \in {found, [found EXCEPT ![r] = {}]}
        /\ presented' \in {presented, [presented EXCEPT ![r] = NoToken]}
    BY <1>1 DEF NotCreated, NotValidated, Goes, Forgets
  <1>4. TypeOK' /\ Presents' /\ Only(r) /\ at'[r] = "answer"
    BY <1>2, <1>3 DEF Inv, TypeOK, Presents, Only, Places
  <1>5. Used'
    BY <1>3, <1>4, NothingUsed DEF Inv
  <1>6. StoodFor'
    BY <1>3, <1>4, StandsOn DEF Inv
  <1> QED BY <1>4, <1>5, <1>6 DEF Inv

\* A live token is validated: it has room for one more change.
LEMMA ValidateStep ==
  ASSUME Inv, NEW r \in Requests, ValidateResetToken(r)
  PROVE  Inv'
  <1>1. TimeoutTypeOK'
    BY GoesTypes DEF Inv, TypeOK, ValidateResetToken
  <1>2. /\ at[r] = "validate" /\ at' = [at EXCEPT ![r] = "update"]
        /\ presented[r] \in live /\ UNCHANGED tokenVars
    BY DEF ValidateResetToken, Goes, IsValid
  <1>3. /\ TypeOK' /\ Presents' /\ Only(r) /\ at'[r] = "update"
        /\ presented'[r] = presented[r]
    BY <1>1, <1>2 DEF Inv, TypeOK, Presents, Only, tokenVars, Places
  <1>4. Used'
    BY <1>2, <1>3, Validates DEF Inv, tokenVars
  <1>5. StoodFor'
    BY <1>2, <1>3, StandsOn DEF Inv, tokenVars
  <1> QED BY <1>3, <1>4, <1>5 DEF Inv

\* The password is changed; its mark is due.
LEMMA UpdateStep ==
  ASSUME Inv, NEW r \in Requests, UpdatePassword(r)
  PROVE  Inv'
  <1>1. TimeoutTypeOK'
    BY GoesTypes DEF Inv, TypeOK, UpdatePassword
  <1>2. /\ at[r] = "update" /\ at' = [at EXCEPT ![r] = "mark"]
        /\ uses' = [uses EXCEPT ![presented[r]] = @ + 1]
        /\ UNCHANGED <<live, presented, found, unmarked>>
    BY DEF UpdatePassword, Goes
  <1>3. /\ TypeOK' /\ Presents' /\ Only(r) /\ at'[r] = "mark"
        /\ presented'[r] = presented[r]
    BY <1>1, <1>2 DEF Inv, TypeOK, Presents, Only, Places
  <1>4. Used'
    BY <1>2, <1>3, Changes DEF Inv
  <1>5. StoodFor'
    BY <1>2, <1>3, StandsOn DEF Inv
  <1> QED BY <1>3, <1>4, <1>5 DEF Inv

\* The change is made or not, and no mark follows.
LEMMA UpdateLostStep ==
  ASSUME Inv, NEW r \in Requests, UpdateLost(r)
  PROVE  Inv'
  <1>1. TimeoutTypeOK'
    BY GoesTypes DEF Inv, TypeOK, UpdateLost
  <1>2. /\ at[r] = "update" /\ at' = [at EXCEPT ![r] = "answer"]
        /\ presented' = [presented EXCEPT ![r] = NoToken]
        /\ UNCHANGED <<live, found>>
    BY DEF UpdateLost, Goes, Forgets
  <1>3. \/ UNCHANGED <<uses, unmarked>>
        \/ /\ uses' = [uses EXCEPT ![presented[r]] = @ + 1]
           /\ unmarked' = [unmarked EXCEPT ![presented[r]] = @ + 1]
    BY DEF UpdateLost
  <1>4. TypeOK' /\ Presents' /\ Only(r) /\ at'[r] = "answer"
    BY <1>1, <1>2, <1>3 DEF Inv, TypeOK, Presents, Only, Places
  <1>5. Used'
    BY <1>2, <1>3, <1>4, NothingUsed, ChangesUnseen DEF Inv
  <1>6. StoodFor'
    BY <1>2, <1>4, StandsOn DEF Inv
  <1> QED BY <1>4, <1>5, <1>6 DEF Inv

\* The token is marked, and is not live from here on.
LEMMA MarkStep ==
  ASSUME Inv, NEW r \in Requests, MarkTokenAsUsed(r)
  PROVE  Inv'
  <1>1. TimeoutTypeOK'
    BY GoesTypes DEF Inv, TypeOK, MarkTokenAsUsed
  <1>2. /\ at[r] = "mark" /\ at' = [at EXCEPT ![r] = "answer"]
        /\ presented' = [presented EXCEPT ![r] = NoToken]
        /\ live' = live \ {presented[r]} /\ UNCHANGED <<found, uses, unmarked>>
    BY DEF MarkTokenAsUsed, Goes, Forgets
  <1>3. TypeOK' /\ Presents' /\ Only(r) /\ at'[r] = "answer"
    BY <1>1, <1>2 DEF Inv, TypeOK, Presents, Only, Places
  <1>4. Used'
    BY <1>2, <1>3, NothingUsed DEF Inv
  <1>5. StoodFor'
    BY <1>2, <1>3, StandsOn DEF Inv
  <1> QED BY <1>3, <1>4, <1>5 DEF Inv

\* The mark is lost, and counted as such.
LEMMA MarkLostStep ==
  ASSUME Inv, NEW r \in Requests, MarkLost(r)
  PROVE  Inv'
  <1>1. TimeoutTypeOK'
    BY GoesTypes DEF Inv, TypeOK, MarkLost
  <1>2. /\ at[r] = "mark" /\ at' = [at EXCEPT ![r] = "answer"]
        /\ presented' = [presented EXCEPT ![r] = NoToken]
        /\ unmarked' = [unmarked EXCEPT ![presented[r]] = @ + 1]
        /\ UNCHANGED <<live, found, uses>>
    BY DEF MarkLost, Goes, Forgets
  <1>3. TypeOK' /\ Presents' /\ Only(r) /\ at'[r] = "answer"
    BY <1>1, <1>2 DEF Inv, TypeOK, Presents, Only, Places
  <1>4. Used'
    BY <1>2, <1>3, MarkMissed DEF Inv
  <1>5. StoodFor'
    BY <1>2, <1>3, StandsOn DEF Inv
  <1> QED BY <1>3, <1>4, <1>5 DEF Inv

\* A handler panics; a mark that was due is lost.
LEMMA PanicStep ==
  ASSUME Inv, NEW r \in Requests, HandlerPanics(r)
  PROVE  Inv'
  <1>1. TimeoutTypeOK'
    BY PanicTypes DEF Inv, TypeOK, HandlerPanics
  <1>2. /\ at' = [at EXCEPT ![r] = "end"]
        /\ presented' = [presented EXCEPT ![r] = NoToken]
        /\ found' = [found EXCEPT ![r] = {}]
        /\ unmarked' = IF at[r] = "mark"
                       THEN [unmarked EXCEPT ![presented[r]] = @ + 1] ELSE unmarked
        /\ UNCHANGED <<live, uses>>
    BY DEF HandlerPanics, Panic, Forgets
  <1>3. TypeOK' /\ Presents' /\ Only(r) /\ at'[r] = "end"
    BY <1>1, <1>2 DEF Inv, TypeOK, Presents, Only, Places
  <1>4. Used'
    <2>1. CASE at[r] = "mark"
      BY <1>2, <1>3, <2>1, MarkMissed DEF Inv
    <2>2. CASE at[r] # "mark"
      BY <1>2, <1>3, <2>2, NothingUsed DEF Inv
    <2> QED BY <2>1, <2>2
  <1>5. StoodFor'
    BY <1>2, <1>3, StandsOn DEF Inv
  <1> QED BY <1>3, <1>4, <1>5 DEF Inv

\* The middleware touches no token.
LEMMA MiddlewareStep ==
  ASSUME Inv, NEW r \in Requests, Middleware(r), UNCHANGED tokenVars
  PROVE  Inv'
  <1>1. TimeoutTypeOK'
    BY MiddlewareTypes DEF Inv, TypeOK
  <1>2. at' = at \/ (at[r] = "answer" /\ at' = [at EXCEPT ![r] = "end"])
    BY DEF Middleware, Deadline, ReturnDone, ReturnTimeout, WriteHeader, WriteBody
  <1>3. /\ TypeOK' /\ Presents' /\ Only(r)
        /\ at'[r] = at[r] \/ (at[r] = "answer" /\ at'[r] = "end")
    BY <1>1, <1>2 DEF Inv, TypeOK, Presents, Only, tokenVars, Places
  <1>4. Used'
    BY <1>3, NothingUsed DEF Inv, tokenVars
  <1>5. StoodFor'
    BY <1>3, StandsOn DEF Inv, tokenVars
  <1> QED BY <1>3, <1>4, <1>5 DEF Inv

\* A token expires, or nothing happens.
LEMMA StillStep ==
  ASSUME Inv, live' \subseteq live,
         UNCHANGED <<timeoutVars, presented, found, uses, unmarked>>
  PROVE  Inv'
  <1>1. TypeOK' /\ Presents' /\ (\A r \in Requests : Only(r))
    BY DEF Inv, TypeOK, Presents, Only, TimeoutTypeOK, timeoutVars, writerVars
  <1>2. at' = at /\ presented' = presented /\ found' = found
    BY DEF timeoutVars
  <1>3. Used'
    <2> SUFFICES ASSUME NEW t \in Tokens
                 PROVE  Fair(t \in live', uses[t], unmarked[t],
                             Held(at, presented, t, "mark"),
                             Held(at, presented, t, "update"))
      BY <1>2 DEF Used
    <2>1. /\ Held(at, presented, t, "mark") \in Nat
          /\ Held(at, presented, t, "update") \in Nat /\ N \in Nat
          /\ Held(at, presented, t, "mark") + Held(at, presented, t, "update") <= N
      BY HeldType, HeldTwo
    <2>2. /\ uses[t] \in Nat /\ unmarked[t] \in Nat
          /\ Fair(t \in live, uses[t], unmarked[t],
                  Held(at, presented, t, "mark"), Held(at, presented, t, "update"))
      BY DEF Inv, TypeOK, Used
    <2>3. CASE t \in live'
      BY <2>2, <2>3 DEF Fair
    <2>4. CASE t \notin live'
      BY <2>1, <2>2, <2>4 DEF Fair
    <2> QED BY <2>3, <2>4
  <1>4. StoodFor'
    <2>1. PICK f : Stands(f, live, at, found)
      BY DEF Inv, StoodFor
    <2>2. Stands([t \in live' |-> f[t]], live', at', found')
      BY <1>2, <2>1 DEF Stands
    <2> QED BY <2>2 DEF StoodFor
  <1> QED BY <1>1, <1>3, <1>4 DEF Inv

\* There are no tokens.
LEMMA InvInit == Init => Inv
  <1> SUFFICES ASSUME Init PROVE Inv
    OBVIOUS
  <1>1. TypeOK
    BY DEF Init, TimeoutInit, TypeOK, TimeoutTypeOK, WorkStates, Parts, Places
  <1>2. Presents
    BY DEF Init, TimeoutInit, Presents
  <1>3. Used
    <2> SUFFICES ASSUME NEW t \in Tokens
                 PROVE  Fair(t \in live, uses[t], unmarked[t],
                             Held(at, presented, t, "mark"),
                             Held(at, presented, t, "update"))
      BY DEF Used
    <2>1. /\ Held(at, presented, t, "mark") \in Nat
          /\ Held(at, presented, t, "update") \in Nat /\ N \in Nat
          /\ Held(at, presented, t, "mark") + Held(at, presented, t, "update") <= N
      BY HeldType, HeldTwo
    <2>2. t \notin live /\ uses[t] = 0 /\ unmarked[t] = 0
      BY DEF Init
    <2> QED BY <2>1, <2>2 DEF Fair
  <1>4. Stands([t \in {} |-> NoToken], live, at, found)
    BY DEF Init, Stands
  <1> QED BY <1>1, <1>2, <1>3, <1>4 DEF Inv, StoodFor

\* Every step keeps the invariant: one lemma for each kind of step.
LEMMA InvNext == Inv /\ [Next]_vars => Inv'
  <1> SUFFICES ASSUME Inv, [Next]_vars PROVE Inv'
    OBVIOUS
  <1>1. ASSUME NEW r \in Requests, ResetHandler(r) PROVE Inv'
    BY <1>1, BeginForgotStep, BeginResetStep, InvalidateStep, CommitStep,
       RefusedStep, ValidateStep, UpdateStep, UpdateLostStep, MarkStep,
       MarkLostStep, PanicStep DEF ResetHandler
  <1>2. ASSUME NEW r \in Requests, Middleware(r), UNCHANGED tokenVars PROVE Inv'
    BY <1>2, MiddlewareStep
  <1>3. ASSUME NEW t \in Tokens, Expire(t) PROVE Inv'
    BY <1>3, StillStep DEF Expire
  <1>4. CASE UNCHANGED vars
    BY <1>4, StillStep DEF vars, tokenVars
  <1> QED BY <1>1, <1>2, <1>3, <1>4 DEF Next

\* The invariant holds of tokens in every behaviour (ResetPasswordHandler).
THEOREM Invariance == Spec => []Inv
  BY InvInit, InvNext, PTL DEF Spec

\* Tokens, what requests hold of them, and the goroutines keep their types
\* (reset_token.go).
THEOREM TypeCorrect == Spec => []TypeOK
  <1>1. Inv => TypeOK
    BY DEF Inv
  <1> QED BY <1>1, Invariance, PTL

\* A token changes the password no more often than requests are in progress and
\* marks are lost (ResetPasswordHandler).
THEOREM UsesAreBounded == Spec => []UsesBounded
  <1>1. Inv => UsesBounded
    <2> SUFFICES ASSUME Inv, NEW t \in Tokens
                 PROVE  uses[t] <= Cardinality(Requests) + unmarked[t]
      BY DEF UsesBounded
    <2>1. /\ Held(at, presented, t, "mark") \in Nat
          /\ Held(at, presented, t, "update") \in Nat /\ N \in Nat
          /\ Held(at, presented, t, "mark") + Held(at, presented, t, "update") <= N
      BY HeldType, HeldTwo
    <2>2. /\ uses[t] \in Nat /\ unmarked[t] \in Nat
          /\ Fair(t \in live, uses[t], unmarked[t],
                  Held(at, presented, t, "mark"), Held(at, presented, t, "update"))
      BY DEF Inv, TypeOK, Used
    <2>3. uses[t] <= N + unmarked[t]
      BY <2>1, <2>2 DEF Fair
    <2> QED BY <2>3 DEF N
  <1> QED BY <1>1, Invariance, PTL

\* No more tokens are live than requests can have created at one time
\* (CreateResetToken).
THEOREM FewTokens == Spec => []LiveBounded
  <1>1. Inv => LiveBounded
    <2> SUFFICES ASSUME Inv PROVE LiveBounded
      OBVIOUS
    <2>1. PICK f : Stands(f, live, at, found)
      BY DEF Inv, StoodFor
    <2>2. IsFiniteSet(live) /\ IsFiniteSet(Requests)
      BY TokensAssumption, RequestsAssumption, FS_Subset DEF Inv, TypeOK
    <2>3. Cardinality(live) \in Nat /\ Cardinality(Requests) \in Nat
      BY <2>2, FS_CardinalityType
    <2>4. ~(Cardinality(Requests) < Cardinality(live))
      BY <2>1, <2>2, FS_PigeonHole DEF Stands
    <2> QED BY <2>3, <2>4 DEF LiveBounded
  <1> QED BY <1>1, Invariance, PTL

\* The handlers of forgotten passwords are of the form that the timeout is about,
\* so that what holds around any handler holds around them
\* (ForgotPasswordHandler, ResetPasswordHandler behind TimeoutMiddleware).
THEOREM ResetIsAHandler == Spec => TimeoutSpec(Places)
  <1>1. Init => TimeoutInit
    BY DEF Init
  <1>2. [Next]_vars => [TimeoutNext(Places)]_timeoutVars
    <2> SUFFICES ASSUME Next, ~UNCHANGED timeoutVars PROVE TimeoutNext(Places)
      BY DEF vars
    <2>1. ASSUME NEW r \in Requests, ResetHandler(r) PROVE TimeoutNext(Places)
      <3>1. \/ \E first \in Places \ {"answer", "end"} : Serve(r, first)
            \/ \E from \in Places \ {"answer", "end"}, to \in Places \ {"end"} :
                 Goes(r, from, to)
            \/ Panic(r)
        BY <2>1 DEF ResetHandler, BeginForgot, Invalidate, Commit, NotCreated,
             BeginReset, ValidateResetToken, NotValidated, UpdatePassword,
             UpdateLost, MarkTokenAsUsed, MarkLost, HandlerPanics, Places
      <3> QED BY <3>1 DEF TimeoutNext
    <2>2. ASSUME NEW r \in Requests, Middleware(r) PROVE TimeoutNext(Places)
      BY <2>2 DEF TimeoutNext
    <2>3. ASSUME NEW t \in Tokens, Expire(t) PROVE UNCHANGED timeoutVars
      BY <2>3 DEF Expire
    <2> QED BY <2>1, <2>2, <2>3 DEF Next
  <1> QED BY <1>1, <1>2, PTL DEF Spec, TimeoutSpec
=============================================================================

------------------------- MODULE RateLimiterProofs --------------------------
(* Proofs about RateLimiter, for every number of requests and every limit.  *)
EXTENDS RateLimiter, FiniteSetTheorems, TLAPS

-----------------------------------------------------------------------------
(* While there is a key, two amounts bound what can still be counted in it: *)
(* what the present round has room for, and a round for each request that   *)
(* is about to make the key again.                                          *)

M == maxAttempts
n == Cardinality(Requests)

\* How many requests are at place x.
Number(a, x) == Cardinality({r \in Requests : a[r] = x})

\* Room in a key of count c, when d requests are about to create one and i have
\* found room: until it is full, and then for those that found room before.
Room(c, d, i) == IF c < M THEN (M - c) + (n - d) - 1 ELSE i

\* Twice the room of d rounds, each with one request fewer outside of it.
Rounds(d) == 2 * d * (M + n - 1) - d * (d - 1)

\* What the SETs that were sent again have made room for.
Extra(s) == 2 * s * (M + n - 3)

Enough(c, k, d, i, s) ==
  c > 0 => 2 * k + 2 * Room(c, d, i) + Rounds(d) <= Rounds(n) + Extra(s)

Inv ==
  TypeOK /\ Enough(count, counted, Number(at, "create"), Number(at, "incr"), resent)

-----------------------------------------------------------------------------
(* Arithmetic.                                                              *)

\* The constants are numbers.
LEMMA Constants == M \in Nat /\ M >= 2 /\ n \in Nat
  BY LimitAssumption, RequestsAssumption, FS_CardinalityType DEF M, n

\* The last of d rounds has room for the limit and for the requests outside.
LEMMA OneRound ==
  ASSUME NEW d \in Nat, d >= 1
  PROVE  /\ Rounds(d) \in Int /\ Rounds(d - 1) \in Int
         /\ Rounds(d) = Rounds(d - 1) + 2 * (M + n - d)
  <1> DEFINE A == M + n - 1
  <1>1. A \in Int
    BY Constants
  <1> HIDE DEF A
  <1>2. 2 * d * A - d * (d - 1)
          = (2 * (d - 1) * A - (d - 1) * ((d - 1) - 1)) + 2 * (A - d + 1)
    BY <1>1
  <1>3. A - d + 1 = M + n - d
    BY Constants DEF A
  <1>4. 2 * d * A - d * (d - 1) \in Int
        /\ 2 * (d - 1) * A - (d - 1) * ((d - 1) - 1) \in Int
    BY <1>1
  <1> QED BY <1>2, <1>3, <1>4 DEF Rounds, A

\* More rounds have more room.
LEMMA MoreRounds ==
  ASSUME NEW d \in Nat, NEW e \in Nat, d <= e, e <= n
  PROVE  /\ Rounds(d) \in Int /\ Rounds(e) \in Int
         /\ Rounds(d) <= Rounds(e)
  <1> DEFINE A == M + n - 1
             g == e - d
             f == 2 * A - (e + d) + 1
  <1>1. A \in Int /\ g \in Nat /\ f \in Nat
    BY Constants
  <1>2. (2 * e * A - e * (e - 1)) - (2 * d * A - d * (d - 1)) = g * f
    <2> HIDE DEF A
    <2> QED BY <1>1
  <1> HIDE DEF A, f, g
  <1>3. g * f >= 0
    BY <1>1
  <1>4. 2 * e * A - e * (e - 1) \in Int /\ 2 * d * A - d * (d - 1) \in Int
    BY <1>1
  <1> QED BY <1>2, <1>3, <1>4 DEF Rounds, A

\* There is room, or none.
LEMMA SomeRounds ==
  ASSUME NEW d \in Nat, d <= n
  PROVE  /\ Rounds(d) \in Int /\ Rounds(n) \in Int
         /\ 0 <= Rounds(d) /\ Rounds(d) <= Rounds(n)
  <1>1. Rounds(0) = 0
    BY Constants DEF Rounds
  <1>2. Rounds(0) <= Rounds(d)
    BY MoreRounds
  <1>3. Rounds(d) \in Int /\ Rounds(n) \in Int /\ Rounds(d) <= Rounds(n)
    BY MoreRounds, Constants
  <1> QED BY <1>1, <1>2, <1>3

\* A command is sent again: for a request there is.
LEMMA OneExtra ==
  ASSUME NEW s \in Nat
  PROVE  /\ Extra(s) \in Int /\ Extra(s + 1) \in Int
         /\ Extra(s + 1) = Extra(s) + 2 * (M + n - 3)
         /\ Extra(0) = 0
         /\ n >= 1 => Extra(s) >= 0
  <1> DEFINE Q == M + n - 3
  <1>1. Q \in Int /\ (n >= 1 => Q >= 0)
    BY Constants
  <1> HIDE DEF Q
  <1>2. 2 * s * Q \in Int /\ 2 * (s + 1) * Q \in Int
        /\ 2 * (s + 1) * Q = 2 * s * Q + 2 * Q /\ 2 * 0 * Q = 0
    BY <1>1
  <1>3. Q >= 0 => 2 * s * Q >= 0
    BY <1>1
  <1> QED BY <1>1, <1>2, <1>3 DEF Extra, Q

-----------------------------------------------------------------------------
(* Counting.                                                                *)

\* There are finitely many requests.
LEMMA NumberType ==
  ASSUME NEW a, NEW x
  PROVE  Number(a, x) \in Nat
  BY RequestsAssumption, FS_Subset, FS_CardinalityType DEF Number

\* A request is at one place.
LEMMA NumberTwo ==
  ASSUME NEW a
  PROVE  Number(a, "create") + Number(a, "incr") <= n
  <1> DEFINE C == {r \in Requests : a[r] = "create"}
             I == {r \in Requests : a[r] = "incr"}
  <1>1. C \cap I = {} /\ C \cup I \subseteq Requests
    OBVIOUS
  <1>2. IsFiniteSet(C) /\ IsFiniteSet(I)
    BY RequestsAssumption, FS_Subset
  <1>3. Number(a, "create") = Cardinality(C) /\ Number(a, "incr") = Cardinality(I)
    BY DEF Number
  <1> HIDE DEF C, I
  <1>4. Cardinality(C) \in Nat /\ Cardinality(I) \in Nat
    BY <1>2, FS_CardinalityType
  <1>5. Cardinality(C \cup I)
          = Cardinality(C) + Cardinality(I) - Cardinality(C \cap I)
    BY <1>2, FS_Union
  <1>6. Cardinality(C \cap I) = 0
    BY <1>1, FS_EmptySet
  <1>7. Cardinality(C \cup I) <= Cardinality(Requests)
    BY <1>1, RequestsAssumption, FS_Subset
  <1> QED BY <1>3, <1>4, <1>5, <1>6, <1>7 DEF n

\* What a request that moves does to the number at a place.
LEMMA NumberMoves ==
  ASSUME at \in [Requests -> Places], NEW r \in Requests, NEW from, NEW to,
         Goes(r, from, to), NEW x
  PROVE  /\ from = x /\ to # x => Number(at', x) = Number(at, x) - 1
         /\ from # x /\ to = x => Number(at', x) = Number(at, x) + 1
         /\ from # x /\ to # x => Number(at', x) = Number(at, x)
  <1> DEFINE A == {s \in Requests : at[s] = x}
             B == {s \in Requests : at'[s] = x}
  <1>1. IsFiniteSet(A)
    BY RequestsAssumption, FS_Subset
  <1>2. Number(at, x) = Cardinality(A) /\ Number(at', x) = Cardinality(B)
    BY DEF Number
  <1>3. from = x /\ to # x => r \in A /\ B = A \ {r}
    BY DEF Goes
  <1>4. from # x /\ to = x => r \notin A /\ B = A \cup {r}
    BY DEF Goes
  <1>5. from # x /\ to # x => B = A
    BY DEF Goes
  <1> HIDE DEF A, B
  <1>6. r \in A => Cardinality(A \ {r}) = Cardinality(A) - 1
    BY <1>1, FS_RemoveElement
  <1>7. r \notin A => Cardinality(A \cup {r}) = Cardinality(A) + 1
    BY <1>1, FS_AddElement
  <1> QED BY <1>2, <1>3, <1>4, <1>5, <1>6, <1>7

-----------------------------------------------------------------------------
(* What each kind of step does to the amounts.  c is the count, k how many  *)
(* were counted, d and i the requests that are about to create or to count, *)
(* s the commands that were sent again.                                     *)

Amounts(c, k, d, i, s) ==
  /\ c \in Nat /\ k \in Nat /\ d \in Nat /\ i \in Nat /\ s \in Nat
  /\ d + i <= n
  /\ c = 0 => k = 0 /\ s = 0
  /\ Enough(c, k, d, i, s)

\* One that was about to create does not.
LEMMA NotCreated ==
  ASSUME NEW c, NEW k, NEW d, NEW i, NEW s, Amounts(c, k, d, i, s), d >= 1
  PROVE  Enough(c, k, d - 1, i, s)
  <1>1. /\ Rounds(d) \in Int /\ Rounds(d - 1) \in Int /\ Rounds(n) \in Int
        /\ Rounds(d) = Rounds(d - 1) + 2 * (M + n - d) /\ Extra(s) \in Int
    BY OneRound, SomeRounds, OneExtra, Constants DEF Amounts
  <1> QED BY <1>1, Constants DEF Enough, Room, Amounts

\* One creates the key, whatever was in it.
LEMMA Created ==
  ASSUME NEW c, NEW k, NEW d, NEW i, NEW s, Amounts(c, k, d, i, s), d >= 1
  PROVE  Enough(1, k + 1, d - 1, i, s)
  <1>1. /\ Rounds(d) \in Int /\ Rounds(d - 1) \in Int /\ Rounds(n) \in Int
        /\ Rounds(d) = Rounds(d - 1) + 2 * (M + n - d)
        /\ Rounds(d) <= Rounds(n)
    BY OneRound, SomeRounds, Constants DEF Amounts
  <1>2. Room(1, d - 1, i) = (M - 1) + (n - (d - 1)) - 1
    BY Constants DEF Room
  <1>3. c > 0 => Room(c, d, i) \in Int /\ Room(c, d, i) >= 0
    BY Constants DEF Room, Amounts
  <1>4. Extra(s) \in Int /\ Extra(0) = 0
    BY OneExtra DEF Amounts
  <1>5. CASE c = 0
    BY <1>1, <1>2, <1>4, <1>5, Constants DEF Enough, Amounts
  <1>6. CASE c > 0
    BY <1>1, <1>2, <1>3, <1>4, <1>6, Constants DEF Enough, Amounts
  <1> QED BY <1>5, <1>6 DEF Amounts

\* One that is about to create does, and will again.
LEMMA CreatedAgain ==
  ASSUME NEW c, NEW k, NEW d, NEW i, NEW s, Amounts(c, k, d, i, s), d >= 1
  PROVE  Enough(1, k, d, i, s + 1)
  <1>1. /\ Rounds(d) \in Int /\ Rounds(n) \in Int /\ Rounds(d) <= Rounds(n)
    BY SomeRounds, Constants DEF Amounts
  <1>2. Room(1, d, i) = (M - 1) + (n - d) - 1
    BY Constants DEF Room
  <1>3. c > 0 => Room(c, d, i) \in Int /\ Room(c, d, i) >= 0
    BY Constants DEF Room, Amounts
  <1>4. /\ Extra(s) \in Int /\ Extra(s) >= 0
        /\ Extra(s + 1) = Extra(s) + 2 * (M + n - 3)
    BY OneExtra, Constants DEF Amounts
  <1>5. CASE c = 0
    BY <1>1, <1>2, <1>4, <1>5, Constants DEF Enough, Amounts
  <1>6. CASE c > 0
    BY <1>1, <1>2, <1>3, <1>4, <1>6, Constants DEF Enough, Amounts
  <1> QED BY <1>5, <1>6 DEF Amounts

\* One that had found room is counted.
LEMMA CountedOne ==
  ASSUME NEW c, NEW k, NEW d, NEW i, NEW s, Amounts(c, k, d, i, s), i >= 1
  PROVE  Enough(c + 1, k + 1, d, i - 1, s)
  <1>1. d + 1 \in Nat /\ d + 1 >= 1 /\ d + 1 <= n /\ (d + 1) - 1 = d
    BY Constants DEF Amounts
  <1>2. /\ Rounds(d) \in Int /\ Rounds(d + 1) \in Int /\ Rounds(n) \in Int
        /\ Rounds(d + 1) = Rounds(d) + 2 * (M + n - (d + 1))
        /\ Rounds(d + 1) <= Rounds(n)
        /\ Extra(s) \in Int /\ Extra(0) = 0
    BY <1>1, OneRound, SomeRounds, OneExtra, Constants DEF Amounts
  <1>3. CASE c = 0
    BY <1>2, <1>3, Constants DEF Enough, Room, Amounts
  <1>4. CASE c > 0
    BY <1>2, <1>4, Constants DEF Enough, Room, Amounts
  <1> QED BY <1>3, <1>4 DEF Amounts

\* One that has found room is counted in the key, and will be again.
LEMMA CountedAgain ==
  ASSUME NEW c, NEW k, NEW d, NEW i, NEW s, Amounts(c, k, d, i, s), i >= 1
  PROVE  Enough(c + 1, k, d, i, s + 1)
  <1>1. d + 1 \in Nat /\ d + 1 >= 1 /\ d + 1 <= n /\ (d + 1) - 1 = d
    BY Constants DEF Amounts
  <1>2. /\ Rounds(d) \in Int /\ Rounds(d + 1) \in Int /\ Rounds(n) \in Int
        /\ Rounds(d + 1) = Rounds(d) + 2 * (M + n - (d + 1))
        /\ Rounds(d + 1) <= Rounds(n)
        /\ Extra(s) \in Int /\ Extra(0) = 0
        /\ Extra(s + 1) = Extra(s) + 2 * (M + n - 3)
    BY <1>1, OneRound, SomeRounds, OneExtra, Constants DEF Amounts
  <1>3. CASE c = 0
    BY <1>1, <1>2, <1>3, Constants DEF Enough, Room, Amounts
  <1>4. CASE c > 0
    BY <1>1, <1>2, <1>4, Constants DEF Enough, Room, Amounts
  <1> QED BY <1>3, <1>4 DEF Amounts

\* One that had found room goes without being counted.
LEMMA NotCounted ==
  ASSUME NEW c, NEW k, NEW d, NEW i, NEW s, Amounts(c, k, d, i, s), i >= 1
  PROVE  Enough(c, k, d, i - 1, s)
  <1>1. Rounds(d) \in Int /\ Rounds(n) \in Int /\ Extra(s) \in Int
    BY SomeRounds, OneExtra, Constants DEF Amounts
  <1> QED BY <1>1, Constants DEF Enough, Room, Amounts

\* One finds room: the key is not full.
LEMMA FoundRoom ==
  ASSUME NEW c, NEW k, NEW d, NEW i, NEW s, Amounts(c, k, d, i, s), c < M
  PROVE  Enough(c, k, d, i + 1, s)
  <1>1. Room(c, d, i + 1) = Room(c, d, i)
    BY DEF Room
  <1> QED BY <1>1 DEF Enough, Amounts

-----------------------------------------------------------------------------
(* The invariant is inductive.                                              *)

\* A request that moves is at a place of the check.
LEMMA GoesType ==
  ASSUME at \in [Requests -> Places], NEW r \in Requests,
         NEW from, NEW to \in Places, Goes(r, from, to)
  PROVE  at' \in [Requests -> Places]
  BY DEF Goes

\* The amounts of a state of the invariant.
LEMMA AmountsNow ==
  ASSUME Inv
  PROVE  Amounts(count, counted, Number(at, "create"), Number(at, "incr"), resent)
  BY NumberType, NumberTwo DEF Inv, TypeOK, Amounts

\* What SET leaves keeps its types.
LEMMA SetsTypes ==
  ASSUME Sets, at' \in [Requests -> Places], counted' \in Nat, resent' \in Nat
  PROVE  TypeOK'
  <1>1. count' = 1 /\ count' \in Nat
    BY DEF Sets
  <1>2. life' = TRUE /\ endless' = FALSE
    BY Zenon DEF Sets
  <1>3. 1 # 0
    OBVIOUS
  <1> QED BY <1>1, <1>2, <1>3, Zenon DEF TypeOK

\* SET begins a round, and one request less is about to begin one.
LEMMA CreateStep ==
  ASSUME Inv, NEW r \in Requests, Create(r)
  PROVE  Inv'
  <1>1. TypeOK'
    <2>1. counted' \in Nat /\ resent' \in Nat
      BY DEF Inv, TypeOK, Create
    <2>2. at' \in [Requests -> Places]
      BY GoesType DEF Inv, TypeOK, Create, Ends, Places
    <2> QED BY <2>1, <2>2, SetsTypes DEF Create
  <1>2. /\ Number(at', "create") = Number(at, "create") - 1
        /\ Number(at', "incr") = Number(at, "incr")
    BY NumberMoves DEF Inv, TypeOK, Create, Ends
  <1>3. Number(at, "create") >= 1
    BY <1>2, NumberType
  <1>4. Enough(1, counted + 1, Number(at, "create") - 1, Number(at, "incr"), resent)
    BY <1>3, AmountsNow, Created
  <1>5. count' = 1 /\ counted' = counted + 1 /\ resent' = resent
    BY DEF Create, Sets
  <1> QED BY <1>1, <1>2, <1>4, <1>5 DEF Inv

\* A request is at the place where it is.
LEMMA NumberHere ==
  ASSUME NEW r \in Requests
  PROVE  Number(at, at[r]) >= 1
  <1> DEFINE A == {q \in Requests : at[q] = at[r]}
  <1>1. r \in A /\ IsFiniteSet(A)
    BY RequestsAssumption, FS_Subset
  <1> HIDE DEF A
  <1>2. Cardinality(A) \in Nat /\ Cardinality(A) # 0
    BY <1>1, FS_CardinalityType, FS_EmptySet
  <1>3. Cardinality(A) >= 1
    BY <1>2
  <1> QED BY <1>3 DEF Number, A

\* SET begins a round, and the same request is about to begin another.
LEMMA CreateAgainStep ==
  ASSUME Inv, NEW r \in Requests, CreateAgain(r)
  PROVE  Inv'
  <1>1. /\ at' = at /\ at[r] = "create" /\ count' = 1
        /\ counted' = counted /\ resent' = resent + 1
    BY DEF CreateAgain, SentAgain, Sets
  <1>2. TypeOK'
    <2>1. counted' \in Nat /\ resent' \in Nat /\ at' \in [Requests -> Places]
      BY <1>1 DEF Inv, TypeOK
    <2> QED BY <2>1, SetsTypes DEF CreateAgain
  <1>3. Number(at, "create") >= 1
    BY <1>1, NumberHere
  <1>4. Enough(1, counted, Number(at, "create"), Number(at, "incr"), resent + 1)
    BY <1>3, AmountsNow, CreatedAgain
  <1> QED BY <1>1, <1>2, <1>4 DEF Inv

\* A request leaves a place where it was not about to create or to count, and
\* the key stays as it is.
LEMMA ElsewhereStep ==
  ASSUME Inv, NEW r \in Requests, NEW from, NEW to,
         from \notin {"create", "incr"}, to # "create", to = "incr" => count < M,
         Goes(r, from, to), TypeOK', count' = count, counted' = counted,
         resent' = resent
  PROVE  Inv'
  <1>1. /\ Number(at', "create") = Number(at, "create")
        /\ Number(at', "incr")
             = IF to = "incr" THEN Number(at, "incr") + 1 ELSE Number(at, "incr")
    BY NumberMoves DEF Inv, TypeOK
  <1>2. CASE to = "incr"
    <2>1. Enough(count, counted, Number(at, "create"), Number(at, "incr") + 1,
                 resent)
      BY <1>2, AmountsNow, FoundRoom
    <2> QED BY <1>1, <1>2, <2>1 DEF Inv
  <1>3. CASE to # "incr"
    BY <1>1, <1>3 DEF Inv
  <1> QED BY <1>2, <1>3

\* A request that found no key is about to create one; another is about to read.
LEMMA ExistsStep ==
  ASSUME Inv, NEW r \in Requests, Exists(r)
  PROVE  Inv'
  <1>1. TypeOK'
    BY DEF Inv, TypeOK, Exists, Goes, Places
  <1>2. CASE count = 0
    BY <1>1, <1>2 DEF Inv, Enough, Exists, TypeOK
  <1>3. CASE count # 0
    <2>1. Goes(r, "exists", "read") /\ count' = count /\ counted' = counted
          /\ resent' = resent
      BY <1>3 DEF Exists
    <2> QED BY <1>1, <2>1, ElsewhereStep
  <1> QED BY <1>2, <1>3

\* A request finds the key full, or room in it.
LEMMA ReadStep ==
  ASSUME Inv, NEW r \in Requests, Read(r)
  PROVE  Inv'
  <1>1. TypeOK'
    BY DEF Inv, TypeOK, Read, Goes, Places
  <1>2. CASE Reached(count)
    <2>1. Goes(r, "read", "exists") /\ count' = count /\ counted' = counted
          /\ resent' = resent
      BY <1>2 DEF Read
    <2> QED BY <1>1, <2>1, ElsewhereStep
  <1>3. CASE ~Reached(count)
    <2>1. Goes(r, "read", "incr") /\ count' = count /\ counted' = counted
          /\ resent' = resent
      BY <1>3 DEF Read
    <2>2. count < M
      BY <1>3, LimitAssumption DEF Reached, M, Inv, TypeOK
    <2> QED BY <1>1, <2>1, <2>2, ElsewhereStep
  <1> QED BY <1>2, <1>3

\* What INCR leaves keeps its types.
LEMMA IncrTypes ==
  ASSUME Inv, count' = count + 1, at' \in [Requests -> Places], counted' \in Nat,
         resent' \in Nat, life' = life,
         \/ endless' = endless
         \/ endless' = (endless \/ (count' = 2 /\ ~life))
  PROVE  TypeOK'
  <1>1. count' \in Nat /\ count' # 0
    BY DEF Inv, TypeOK
  <1>2. life' \in BOOLEAN /\ endless' \in BOOLEAN
    BY Zenon DEF Inv, TypeOK
  <1> QED BY <1>1, <1>2, Zenon DEF TypeOK

\* INCR, with or without an answer.
LEMMA IncrStep ==
  ASSUME Inv, NEW r \in Requests, Incr(r) \/ IncrUnanswered(r)
  PROVE  Inv'
  <1>1. count' = count + 1 /\ counted' = counted + 1 /\ resent' = resent
    BY DEF Incr, IncrUnanswered, IncrUnheard
  <1>2. PICK to \in {"exists", "expire"} : Goes(r, "incr", to)
    BY DEF Incr, IncrUnanswered, Ends
  <1>3. TypeOK'
    <2>1. counted' \in Nat /\ resent' \in Nat
      BY <1>1 DEF Inv, TypeOK
    <2>2. at' \in [Requests -> Places]
      BY <1>2, GoesType DEF Inv, TypeOK, Places
    <2>3. /\ life' = life
          /\ \/ endless' = endless
             \/ endless' = (endless \/ (count' = 2 /\ ~life))
      BY Zenon DEF Incr, IncrUnanswered, IncrUnheard
    <2> QED BY <1>1, <2>1, <2>2, <2>3, IncrTypes
  <1>4. /\ Number(at', "create") = Number(at, "create")
        /\ Number(at', "incr") = Number(at, "incr") - 1
    BY <1>2, NumberMoves DEF Inv, TypeOK
  <1>5. Number(at, "incr") >= 1
    BY <1>4, NumberType
  <1>6. Enough(count + 1, counted + 1, Number(at, "create"),
               Number(at, "incr") - 1, resent)
    BY <1>5, AmountsNow, CountedOne
  <1> QED BY <1>1, <1>3, <1>4, <1>6 DEF Inv

\* INCR, and the same request is about to send it again.
LEMMA IncrAgainStep ==
  ASSUME Inv, NEW r \in Requests, IncrAgain(r)
  PROVE  Inv'
  <1>1. /\ at' = at /\ at[r] = "incr" /\ count' = count + 1
        /\ counted' = counted /\ resent' = resent + 1
    BY DEF IncrAgain, SentAgain, IncrUnheard
  <1>2. TypeOK'
    <2>1. counted' \in Nat /\ resent' \in Nat /\ at' \in [Requests -> Places]
      BY <1>1 DEF Inv, TypeOK
    <2>2. life' = life /\ endless' = (endless \/ (count' = 2 /\ ~life))
      BY Zenon DEF IncrAgain, IncrUnheard
    <2> QED BY <1>1, <2>1, <2>2, IncrTypes
  <1>3. Number(at, "incr") >= 1
    BY <1>1, NumberHere
  <1>4. Enough(count + 1, counted, Number(at, "create"), Number(at, "incr"),
               resent + 1)
    BY <1>3, AmountsNow, CountedAgain
  <1> QED BY <1>1, <1>2, <1>4 DEF Inv

\* EXPIRE, done or lost, counts nothing.
LEMMA ExpireStep ==
  ASSUME Inv, NEW r \in Requests, Expire(r) \/ ExpireLost(r)
  PROVE  Inv'
  <1>1. TypeOK'
    <2>1. count' = count /\ counted' = counted
          /\ resent' = resent
      BY DEF Expire, ExpireLost
    <2>2. at' \in [Requests -> Places]
      BY GoesType DEF Inv, TypeOK, Expire, ExpireLost, Ends, Places
    <2>3. life' = (count > 0) \/ life' = life
      BY Zenon DEF Expire, ExpireLost
    <2>4. endless' = FALSE \/ endless' = (count > 0 /\ ~life)
      BY Zenon DEF Expire, ExpireLost
    <2>5. life' \in BOOLEAN /\ endless' \in BOOLEAN
      <3>1. (count > 0) \in BOOLEAN /\ (count > 0 /\ ~life) \in BOOLEAN
        OBVIOUS
      <3> QED BY <2>3, <2>4, <3>1, Zenon DEF Inv, TypeOK
    <2>6. count = 0 => ~(count > 0)
      OBVIOUS
    <2>7. count' = 0 => counted' = 0 /\ resent' = 0 /\ ~life' /\ ~endless'
      BY <2>1, <2>3, <2>4, <2>6, Zenon DEF Inv, TypeOK
    <2> QED BY <2>1, <2>2, <2>5, <2>7, Zenon DEF Inv, TypeOK
  <1>2. Goes(r, "expire", "exists") /\ count' = count /\ counted' = counted
        /\ resent' = resent
    BY DEF Expire, ExpireLost, Ends
  <1> QED BY <1>1, <1>2, ElsewhereStep

\* A request passes because of an error, and nothing is counted.
LEMMA UncountedStep ==
  ASSUME Inv, NEW r \in Requests, PassesUncounted(r)
  PROVE  Inv'
  <1>1. TypeOK'
    BY DEF Inv, TypeOK, PassesUncounted, Ends, Goes, Places
  <1>2. count' = count /\ counted' = counted /\ resent' = resent
    BY DEF PassesUncounted
  <1>3. CASE Ends(r, "create")
    <2>1. /\ Number(at', "create") = Number(at, "create") - 1
          /\ Number(at', "incr") = Number(at, "incr")
      BY <1>3, NumberMoves DEF Inv, TypeOK, Ends
    <2>2. Number(at, "create") >= 1
      BY <2>1, NumberType
    <2>3. Enough(count, counted, Number(at, "create") - 1, Number(at, "incr"),
                 resent)
      BY <2>2, AmountsNow, NotCreated
    <2> QED BY <1>1, <1>2, <2>1, <2>3 DEF Inv
  <1>4. CASE Ends(r, "read")
    BY <1>1, <1>2, <1>4, ElsewhereStep DEF Ends
  <1>5. CASE Ends(r, "incr")
    <2>1. /\ Number(at', "create") = Number(at, "create")
          /\ Number(at', "incr") = Number(at, "incr") - 1
      BY <1>5, NumberMoves DEF Inv, TypeOK, Ends
    <2>2. Number(at, "incr") >= 1
      BY <2>1, NumberType
    <2>3. Enough(count, counted, Number(at, "create"), Number(at, "incr") - 1,
                 resent)
      BY <2>2, AmountsNow, NotCounted
    <2> QED BY <1>1, <1>2, <2>1, <2>3 DEF Inv
  <1> QED BY <1>3, <1>4, <1>5 DEF PassesUncounted

\* The key expires, or a login or a logout clears it.
LEMMA GoneStep ==
  ASSUME Inv, KeyGone, UNCHANGED at
  PROVE  Inv'
  <1>1. TypeOK'
    BY Zenon DEF Inv, TypeOK, KeyGone
  <1>2. count' = 0
    BY DEF KeyGone
  <1> QED BY <1>1, <1>2 DEF Inv, Enough

\* There is no key, and nobody is on the way.
LEMMA InvInit == Init => Inv
  <1> SUFFICES ASSUME Init PROVE Inv
    OBVIOUS
  <1>1. TypeOK
    <2>1. "exists" \in Places
      BY DEF Places
    <2>2. 0 \in Nat
      OBVIOUS
    <2> QED BY <2>1, <2>2, Zenon DEF Init, TypeOK
  <1>2. count = 0
    BY DEF Init
  <1> QED BY <1>1, <1>2 DEF Inv, Enough

\* Every step keeps the invariant: one lemma for each kind of step.
LEMMA InvNext == Inv /\ [Next]_vars => Inv'
  <1> SUFFICES ASSUME Inv, [Next]_vars PROVE Inv'
    OBVIOUS
  <1>1. ASSUME NEW r \in Requests, Check(r) PROVE Inv'
    BY <1>1, ExistsStep, CreateStep, CreateAgainStep, ReadStep, IncrStep,
       IncrAgainStep, ExpireStep, UncountedStep DEF Check
  <1>2. CASE KeyExpires \/ ClearRateLimit
    BY <1>2, GoneStep DEF KeyExpires, ClearRateLimit
  <1>3. CASE UNCHANGED vars
    BY <1>3 DEF vars, Inv, TypeOK
  <1> QED BY <1>1, <1>2, <1>3 DEF Next

-----------------------------------------------------------------------------
(* The theorems.                                                            *)

\* The key, the checks and the histories are in the invariant in every
\* behaviour, with or without fairness (rate_limit.go).
THEOREM Invariance == Spec => []Inv
  BY InvInit, InvNext, PTL DEF Spec

\* The key and the checks keep their types, and nothing is left of a key that
\* has gone (RateLimit).
THEOREM TypeCorrect == Spec => []TypeOK
  <1>1. Inv => TypeOK
    BY DEF Inv
  <1> QED BY <1>1, Invariance, PTL

\* No more requests pass in the life of a key than n rounds of the limit and
\* n(n-1)/2 latecomers, and a round of the others for each command sent again,
\* for every number n of requests at a time and every limit (RateLimit,
\* checkRateLimit).
THEOREM LimitIsKept == Spec => []LimitHolds
  <1>1. Inv => LimitHolds
    <2> SUFFICES ASSUME Inv
                 PROVE  2 * counted <= 2 * n * M + n * (n - 1)
                                       + 2 * resent * (M + n - 3)
      BY DEF LimitHolds, n, M
    <2> DEFINE d == Number(at, "create")
               i == Number(at, "incr")
    <2>1. Amounts(count, counted, d, i, resent)
      BY AmountsNow
    <2> HIDE DEF d, i
    <2>2. Rounds(n) = 2 * n * M + n * (n - 1)
      <3>1. 2 * n * (M + n - 1) - n * (n - 1) = 2 * n * M + n * (n - 1)
        BY Constants
      <3> QED BY <3>1 DEF Rounds
    <2>3. Rounds(d) >= 0 /\ Rounds(d) \in Int /\ Rounds(n) \in Int
          /\ Rounds(n) >= 0
      <3>1. d \in Nat /\ d <= n
        BY <2>1, Constants DEF Amounts
      <3> QED BY <3>1, SomeRounds, Constants
    <2>4. count > 0 => Room(count, d, i) >= 0 /\ Room(count, d, i) \in Int
      BY <2>1, Constants DEF Room, Amounts
    <2>5. Extra(resent) \in Int /\ Extra(0) = 0
      BY <2>1, OneExtra DEF Amounts
    <2>6. CASE count = 0
      BY <2>1, <2>2, <2>3, <2>5, <2>6 DEF Amounts, Extra
    <2>7. CASE count > 0
      <3>1. 2 * counted <= Rounds(n) + Extra(resent)
        BY <2>1, <2>3, <2>4, <2>5, <2>7 DEF Amounts, Enough
      <3> QED BY <2>2, <3>1 DEF Extra
    <2> QED BY <2>1, <2>6, <2>7 DEF Amounts
  <1> QED BY <1>1, Invariance, PTL

-----------------------------------------------------------------------------
(* A key that counts without a life has its EXPIRE on the way, or lost it.  *)

LifeComes ==
  count >= 2 /\ ~life => endless \/ \E r \in Requests : at[r] = "expire"

\* Every step keeps it: the one that counts to two goes on to EXPIRE, and nobody
\* leaves from there without the life or the loss of it.
LEMMA StepLifeComes == Inv /\ LifeComes /\ [Next]_vars => LifeComes'
  <1> SUFFICES ASSUME Inv, LifeComes, [Next]_vars, count' >= 2, ~life', ~endless'
               PROVE  \E r \in Requests : at'[r] = "expire"
    BY DEF LifeComes
  <1>0. count \in Nat /\ at \in [Requests -> Places]
    BY DEF Inv, TypeOK
  <1>1. ASSUME NEW r \in Requests, NEW from, NEW to, Goes(r, from, to),
               from # "expire", UNCHANGED <<count, life, endless>>
        PROVE  \E q \in Requests : at'[q] = "expire"
    BY <1>0, <1>1 DEF LifeComes, Goes
  <1>2. ASSUME UNCHANGED at, count >= 2, UNCHANGED life, endless' = endless
        PROVE  \E q \in Requests : at'[q] = "expire"
    BY <1>2 DEF LifeComes
  <1>3. ASSUME NEW r \in Requests, Check(r)
        PROVE  \E q \in Requests : at'[q] = "expire"
    <2>1. CASE Exists(r) \/ Read(r) \/ PassesUncounted(r)
      BY <2>1, <1>1 DEF Exists, Read, PassesUncounted, Ends
    <2>2. CASE Create(r) \/ CreateAgain(r)
      BY <2>2 DEF Create, CreateAgain, Sets
    <2>3. CASE Incr(r)
      <3>1. CASE count + 1 = 2
        BY <1>0, <2>3, <3>1 DEF Incr, NeedsLife, Goes
      <3>2. CASE count + 1 # 2
        <4>1. count >= 2 /\ ~life /\ ~endless
          BY <1>0, <2>3, <3>2 DEF Incr
        <4> QED BY <1>0, <2>3, <4>1 DEF Incr, Goes, LifeComes
      <3> QED BY <3>1, <3>2
    <2>4. CASE IncrUnanswered(r) \/ IncrAgain(r)
      <3>1. count' = count + 1 /\ life' = life
        BY <2>4 DEF IncrUnanswered, IncrAgain, IncrUnheard
      <3>2. ~endless /\ ~(count' = 2 /\ ~life)
        BY <2>4 DEF IncrUnanswered, IncrAgain, IncrUnheard
      <3>3. count >= 2 /\ ~life
        BY <1>0, <3>1, <3>2
      <3>4. PICK q \in Requests : at[q] = "expire"
        BY <3>2, <3>3 DEF LifeComes
      <3>5. at'[q] = "expire"
        BY <1>0, <2>4, <3>4 DEF IncrUnanswered, IncrAgain, SentAgain, Ends, Goes
      <3> QED BY <3>5
    <2>5. count' = count => count > 0
      BY <1>0
    <2>6. ~Expire(r)
      <3>1. Expire(r) => count' = count /\ life' = (count > 0)
        BY Zenon DEF Expire
      <3> QED BY <2>5, <3>1, Zenon
    <2>7. ~ExpireLost(r)
      <3>1. ASSUME ExpireLost(r) PROVE count' = count /\ ~(count > 0 /\ ~life)
        <4>1. endless' = (count > 0 /\ ~life)
          BY <3>1 DEF ExpireLost
        <4> QED BY <3>1, <4>1, Zenon DEF ExpireLost
      <3>2. ASSUME ExpireLost(r) PROVE ~life
        BY <3>2 DEF ExpireLost
      <3> QED BY <2>5, <3>1, <3>2, Zenon
    <2> QED BY <1>3, <2>1, <2>2, <2>3, <2>4, <2>6, <2>7 DEF Check
  <1>4. CASE KeyExpires \/ ClearRateLimit
    BY <1>4 DEF KeyExpires, ClearRateLimit, KeyGone
  <1>5. CASE UNCHANGED vars
    BY <1>5 DEF vars, LifeComes
  <1> QED BY <1>3, <1>4, <1>5 DEF Next

\* A client that is refused is waiting for something that can come: a full key
\* has a time to live, or a request is about to give it one, or the EXPIRE it
\* needed was lost (checkRateLimit, Incr and Expire of the Redis client).
THEOREM FullKeysCanEnd ==
  Spec => [](Reached(count) => life \/ endless \/ \E r \in Requests : at[r] = "expire")
  <1>1. Init => LifeComes
    BY DEF Init, LifeComes
  <1>2. Inv /\ LifeComes =>
          (Reached(count) => life \/ endless \/ \E r \in Requests : at[r] = "expire")
    BY LimitAssumption DEF Inv, TypeOK, LifeComes, Reached
  <1> QED BY <1>1, <1>2, StepLifeComes, Invariance, PTL DEF Spec
=============================================================================

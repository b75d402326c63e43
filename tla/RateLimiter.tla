---------------------------- MODULE RateLimiter -----------------------------
(***************************************************************************)
(* The limiter of the public routes: requests of one client and the key in *)
(* Redis that counts them.                                                 *)
(* Source: api/middleware/rate_limit.go, pkg/redis/client.go.              *)
(*                                                                         *)
(* A check is a sequence of Redis commands, and other requests, the expiry *)
(* of the key and a login that clears it come between them.  A command may *)
(* be refused by the breaker, run out of time, or be executed without an   *)
(* answer, and then be sent again; every error lets the request pass.      *)
(***************************************************************************)
EXTENDS Integers, FiniteSets

CONSTANTS
  Requests,     \* requests of the client at one time
  maxAttempts,  \* RateLimitLoginAttempts
  MaxResent     \* bound: commands sent again in the life of a key

\* With a limit of one, a key made by INCR would be full before it has a life.
ASSUME LimitAssumption == maxAttempts \in Nat /\ maxAttempts >= 2
ASSUME RequestsAssumption == IsFiniteSet(Requests) /\ MaxResent \in Nat

VARIABLES
  count,    \* the number in the key; 0 when there is no key
  life,     \* the key has a time to live
  at,       \* where the check of each request is
  counted,  \* history: requests let pass and counted since the key was made
  resent,   \* history: commands executed and sent again since then
  endless   \* history: the EXPIRE that this key needs was lost

vars == <<count, life, at, counted, resent, endless>>

Places == {"exists", "create", "read", "incr", "expire"}

TypeOK ==
  /\ count \in Nat /\ counted \in Nat /\ resent \in Nat
  /\ life \in BOOLEAN /\ endless \in BOOLEAN
  /\ at \in [Requests -> Places]
  /\ count = 0 => counted = 0 /\ resent = 0 /\ ~life /\ ~endless

Init ==
  /\ count = 0 /\ counted = 0 /\ resent = 0
  /\ life = FALSE /\ endless = FALSE
  /\ at = [r \in Requests |-> "exists"]

Goes(r, from, to) == at[r] = from /\ at' = [at EXCEPT ![r] = to]

\* The check is over; the next one begins with EXISTS.
Ends(r, from) == Goes(r, from, "exists")
-----------------------------------------------------------------------------
Exists(r) ==
  /\ Goes(r, "exists", IF count = 0 THEN "create" ELSE "read")
  /\ UNCHANGED <<count, life, counted, resent, endless>>

\* The key is made, or others' is overwritten with all that they counted in it.
Sets == count' = 1 /\ life' = TRUE /\ endless' = FALSE

Create(r) ==
  /\ Ends(r, "create")
  /\ Sets
  /\ counted' = counted + 1
  /\ UNCHANGED resent

\* The command of a request is executed, and as its answer is lost the library
\* sends it again.
SentAgain(r, from) ==
  /\ at[r] = from
  /\ resent < MaxResent /\ resent' = resent + 1
  /\ UNCHANGED <<at, counted>>

CreateAgain(r) == SentAgain(r, "create") /\ Sets

\* Mutant of Reached: > for >=.
ReachedOneMore(n) == n > maxAttempts

Reached(n) == n >= maxAttempts

\* GET, of a key that is still there; a full one is refused, with its TTL.
Read(r) ==
  /\ count > 0
  /\ Goes(r, "read", IF Reached(count) THEN "exists" ELSE "incr")
  /\ UNCHANGED <<count, life, counted, resent, endless>>

\* Mutant of NeedsLife: the key is taken to have the life of its SET.
NeedsLifeNever(n) == FALSE

\* What INCR returned tells whether EXPIRE follows.
NeedsLife(n) == n = 2

\* INCR makes the key when there is none.
Incr(r) ==
  /\ Goes(r, "incr", IF NeedsLife(count + 1) THEN "expire" ELSE "exists")
  /\ count' = count + 1 /\ counted' = counted + 1
  /\ UNCHANGED <<life, resent, endless>>

\* INCR, and the number it returns does not arrive: no EXPIRE follows from it.
IncrUnheard ==
  /\ count' = count + 1
  /\ endless' = (endless \/ (count' = 2 /\ ~life))
  /\ UNCHANGED life

IncrUnanswered(r) ==
  /\ Ends(r, "incr")
  /\ IncrUnheard
  /\ counted' = counted + 1
  /\ UNCHANGED resent

IncrAgain(r) == SentAgain(r, "incr") /\ IncrUnheard

Expire(r) ==
  /\ Ends(r, "expire")
  /\ life' = (count > 0) /\ endless' = FALSE
  /\ UNCHANGED <<count, counted, resent>>

\* EXPIRE is not executed; the request, which is counted, passes all the same.
ExpireLost(r) ==
  /\ Ends(r, "expire")
  /\ endless' = (count > 0 /\ ~life)
  /\ UNCHANGED <<count, life, counted, resent>>

\* A command is not executed, or GET finds no key: the request passes uncounted.
PassesUncounted(r) ==
  /\ Ends(r, "create") \/ Ends(r, "read") \/ Ends(r, "incr")
  /\ UNCHANGED <<count, life, counted, resent, endless>>

KeyGone ==
  count' = 0 /\ counted' = 0 /\ resent' = 0 /\ life' = FALSE /\ endless' = FALSE

KeyExpires == life /\ KeyGone /\ UNCHANGED at

\* Mutant of ClearRateLimit: the count is set to zero and the key stays.
ClearRateLimitToZero ==
  count' = 0 /\ counted' = 0 /\ resent' = 0 /\ UNCHANGED <<at, life, endless>>

\* A login with the right password, or a logout.
ClearRateLimit == KeyGone /\ UNCHANGED at

Check(r) ==
  \/ Exists(r) \/ Create(r) \/ CreateAgain(r) \/ Read(r)
  \/ Incr(r) \/ IncrUnanswered(r) \/ IncrAgain(r)
  \/ Expire(r) \/ ExpireLost(r)
  \/ PassesUncounted(r)

Next ==
  \/ \E r \in Requests : Check(r)
  \/ KeyExpires \/ ClearRateLimit

Spec == Init /\ [][Next]_vars

\* Redis expires keys, and a command ends, at the latest by its timeout.
Fairness ==
  /\ WF_vars(KeyExpires)
  /\ \A r \in Requests : WF_vars(Expire(r) \/ ExpireLost(r))

FairSpec == Spec /\ Fairness
-----------------------------------------------------------------------------
\* A request that found no key may set the count of all others back to one, and
\* one that found room may count after the key is full: with n requests at a
\* time, n rounds of maxAttempts and n(n-1)/2 latecomers can pass in the life of
\* a key, in whatever order their commands, retries and errors fall, and one
\* round more of those that are not creating for each SET that is sent again.
LimitHolds ==
  LET n == Cardinality(Requests)
  IN  2 * counted <= 2 * n * maxAttempts + n * (n - 1)
                     + 2 * resent * (maxAttempts + n - 3)

\* A client that is refused is not refused for ever: a full key ends, or is set
\* back, unless the EXPIRE it needs was lost.
RefusalEnds == Reached(count) ~> (~Reached(count) \/ endless)
=============================================================================

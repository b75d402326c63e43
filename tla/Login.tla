------------------------------- MODULE Login --------------------------------
(***************************************************************************)
(* Logins to one account: the counter of failed attempts, the lock, and    *)
(* the administrators who lock and unlock it.                              *)
(* Source: api/handler/auth_handler.go, user_handler.go,                   *)
(* internal/user/repository.go.                                            *)
(*                                                                         *)
(* A login reads the row, compares, counts and locks in four steps, the    *)
(* last two being statements whose errors are only logged.  What follows a *)
(* right password (second factor or tokens) and the records of attempts    *)
(* change nothing here.                                                    *)
(***************************************************************************)
EXTENDS RequestTimeout

CONSTANTS
  MaxLoginAttempts,
  MaxLost   \* bound: no login begins when so many counts and locks were lost

ASSUME LimitsAssumption == MaxLoginAttempts \in Nat \ {0} /\ MaxLost \in Nat

VARIABLES
  count,    \* failed_login_attempts
  locked,   \* locked_at is not null
  guesses,  \* history: wrong passwords compared since the count was last zeroed
  lost      \* history: counts and locks that were lost since then

account == <<count, locked, guesses, lost>>
vars == <<timeoutVars, account>>

Places == {"lookup", "compare", "increment", "lock", "reset", "answer", "end"}

TypeOK ==
  /\ TimeoutTypeOK
  /\ at \in [Requests -> Places]
  /\ count \in Nat /\ guesses \in Nat /\ lost \in Nat
  /\ locked \in BOOLEAN

Init ==
  /\ TimeoutInit
  /\ count = 0 /\ guesses = 0 /\ lost = 0
  /\ locked = FALSE
-----------------------------------------------------------------------------
BeginLogin(r) ==
  /\ lost < MaxLost
  /\ Serve(r, "lookup")
  /\ UNCHANGED account

\* Mutant of MayTry: the lock is not looked at.
MayTryAnyway == TRUE

\* IsLocked of the row that was read.
MayTry == ~locked

Lookup(r) ==
  /\ ~CtxDone(r)
  /\ Goes(r, "lookup", IF MayTry THEN "compare" ELSE "answer")
  /\ UNCHANGED account

\* The row cannot be read, or is of an inactive user.
LookupRefused(r) ==
  /\ Goes(r, "lookup", "answer")
  /\ UNCHANGED account

RightPassword(r) ==
  /\ Goes(r, "compare", "reset")
  /\ UNCHANGED account

WrongPassword(r) ==
  /\ Goes(r, "compare", "increment")
  /\ guesses' = guesses + 1
  /\ UNCHANGED <<count, locked, lost>>

Full(n) == n >= MaxLoginAttempts

AfterCount(n) == IF Full(n) THEN "lock" ELSE "answer"

IncrementFailedAttempts(r) ==
  /\ ~CtxDone(r)
  /\ Goes(r, "increment", AfterCount(count + 1))
  /\ count' = count + 1
  /\ UNCHANGED <<locked, guesses, lost>>

\* An error counts as no failed attempts: the handler does not lock, whether the
\* row was incremented or not.
IncrementLost(r) ==
  /\ Goes(r, "increment", "answer")
  /\ count' \in {count, IF CtxDone(r) THEN count ELSE count + 1}
  /\ lost' = lost + 1
  /\ UNCHANGED <<locked, guesses>>

LockAccount(r) ==
  /\ ~CtxDone(r)
  /\ Goes(r, "lock", "answer")
  /\ locked' = TRUE
  /\ UNCHANGED <<count, guesses, lost>>

LockLost(r) ==
  /\ Goes(r, "lock", "answer")
  /\ lost' = lost + 1
  /\ UNCHANGED <<count, locked, guesses>>

\* The count is zero again.
Zeroed == count' = 0 /\ guesses' = 0 /\ lost' = 0

ResetFailedAttempts(r) ==
  /\ ~CtxDone(r)
  /\ Goes(r, "reset", "answer")
  /\ Zeroed
  /\ UNCHANGED locked

ResetFails(r) ==
  /\ Goes(r, "reset", "answer")
  /\ UNCHANGED account

\* What the handler has yet to count or to lock is lost with it.
HandlerPanics(r) ==
  /\ Panic(r)
  /\ lost' = IF at[r] \in {"increment", "lock"} THEN lost + 1 ELSE lost
  /\ UNCHANGED <<count, locked, guesses>>

LoginHandler(r) ==
  \/ Lookup(r) \/ LookupRefused(r)
  \/ RightPassword(r) \/ WrongPassword(r)
  \/ IncrementFailedAttempts(r) \/ IncrementLost(r)
  \/ LockAccount(r) \/ LockLost(r)
  \/ ResetFailedAttempts(r) \/ ResetFails(r)
  \/ HandlerPanics(r)

\* LockUserAccountHandler, and UnlockUserAccountHandler.
AdminLocks ==
  /\ locked' = TRUE
  /\ UNCHANGED <<timeoutVars, count, guesses, lost>>

UnlockAccount ==
  /\ locked' = FALSE /\ Zeroed
  /\ UNCHANGED timeoutVars

Next ==
  \/ \E r \in Requests :
       \/ BeginLogin(r) \/ LoginHandler(r)
       \/ Middleware(r) /\ UNCHANGED account
  \/ AdminLocks \/ UnlockAccount

Spec == Init /\ [][Next]_vars

\* Deadlines pass and the server's goroutines run.  Nothing is asked of the
\* handlers: they may hang.
Fairness ==
  \A r \in Requests :
    /\ WF_vars(Deadline(r) /\ UNCHANGED account)
    /\ WF_vars(ReturnTimeout(r) /\ UNCHANGED account)

FairSpec == Spec /\ Fairness
-----------------------------------------------------------------------------
\* However logins interleave and whichever statements are lost, the wrong
\* passwords compared between two zeroings of the count are at most those the
\* limit allows before the last, one for each request in progress, and one for
\* each count or lock that was lost.
GuessesBounded ==
  guesses <= MaxLoginAttempts - 1 + Cardinality(Requests) + lost
=============================================================================

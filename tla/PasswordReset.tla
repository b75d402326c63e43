--------------------------- MODULE PasswordReset ----------------------------
(***************************************************************************)
(* Forgotten passwords of one user: reset tokens, from the request that    *)
(* creates one to the request that changes the password with it.           *)
(* Source: api/handler/password_reset_handler.go,                          *)
(* internal/auth/reset_token.go.                                           *)
(*                                                                         *)
(* The transaction that creates a token marks the rows its UPDATE found,   *)
(* so it acts at its commit on what was there at its UPDATE.  Changing the *)
(* password and marking the token are statements apart, and an error of    *)
(* the second is only logged.  A row that is used, expired or not there is *)
(* refused alike: a token is live or it is not.                            *)
(***************************************************************************)
EXTENDS RequestTimeout

CONSTANTS
  Tokens,
  NoToken,
  MaxUnmarked   \* bound: no reset begins with a token that so many marks missed

ASSUME TokensAssumption ==
  NoToken \notin Tokens /\ MaxUnmarked \in Nat /\ IsFiniteSet(Tokens)

VARIABLES
  live,      \* tokens whose row is unused and not expired
  presented, \* the token each request was called with
  found,     \* what the UPDATE of each transaction found unused
  uses,      \* history: changes of the password made with each token
  unmarked   \* history: marks of each token that were lost after its change

tokenVars == <<live, presented, found, uses, unmarked>>
vars == <<timeoutVars, tokenVars>>

Places ==
  {"invalidate", "commit", "validate", "update", "mark", "answer", "end"}

TypeOK ==
  /\ TimeoutTypeOK
  /\ at \in [Requests -> Places]
  /\ live \subseteq Tokens
  /\ presented \in [Requests -> Tokens \cup {NoToken}]
  /\ found \in [Requests -> SUBSET Tokens]
  /\ uses \in [Tokens -> Nat]
  /\ unmarked \in [Tokens -> Nat]

Init ==
  /\ TimeoutInit
  /\ live = {}
  /\ presented = [r \in Requests |-> NoToken]
  /\ found = [r \in Requests |-> {}]
  /\ uses = [t \in Tokens |-> 0]
  /\ unmarked = [t \in Tokens |-> 0]
-----------------------------------------------------------------------------
\* The handler has done with its token.
Forgets(r) == presented' = [presented EXCEPT ![r] = NoToken]

(* ForgotPasswordHandler, for an address that is found.                     *)

BeginForgot(r) ==
  /\ Serve(r, "invalidate")
  /\ UNCHANGED tokenVars

\* Mutant of Superseded: the tokens before this one stay as they are.
SupersededNone == {}

\* The rows the UPDATE finds.
Superseded == live

Invalidate(r) ==
  /\ ~CtxDone(r)
  /\ Goes(r, "invalidate", "commit")
  /\ found' = [found EXCEPT ![r] = Superseded]
  /\ UNCHANGED <<live, presented, uses, unmarked>>

\* t is none that a request still has in its hands.
IsNew(t) == t \notin live /\ \A q \in Requests : presented[q] # t /\ t \notin found[q]

\* With or without its acknowledgement: no handler step depends on it.
Commit(r) ==
  /\ ~CtxDone(r)
  /\ Goes(r, "commit", "answer")
  /\ \E t \in Tokens :
       /\ IsNew(t)
       /\ live' = (live \ found[r]) \cup {t}
       /\ uses' = [uses EXCEPT ![t] = 0]
       /\ unmarked' = [unmarked EXCEPT ![t] = 0]
  /\ found' = [found EXCEPT ![r] = {}]
  /\ UNCHANGED presented

\* A statement fails, and the transaction is rolled back.
NotCreated(r) ==
  /\ Goes(r, "invalidate", "answer") \/ Goes(r, "commit", "answer")
  /\ found' = [found EXCEPT ![r] = {}]
  /\ UNCHANGED <<live, presented, uses, unmarked>>
-----------------------------------------------------------------------------
(* ResetPasswordHandler.                                                    *)

BeginReset(r, t) ==
  /\ unmarked[t] < MaxUnmarked
  /\ Serve(r, "validate")
  /\ presented' = [presented EXCEPT ![r] = t]
  /\ UNCHANGED <<live, found, uses, unmarked>>

\* Mutant of IsValid: used_at is not looked at.
IsValidAnyway(t) == TRUE

IsValid(t) == t \in live

ValidateResetToken(r) ==
  /\ ~CtxDone(r) /\ IsValid(presented[r])
  /\ Goes(r, "validate", "update")
  /\ UNCHANGED tokenVars

\* Used, expired, unknown, or not to be read.
NotValidated(r) ==
  /\ Goes(r, "validate", "answer") /\ Forgets(r)
  /\ UNCHANGED <<live, found, uses, unmarked>>

UpdatePassword(r) ==
  /\ ~CtxDone(r)
  /\ Goes(r, "update", "mark")
  /\ uses' = [uses EXCEPT ![presented[r]] = @ + 1]
  /\ UNCHANGED <<live, presented, found, unmarked>>

\* An error ends the handler, whether the row was written or not.
UpdateLost(r) ==
  /\ Goes(r, "update", "answer") /\ Forgets(r)
  /\ \/ UNCHANGED <<uses, unmarked>>
     \/ /\ ~CtxDone(r)
        /\ uses' = [uses EXCEPT ![presented[r]] = @ + 1]
        /\ unmarked' = [unmarked EXCEPT ![presented[r]] = @ + 1]
  /\ UNCHANGED <<live, found>>

\* Whether it was marked before does not matter: that is only logged.
MarkTokenAsUsed(r) ==
  /\ ~CtxDone(r)
  /\ Goes(r, "mark", "answer") /\ Forgets(r)
  /\ live' = live \ {presented[r]}
  /\ UNCHANGED <<found, uses, unmarked>>

MarkLost(r) ==
  /\ Goes(r, "mark", "answer") /\ Forgets(r)
  /\ unmarked' = [unmarked EXCEPT ![presented[r]] = @ + 1]
  /\ UNCHANGED <<live, found, uses>>

\* The mark is not made, and the transaction is rolled back.
HandlerPanics(r) ==
  /\ Panic(r)
  /\ unmarked' = IF at[r] = "mark"
                 THEN [unmarked EXCEPT ![presented[r]] = @ + 1] ELSE unmarked
  /\ found' = [found EXCEPT ![r] = {}] /\ Forgets(r)
  /\ UNCHANGED <<live, uses>>

ResetHandler(r) ==
  \/ BeginForgot(r) \/ Invalidate(r) \/ Commit(r) \/ NotCreated(r)
  \/ \E t \in Tokens : BeginReset(r, t)
  \/ ValidateResetToken(r) \/ NotValidated(r)
  \/ UpdatePassword(r) \/ UpdateLost(r)
  \/ MarkTokenAsUsed(r) \/ MarkLost(r)
  \/ HandlerPanics(r)

Expire(t) ==
  /\ t \in live
  /\ live' = live \ {t}
  /\ UNCHANGED <<timeoutVars, presented, found, uses, unmarked>>

Next ==
  \/ \E r \in Requests :
       \/ ResetHandler(r)
       \/ Middleware(r) /\ UNCHANGED tokenVars
  \/ \E t \in Tokens : Expire(t)

Spec == Init /\ [][Next]_vars
-----------------------------------------------------------------------------
\* A token is good for one change; requests that overlap can make one each, and
\* each mark that is lost after its change allows one more.
UsesBounded ==
  \A t \in Tokens : uses[t] <= Cardinality(Requests) + unmarked[t]

\* A new token ends those before it: only requests that were creating one at the
\* same time leave theirs live beside it.
LiveBounded == Cardinality(live) <= Cardinality(Requests)
=============================================================================

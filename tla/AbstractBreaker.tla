-------------------------- MODULE AbstractBreaker --------------------------
(***************************************************************************)
(* What a circuit breaker promises its callers, without counters of        *)
(* results, clocks or locks: calls run freely while it is closed, none is  *)
(* let in while it cools down after opening, and after that at most Budget *)
(* calls are let in before it is closed or opened again.                   *)
(***************************************************************************)
EXTENDS Integers

CONSTANTS Callers, Budget

VARIABLES
  mode,      \* "Closed", "HalfOpen" or "Open"
  cooling,   \* open, and its timeout has not passed
  trials,    \* calls let in during the present half-open period
  inside     \* callers whose call has been let in and is not over

vars == <<mode, cooling, trials, inside>>

Init ==
  /\ mode = "Closed" /\ cooling = FALSE /\ trials = 0
  /\ inside = {}

\* An open breaker that has cooled down counts as half-open.
Effective == IF mode = "Open" /\ ~cooling THEN "HalfOpen" ELSE mode

\* Going to m; a breaker that opens starts to cool, one that stays open goes on.
Become(m) ==
  /\ mode' = m
  /\ cooling' = (m = "Open" /\ (Effective = "Open" => cooling))

Enter(c) ==
  /\ c \notin inside
  /\ inside' = inside \cup {c}
  /\ Become(Effective)
  /\ \/ Effective = "Closed" /\ trials' = 0
     \/ Effective = "HalfOpen" /\ trials < Budget /\ trials' = trials + 1

\* A call ends with a result, which may settle the state.
Settles(m) == CASE m = "Closed"   -> {"Closed", "Open"}
                [] m = "HalfOpen" -> {"HalfOpen", "Closed", "Open"}
                [] m = "Open"     -> {"Open"}

Leave(c) ==
  /\ c \in inside
  /\ inside' = inside \ {c}
  /\ \E m \in Settles(Effective) :
       /\ Become(m)
       /\ trials' = IF m = "HalfOpen" THEN trials ELSE 0

\* A call is given up and reports nothing.
GiveUp(c) ==
  /\ c \in inside
  /\ inside' = inside \ {c}
  /\ UNCHANGED <<mode, cooling, trials>>

CoolDown ==
  /\ cooling /\ cooling' = FALSE
  /\ UNCHANGED <<mode, trials, inside>>

StartTrial ==
  /\ Become(Effective)
  /\ UNCHANGED <<trials, inside>>

ManualReset ==
  /\ mode' = "Closed" /\ cooling' = FALSE /\ trials' = 0
  /\ UNCHANGED inside

Next ==
  \/ \E c \in Callers : Enter(c) \/ Leave(c) \/ GiveUp(c)
  \/ CoolDown \/ StartTrial \/ ManualReset

Spec == Init /\ [][Next]_vars
=============================================================================

------------------------------ MODULE Sessions ------------------------------
(***************************************************************************)
(* What token rotation promises: of the tokens that descend from one login *)
(* at most one is usable, a refresh replaces it by a newer one, and what   *)
(* was replaced or revoked never comes back.                               *)
(***************************************************************************)
CONSTANT Tokens

VARIABLES
  usable,   \* <<login, token>>: the token that the login's session has now
  spent     \* tokens that were replaced or revoked

vars == <<usable, spent>>

Init == usable = {} /\ spent = {}

Fresh(t) == t \notin spent /\ \A s \in usable : s[2] # t

Login(t) ==
  /\ Fresh(t) /\ \A s \in usable : s[1] # t
  /\ usable' = usable \cup {<<t, t>>}
  /\ UNCHANGED spent

Refresh(s, t) ==
  /\ s \in usable /\ Fresh(t)
  /\ usable' = (usable \ {s}) \cup {<<s[1], t>>}
  /\ spent' = spent \cup {s[2]}

Revoke(S) ==
  /\ usable' = usable \ S
  /\ spent' = spent \cup {s[2] : s \in S}

Next ==
  \/ \E t \in Tokens : Login(t)
  \/ \E s \in usable, t \in Tokens : Refresh(s, t)
  \/ \E S \in SUBSET usable : Revoke(S)

Spec == Init /\ [][Next]_vars
=============================================================================

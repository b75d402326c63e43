------------------------- MODULE RefreshTokensProofs -------------------------
(* Proofs about RefreshTokens, for every set of requests and every MaxTime. *)
EXTENDS RefreshTokens, TLAPS

-----------------------------------------------------------------------------
(* What a request knows is old when it uses it.  That a chain goes forward  *)
(* and stays in its session rests on what cannot change in between: a row   *)
(* that exists goes on existing, with its origin, no row is ahead of the    *)
(* clock, and a fingerprint that could be inserted is not the old one.      *)

Known(t) == t \in Tokens /\ rows[t] # NoRow

RowsPast == \A t \in Tokens : rows[t] # NoRow => t <= now

ReqOK(r) ==
  /\ req[r].step = "checked" => Known(req[r].old)
  /\ req[r].step = "generated" =>
       /\ req[r].sec \in Tokens /\ req[r].sec <= now
       /\ req[r].old # NULL => Known(req[r].old) /\ req[r].old <= req[r].sec
  /\ req[r].step = "stored" =>
       /\ Known(req[r].old) /\ Known(req[r].sec)
       /\ req[r].old < req[r].sec
       /\ origin[req[r].sec] = origin[req[r].old]

ReqsOK == \A r \in Requests : ReqOK(r)

Inv == TypeOK /\ RowsPast /\ ChainsForward /\ ChainsKeepSession /\ ReqsOK

-----------------------------------------------------------------------------
\* A request that does nothing, and the rows that are made, have their types.
LEMMA IdleType ==
  /\ Idle \in [step: Steps, old: 0 .. MaxTime, sec: 0 .. MaxTime, was: SUBSET Tokens]
  /\ NoRow \in Rows /\ LiveRow \in Rows /\ LiveRow # NoRow
  BY MaxTimeAssumption DEF Idle, Steps, NULL, NoRow, LiveRow, Rows, Tokens

\* There are no rows, and no request does anything.
LEMMA InitInv == Init => Inv
  <1> SUFFICES ASSUME Init PROVE Inv
    OBVIOUS
  <1>1. 1 \in Tokens /\ 0 \in 0 .. MaxTime
    BY MaxTimeAssumption DEF Tokens
  <1>2. TypeOK
    BY <1>1, IdleType DEF Init, TypeOK
  <1>3. RowsPast /\ ChainsForward /\ ChainsKeepSession
    BY DEF Init, RowsPast, ChainsForward, ChainsKeepSession, NoRow
  <1>4. ReqsOK
    BY DEF Init, ReqsOK, ReqOK, Idle
  <1> QED BY <1>2, <1>3, <1>4 DEF Inv

(* A step that only revokes: rows keep their replacement, and no row comes. *)
OnlyRevokes ==
  /\ rows' \in [Tokens -> Rows]
  /\ \A t \in Tokens : \/ rows'[t] = rows[t]
                       \/ Live(t) /\ rows'[t] = Revoked(t)
  /\ UNCHANGED origin

\* Revoking all rows of a user does nothing but revoke.
LEMMA RevokeAllRevokes ==
  ASSUME TypeOK, RevokeAll, UNCHANGED origin
  PROVE  OnlyRevokes
  <1>1. \A t \in Tokens : Revoked(t) \in Rows /\ rows[t] \in Rows
    BY DEF TypeOK, Rows, Revoked
  <1>2. \A t \in Tokens : rows'[t] = IF Live(t) THEN Revoked(t) ELSE rows[t]
    BY DEF RevokeAll
  <1>3. rows' \in [Tokens -> Rows]
    BY <1>1 DEF RevokeAll
  <1> QED BY <1>2, <1>3 DEF OnlyRevokes, Revoked

\* Revoking adds no row and no replacement: the chains stay as they are.
LEMMA RevokesKeep ==
  ASSUME TypeOK, ChainsForward, ChainsKeepSession, OnlyRevokes
  PROVE  /\ ChainsForward' /\ ChainsKeepSession'
         /\ \A t \in Tokens : rows[t] # NoRow <=> rows'[t] # NoRow
  <1>1. \A t \in Tokens : rows'[t].next = rows[t].next
    BY DEF OnlyRevokes, Revoked
  <1>2. \A t \in Tokens : rows[t] # NoRow <=> rows'[t] # NoRow
    BY DEF OnlyRevokes, Revoked, Live, NoRow
  <1>3. \A t \in Tokens : rows[t].state = "revoked" => rows'[t].state = "revoked"
    BY DEF OnlyRevokes, Revoked
  <1>4. ChainsForward'
    <2> SUFFICES ASSUME NEW t \in Tokens, rows'[t].next # NULL
                 PROVE  /\ rows'[t].state = "revoked" /\ rows'[t].next > t
                        /\ rows'[rows'[t].next] # NoRow
      BY DEF ChainsForward
    <2>1. rows[t].next \in Tokens
      BY <1>1 DEF TypeOK, Rows, Tokens, NULL
    <2> QED BY <1>1, <1>2, <1>3, <2>1 DEF ChainsForward
  <1>5. ChainsKeepSession'
    BY <1>1 DEF ChainsKeepSession, OnlyRevokes
  <1> QED BY <1>2, <1>4, <1>5

(* What the requests know survives a step in which only w changes. *)
LEMMA OthersKnow ==
  ASSUME ReqsOK, NEW w \in Requests, ReqOK(w)',
         \A r \in Requests \ {w} : req'[r] = req[r],
         \A t \in Tokens : rows[t] # NoRow => rows'[t] # NoRow /\ origin'[t] = origin[t],
         now' = now
  PROVE  ReqsOK'
  <1> SUFFICES ASSUME NEW r \in Requests \ {w} PROVE ReqOK(r)'
    BY DEF ReqsOK
  <1>1. ReqOK(r)
    BY DEF ReqsOK
  <1> QED BY <1>1 DEF ReqOK, Known

(* A request's record after a step: the shapes that the actions give it. *)
ReqType == [step: Steps, old: 0 .. MaxTime, sec: 0 .. MaxTime, was: SUBSET Tokens]

\* The values that requests take on have their types.
LEMMA ReqTypes ==
  ASSUME TypeOK, NEW w \in Requests
  PROVE  /\ req[w] \in ReqType /\ Idle \in ReqType
         /\ \A s \in Steps : [req[w] EXCEPT !.step = s] \in ReqType
         /\ \A s \in Steps : [req[w] EXCEPT !.step = s, !.sec = now] \in ReqType
         /\ \A s \in Steps : [Idle EXCEPT !.step = s, !.sec = now] \in ReqType
         /\ \A s \in Steps, t \in Tokens : [Idle EXCEPT !.step = s, !.old = t] \in ReqType
  <1>1. req[w] \in ReqType /\ Idle \in ReqType
    BY IdleType DEF TypeOK, ReqType
  <1>2. now \in 0 .. MaxTime /\ given \subseteq Tokens /\ Tokens \subseteq 0 .. MaxTime
    BY MaxTimeAssumption DEF TypeOK, Tokens
  <1> QED BY <1>1, <1>2 DEF ReqType

(* Steps that leave the rows, their origins and the clock alone. *)
LEMMA QuietStep ==
  ASSUME Inv, NEW w \in Requests, NEW q \in ReqType,
         req' = [req EXCEPT ![w] = q],
         UNCHANGED <<now, rows, origin>>,
         blacklist' \in 0 .. MaxTime, revoked' \subseteq Tokens,
         given' \subseteq Tokens, ended' \subseteq Tokens,
         ReqOK(w)'
  PROVE  Inv'
  <1>1. req' \in [Requests -> ReqType]
    BY DEF Inv, TypeOK, ReqType
  <1>2. TypeOK'
    BY <1>1 DEF Inv, TypeOK, ReqType
  <1>3. RowsPast' /\ ChainsForward' /\ ChainsKeepSession'
    BY DEF Inv, RowsPast, ChainsForward, ChainsKeepSession
  <1>4. ReqsOK'
    <2>1. \A r \in Requests \ {w} : req'[r] = req[r]
      BY DEF Inv, TypeOK
    <2> QED BY <2>1, OthersKnow DEF Inv
  <1> QED BY <1>2, <1>3, <1>4 DEF Inv

(* Steps that only revoke rows. *)
LEMMA RevokingStep ==
  ASSUME Inv, NEW w \in Requests, OnlyRevokes,
         UNCHANGED req \/ req' = [req EXCEPT ![w] = Idle],
         UNCHANGED <<now, blacklist, revoked, given>>, ended' \subseteq Tokens
  PROVE  Inv'
  <1>1. /\ ChainsForward' /\ ChainsKeepSession'
        /\ \A t \in Tokens : rows[t] # NoRow <=> rows'[t] # NoRow
    BY RevokesKeep DEF Inv
  <1>2. req' \in [Requests -> ReqType]
    BY IdleType DEF Inv, TypeOK, ReqType
  <1>3. TypeOK'
    BY <1>2 DEF Inv, TypeOK, OnlyRevokes, ReqType
  <1>4. RowsPast'
    BY <1>1 DEF Inv, RowsPast
  <1>5. ReqsOK'
    <2>1. ReqOK(w)'
      BY <1>1 DEF Inv, TypeOK, ReqsOK, ReqOK, Known, Idle, OnlyRevokes
    <2>2. \A r \in Requests \ {w} : req'[r] = req[r]
      BY DEF Inv, TypeOK
    <2> QED BY <1>1, <2>1, <2>2, OthersKnow DEF Inv, OnlyRevokes
  <1> QED BY <1>1, <1>3, <1>4, <1>5 DEF Inv

\* A row is stored: it is the first of its login, or descends from the old one.
LEMMA StoreStep ==
  ASSUME Inv, NEW w \in Requests, Store(w)
  PROVE  Inv'
  <1> DEFINE n == req[w].sec
             o == req[w].old
  <1>1. /\ n \in Tokens /\ n <= now /\ now \in Tokens
        /\ o # NULL => Known(o) /\ o <= n
        /\ rows[n] = NoRow
        /\ rows' = [rows EXCEPT ![n] = LiveRow]
    BY DEF Inv, TypeOK, Store, Insert, ReqsOK, ReqOK
  <1>2. origin' = [origin EXCEPT ![n] = IF o = NULL THEN n ELSE origin[o]]
    BY DEF Store
  <1>3. /\ rows' \in [Tokens -> Rows]
        /\ origin' \in [Tokens -> 0 .. MaxTime]
    <2>1. n \in 0 .. MaxTime /\ (o # NULL => origin[o] \in 0 .. MaxTime)
      BY <1>1 DEF Inv, TypeOK, Known, Tokens
    <2> QED BY <1>1, <1>2, <2>1, IdleType DEF Inv, TypeOK
  <1>4. given' \subseteq Tokens /\ req' \in [Requests -> ReqType]
    <2>1. "stored" \in Steps
      BY DEF Steps
    <2>2. [req[w] EXCEPT !.step = "stored"] \in ReqType /\ Idle \in ReqType
      BY <2>1, ReqTypes DEF Inv
    <2>3. req' = [req EXCEPT ![w] = Idle] \/ req' = [req EXCEPT ![w] = [req[w] EXCEPT !.step = "stored"]]
      BY DEF Store, Respond, Finish, Goto, Inv, TypeOK
    <2>4. given' = given \/ given' = given \cup {n}
      BY DEF Store, Respond
    <2> QED BY <1>1, <2>2, <2>3, <2>4 DEF Inv, TypeOK, ReqType
  <1>5. TypeOK'
    BY <1>3, <1>4 DEF Inv, TypeOK, Store, ReqType
  <1>6. \A t \in Tokens : rows[t] # NoRow => t # n /\ rows'[t] = rows[t] /\ origin'[t] = origin[t]
    BY <1>1, <1>2 DEF Inv, TypeOK
  <1>7. rows'[n] = LiveRow /\ LiveRow # NoRow
    BY <1>1, IdleType DEF Inv, TypeOK
  <1>8. \A t \in Tokens : t # n => rows'[t] = rows[t] /\ origin'[t] = origin[t]
    BY <1>1, <1>2 DEF Inv, TypeOK
  <1>9. RowsPast'
    BY <1>1, <1>7, <1>8 DEF Inv, RowsPast, Store
  <1>10. ChainsForward' /\ ChainsKeepSession'
    <2> SUFFICES ASSUME NEW t \in Tokens, rows'[t].next # NULL
                 PROVE  /\ rows'[t].state = "revoked" /\ rows'[t].next > t
                        /\ rows'[rows'[t].next] # NoRow
                        /\ origin'[rows'[t].next] = origin'[t]
      BY DEF ChainsForward, ChainsKeepSession
    <2>1. t # n
      BY <1>7 DEF LiveRow
    <2>2. rows'[t] = rows[t] /\ origin'[t] = origin[t] /\ rows[t].next \in Tokens
      BY <1>8, <2>1 DEF Inv, TypeOK, Rows, Tokens, NULL
    <2>3. rows[rows[t].next] # NoRow
      BY <2>2 DEF Inv, ChainsForward
    <2> QED BY <1>6, <2>2, <2>3 DEF Inv, ChainsForward, ChainsKeepSession
  <1>11. ReqsOK'
    <2>1. \A r \in Requests \ {w} : req'[r] = req[r]
      BY DEF Inv, TypeOK, Store, Respond, Finish, Goto
    <2>2. ReqOK(w)'
      <3>1. CASE o = NULL
        BY <3>1 DEF Inv, TypeOK, Store, Respond, Finish, ReqOK, Idle
      <3>2. CASE o # NULL
        <4>1. req'[w] = [req[w] EXCEPT !.step = "stored"]
          BY <3>2 DEF Inv, TypeOK, Store, Goto
        <4>2. req'[w].step = "stored" /\ req'[w].sec = n /\ req'[w].old = o
          BY <4>1 DEF Inv, TypeOK
        <4>3. /\ o \in Tokens /\ rows'[o] # NoRow /\ rows'[n] # NoRow /\ o # n
              /\ origin'[n] = origin[o] /\ origin'[o] = origin[o]
          BY <1>1, <1>2, <1>6, <1>7, <3>2 DEF Known, Inv, TypeOK
        <4>4. o < n
          BY <1>1, <3>2, <4>3 DEF Known, Tokens
        <4> QED BY <1>1, <4>2, <4>3, <4>4 DEF ReqOK, Known
      <3> QED BY <3>1, <3>2
    <2> QED BY <1>1, <1>6, <2>1, <2>2, OthersKnow DEF Inv, Store
  <1> QED BY <1>5, <1>9, <1>10, <1>11 DEF Inv

\* The old row points to the new one, which is younger and of the same login.
LEMMA ReplaceStep ==
  ASSUME Inv, NEW w \in Requests, Replace(w), Link(req[w].old, req[w].sec)
  PROVE  Inv'
  <1> DEFINE n == req[w].sec
             o == req[w].old
             new == [state |-> "revoked", next |-> n]
  <1>1. /\ n \in Tokens /\ o \in Tokens /\ rows[o] # NoRow /\ rows[n] # NoRow
        /\ o < n /\ origin[n] = origin[o]
    BY DEF Inv, TypeOK, Replace, ReqsOK, ReqOK, Known
  <1>2. rows' = [rows EXCEPT ![o] = new] /\ new # NoRow
    BY DEF Link, NoRow
  <1>3. new \in Rows
    BY <1>1 DEF Rows, Tokens
  <1>4. /\ given' = given \cup {n} /\ req' = [req EXCEPT ![w] = Idle]
        /\ UNCHANGED <<now, blacklist, revoked, origin, ended>>
    BY DEF Replace, Respond, Finish
  <1>5. TypeOK'
    BY <1>1, <1>2, <1>3, <1>4, IdleType DEF Inv, TypeOK
  <1>6. \A t \in Tokens : rows'[t] # NoRow <=> rows[t] # NoRow
    BY <1>1, <1>2 DEF Inv, TypeOK
  <1>7. RowsPast'
    BY <1>4, <1>6 DEF Inv, RowsPast
  <1>8. ChainsForward' /\ ChainsKeepSession'
    <2> SUFFICES ASSUME NEW t \in Tokens, rows'[t].next # NULL
                 PROVE  /\ rows'[t].state = "revoked" /\ rows'[t].next > t
                        /\ rows'[rows'[t].next] # NoRow
                        /\ origin'[rows'[t].next] = origin'[t]
      BY DEF ChainsForward, ChainsKeepSession
    <2>1. CASE t = o
      <3>1. rows'[t] = new
        BY <1>1, <1>2, <2>1 DEF Inv, TypeOK
      <3> QED BY <1>1, <1>4, <1>6, <2>1, <3>1 DEF Tokens
    <2>2. CASE t # o
      <3>1. rows'[t] = rows[t] /\ rows[t].next \in Tokens
        BY <1>2, <2>2 DEF Inv, TypeOK, Rows, Tokens, NULL
      <3> QED BY <1>4, <1>6, <3>1 DEF Inv, ChainsForward, ChainsKeepSession
    <2> QED BY <2>1, <2>2
  <1>9. ReqsOK'
    <2>1. ReqOK(w)' /\ \A r \in Requests \ {w} : req'[r] = req[r]
      BY <1>4 DEF Inv, TypeOK, ReqOK, Idle
    <2> QED BY <1>4, <1>6, <2>1, OthersKnow DEF Inv
  <1> QED BY <1>5, <1>7, <1>8, <1>9 DEF Inv

-----------------------------------------------------------------------------
\* Every step keeps the invariant: one case for each kind of step.
LEMMA StepInv == Inv /\ [Next]_vars => Inv'
  <1> SUFFICES ASSUME Inv, [Next]_vars PROVE Inv'
    OBVIOUS
  <1>0. TypeOK /\ now \in Tokens /\ Tokens \subseteq 0 .. MaxTime
    BY MaxTimeAssumption DEF Inv, TypeOK, Tokens
  <1>1. ASSUME NEW w \in Requests, Login(w) PROVE Inv'
    <2> DEFINE q == [Idle EXCEPT !.step = "generated", !.sec = now]
    <2>1. q \in ReqType
      BY <1>0, ReqTypes DEF Steps
    <2>2. req' = [req EXCEPT ![w] = q] /\ q.step = "generated" /\ q.sec = now /\ q.old = NULL
      BY <1>1 DEF Login, Idle
    <2>3. ReqOK(w)'
      BY <1>0, <1>1, <2>2 DEF Login, ReqOK, TypeOK
    <2> QED BY <1>0, <1>1, <2>1, <2>2, <2>3, QuietStep DEF Login, TypeOK
  <1>2. ASSUME NEW w \in Requests, NEW t \in Tokens, Lookup(w, t) PROVE Inv'
    <2> DEFINE q == [Idle EXCEPT !.step = "checked", !.old = t]
    <2>1. q \in ReqType
      BY <1>0, ReqTypes DEF Steps
    <2>2. req' = [req EXCEPT ![w] = q] /\ q.step = "checked" /\ q.old = t
      BY <1>2 DEF Lookup, Idle
    <2>3. rows[t] # NoRow
      BY <1>2 DEF Lookup, Live, NoRow
    <2>4. ReqOK(w)'
      BY <1>0, <1>2, <2>2, <2>3 DEF Lookup, ReqOK, Known, TypeOK
    <2> QED BY <1>0, <1>2, <2>1, <2>2, <2>4, QuietStep DEF Lookup, TypeOK
  <1>3. ASSUME NEW w \in Requests, NEW s \in Steps \ {"checked", "generated", "stored"},
               Goto(w, s), UNCHANGED <<now, rows, revoked, given, origin, ended>>,
               blacklist' \in 0 .. MaxTime
        PROVE  Inv'
    <2> DEFINE q == [req[w] EXCEPT !.step = s]
    <2>1. q \in ReqType
      BY <1>0, ReqTypes
    <2>2. req' = [req EXCEPT ![w] = q] /\ q.step = s
      BY <1>0, <1>3 DEF Goto, TypeOK
    <2>3. ReqOK(w)'
      BY <1>0, <2>2 DEF ReqOK, TypeOK
    <2> QED BY <1>0, <1>3, <2>1, <2>2, <2>3, QuietStep DEF TypeOK
  <1>4. ASSUME NEW w \in Requests, Finish(w), UNCHANGED <<now, rows, origin>>,
               blacklist' \in 0 .. MaxTime, revoked' \subseteq Tokens,
               given' \subseteq Tokens, ended' \subseteq Tokens
        PROVE  Inv'
    <2>1. Idle \in ReqType /\ Idle.step = "idle"
      BY <1>0, ReqTypes DEF Idle
    <2>2. ReqOK(w)'
      BY <1>0, <1>4, <2>1 DEF ReqOK, TypeOK, Finish
    <2> QED BY <1>4, <2>1, <2>2, QuietStep DEF Finish
  <1>5. ASSUME NEW w \in Requests, Generate(w) PROVE Inv'
    <2> DEFINE q == [req[w] EXCEPT !.step = "generated", !.sec = now]
    <2>1. q \in ReqType
      BY <1>0, ReqTypes DEF Steps
    <2>2. /\ req' = [req EXCEPT ![w] = q]
          /\ q.step = "generated" /\ q.sec = now /\ q.old = req[w].old
      BY <1>0, <1>5 DEF Generate, TypeOK
    <2>3. Known(req[w].old) /\ req[w].old <= now
      BY <1>5 DEF Generate, Inv, ReqsOK, ReqOK, RowsPast, Known
    <2>4. ReqOK(w)'
      BY <1>0, <1>5, <2>2, <2>3 DEF Generate, ReqOK, Known, TypeOK
    <2> QED BY <1>0, <1>5, <2>1, <2>2, <2>4, QuietStep DEF Generate, TypeOK
  <1>6. ASSUME NEW w \in Requests, NEW k, NEW s \in {"logout", "password"},
               req' = [req EXCEPT ![w] = Ending(k, s)],
               UNCHANGED <<now, rows, blacklist, given, origin, ended>>, revoked' \subseteq Tokens
        PROVE  Inv'
    <2> DEFINE open == IF k = Watched THEN given ELSE {}
    <2>0. open \in SUBSET Tokens
      BY <1>0 DEF TypeOK
    <2> HIDE DEF open
    <2>a. Ending(k, s) = [step |-> s, old |-> NULL, sec |-> now, was |-> open]
      BY DEF Ending, open
    <2>b. s \in Steps /\ now \in 0 .. MaxTime /\ NULL \in 0 .. MaxTime
      BY <1>0, MaxTimeAssumption DEF Steps, TypeOK, Tokens, NULL
    <2>1. Ending(k, s) \in ReqType /\ Ending(k, s).step = s
      BY <2>0, <2>a, <2>b DEF ReqType
    <2>2. ReqOK(w)'
      BY <1>0, <1>6, <2>1 DEF ReqOK, TypeOK
    <2> QED BY <1>0, <1>6, <2>1, <2>2, QuietStep DEF TypeOK
  <1>7. ASSUME NEW w \in Requests, Blacklisted(w) PROVE blacklist' \in 0 .. MaxTime
    BY <1>0, <1>7 DEF Blacklisted, TypeOK
  <1>8. ASSUME NEW w \in Requests, End(w) PROVE ended' \subseteq Tokens
    BY <1>0, <1>8 DEF End, TypeOK
  <1>9. ASSUME NEW w \in Requests, NotStored(w) \/ Replace(w), UNCHANGED rows PROVE Inv'
    <2>1. req[w].sec \in Tokens
      BY <1>9 DEF NotStored, Replace, Inv, ReqsOK, ReqOK, Known
    <2>2. Finish(w) /\ given' \subseteq Tokens /\ UNCHANGED <<now, rows, blacklist, revoked, origin, ended>>
      BY <1>0, <1>9, <2>1 DEF NotStored, Replace, Respond, TypeOK
    <2> QED BY <1>0, <1>4, <2>2 DEF TypeOK
  <1>10. ASSUME NEW w \in Requests, RevokeAll,
                UNCHANGED req \/ Finish(w),
                UNCHANGED <<now, blacklist, revoked, given, origin>>, ended' \subseteq Tokens
         PROVE  Inv'
    BY <1>0, <1>10, RevokeAllRevokes, RevokingStep DEF Finish
  <1>11. ASSUME NEW w \in Requests, NEW t \in Tokens, RevokeSession(w, t) PROVE Inv'
    <2>1. OnlyRevokes
      <3>1. Revoked(t) \in Rows
        BY <1>0 DEF TypeOK, Rows, Revoked
      <3> QED BY <1>0, <1>11, <3>1 DEF RevokeSession, OnlyRevokes, TypeOK
    <2> QED BY <1>0, <1>11, <2>1, RevokingStep DEF RevokeSession, TypeOK
  <1>12. ASSUME NEW w \in Requests, Refresh(w) PROVE Inv'
    <2>1. CASE \E t \in Tokens : Lookup(w, t)
      BY <1>2, <2>1
    <2>2. CASE \E t \in Tokens : DetectReuse(w, t)
      <3>1. "reuse" \in Steps \ {"checked", "generated", "stored"}
        BY DEF Steps
      <3> QED BY <1>0, <1>3, <2>2, <3>1 DEF DetectReuse, TypeOK
    <2>3. CASE EndAll(w)
      <3>1. CASE RevokeAll
        BY <1>0, <1>10, <2>3, <3>1 DEF EndAll, TypeOK
      <3>2. CASE UNCHANGED rows
        BY <1>0, <1>4, <2>3, <3>2 DEF EndAll, TypeOK
      <3> QED BY <2>3, <3>1, <3>2 DEF EndAll
    <2>4. CASE Refuse(w)
      BY <1>0, <1>4, <2>4 DEF Refuse, TypeOK
    <2>5. CASE Generate(w)
      BY <1>5, <2>5
    <2>6. CASE Store(w)
      BY <2>6, StoreStep
    <2>7. CASE NotStored(w)
      BY <1>9, <2>7 DEF NotStored
    <2>8. CASE Replace(w)
      BY <1>9, <2>8, ReplaceStep DEF Replace
    <2> QED BY <1>12, <2>1, <2>2, <2>3, <2>4, <2>5, <2>6, <2>7, <2>8 DEF Refresh
  <1>13. ASSUME NEW w \in Requests, Close(w) PROVE Inv'
    <2>1. CASE \E t \in Tokens : Logout(w, t)
      <3>1. PICK t \in Tokens : Logout(w, t)
        BY <2>1
      <3>2. "logout" \in {"logout", "password"}
        OBVIOUS
      <3>3. /\ req' = [req EXCEPT ![w] = Ending("revoke", "logout")]
            /\ UNCHANGED <<now, rows, blacklist, given, origin, ended>>
            /\ revoked' \subseteq Tokens
        BY <1>0, <3>1 DEF Logout, TypeOK
      <3> QED BY <1>6, <3>2, <3>3
    <2>2. CASE \E t \in Tokens : ChangePassword(w, t)
      <3>1. PICK t \in Tokens : ChangePassword(w, t)
        BY <2>2
      <3>2. "password" \in {"logout", "password"}
        OBVIOUS
      <3>3. /\ req' = [req EXCEPT ![w] = Ending("password", "password")]
            /\ UNCHANGED <<now, rows, blacklist, given, origin, ended>>
            /\ revoked' \subseteq Tokens
        BY <1>0, <3>1 DEF ChangePassword, TypeOK
      <3> QED BY <1>6, <3>2, <3>3
    <2>3. CASE \E t \in Tokens : RevokeSession(w, t)
      BY <1>11, <2>3
    <2>4. CASE \E t \in Tokens : RevokeOthers(w, t)
      BY <1>0, <1>10, <2>4 DEF RevokeOthers, TypeOK
    <2>5. CASE BlacklistOnLogout(w)
      <3>1. "revoke" \in Steps \ {"checked", "generated", "stored"}
        BY DEF Steps
      <3> QED BY <1>3, <1>7, <2>5, <3>1 DEF BlacklistOnLogout
    <2>6. CASE BlacklistOnPassword(w)
      BY <1>0, <1>4, <1>7, <1>8, <2>6 DEF BlacklistOnPassword, TypeOK
    <2>7. CASE RevokeOnLogout(w)
      <3>1. CASE RevokeAll
        BY <1>8, <1>10, <2>7, <3>1 DEF RevokeOnLogout
      <3>2. CASE UNCHANGED rows
        BY <1>0, <1>4, <1>8, <2>7, <3>2 DEF RevokeOnLogout, TypeOK
      <3> QED BY <2>7, <3>1, <3>2 DEF RevokeOnLogout
    <2> QED BY <1>13, <2>1, <2>2, <2>3, <2>4, <2>5, <2>6, <2>7 DEF Close
  <1>14. ASSUME Tick PROVE Inv'
    <2>1. now' \in Tokens /\ now <= now' /\ UNCHANGED <<rows, blacklist, revoked, given, req, origin, ended>>
      BY <1>0, <1>14, MaxTimeAssumption DEF Tick, Tokens
    <2>2. TypeOK' /\ ChainsForward' /\ ChainsKeepSession'
      BY <2>1 DEF Inv, TypeOK, ChainsForward, ChainsKeepSession
    <2>3. RowsPast' /\ ReqsOK'
      BY <1>0, <2>1 DEF Inv, RowsPast, ReqsOK, ReqOK, Known, Tokens
    <2> QED BY <2>2, <2>3 DEF Inv
  <1>15. ASSUME UNCHANGED vars PROVE Inv'
    BY <1>15 DEF vars, Inv, TypeOK, RowsPast, ChainsForward, ChainsKeepSession, ReqsOK, ReqOK, Known
  <1> QED BY <1>1, <1>12, <1>13, <1>14, <1>15 DEF Next

-----------------------------------------------------------------------------
(* The strengthening: requests hold rows that exist and are not ahead of    *)
(* the clock, in every reachable state.                                     *)
THEOREM Invariance == Spec => []Inv
  <1> QED BY InitInv, StepInv, PTL DEF Spec

(* The variables keep their types, whatever fails. *)
THEOREM TypeCorrect == Spec => []TypeOK
  <1>1. Inv => TypeOK
    BY DEF Inv
  <1> QED BY <1>1, Invariance, PTL

(* RevokeToken and StoreRefreshToken only ever make chains that go forward  *)
(* in time and end at a stored token, for any number of refreshes at once.  *)
THEOREM ChainsGoForward == Spec => []ChainsForward
  <1>1. Inv => ChainsForward
    BY DEF Inv
  <1> QED BY <1>1, Invariance, PTL

(* A rotation never links a token of one login to a token of another, for   *)
(* any number of logins and refreshes at once.                              *)
THEOREM ChainsStay == Spec => []ChainsKeepSession
  <1>1. Inv => ChainsKeepSession
    BY DEF Inv
  <1> QED BY <1>1, Invariance, PTL

-----------------------------------------------------------------------------
(* The steps that touch rows: revoke, insert where no row is, or link to a  *)
(* token that was generated.                                                *)
LEMMA RowsStep ==
  ASSUME Inv, [Next]_vars
  PROVE  \/ UNCHANGED rows
         \/ OnlyRevokes
         \/ \E t \in Tokens : Insert(t)
         \/ \E t \in Tokens, u \in Tokens : Link(t, u)
  <1>0. TypeOK /\ ReqsOK
    BY DEF Inv
  <1>1. ASSUME NEW w \in Requests, Refresh(w)
        PROVE  \/ UNCHANGED rows \/ OnlyRevokes
               \/ \E t \in Tokens : Insert(t)
               \/ \E t \in Tokens, u \in Tokens : Link(t, u)
    <2>1. CASE EndAll(w)
      BY <1>0, <2>1, RevokeAllRevokes DEF EndAll
    <2>2. CASE Store(w)
      BY <1>0, <2>2 DEF Store, ReqsOK, ReqOK
    <2>3. CASE Replace(w)
      BY <1>0, <2>3 DEF Replace, ReqsOK, ReqOK, Known
    <2>4. CASE (\E t \in Tokens : Lookup(w, t) \/ DetectReuse(w, t))
               \/ Refuse(w) \/ Generate(w) \/ NotStored(w)
      BY <2>4 DEF Lookup, DetectReuse, Refuse, Generate, NotStored
    <2> QED BY <1>1, <2>1, <2>2, <2>3, <2>4 DEF Refresh
  <1>2. ASSUME NEW w \in Requests, Close(w)
        PROVE  UNCHANGED rows \/ OnlyRevokes
    <2>1. CASE \E t \in Tokens : RevokeOthers(w, t)
      BY <1>0, <2>1, RevokeAllRevokes DEF RevokeOthers
    <2>2. CASE RevokeOnLogout(w)
      BY <1>0, <2>2, RevokeAllRevokes DEF RevokeOnLogout
    <2>3. ASSUME NEW t \in Tokens, RevokeSession(w, t) PROVE OnlyRevokes
      <3>1. Revoked(t) \in Rows
        BY <1>0 DEF TypeOK, Rows, Revoked
      <3> QED BY <1>0, <2>3, <3>1 DEF RevokeSession, OnlyRevokes, TypeOK
    <2>4. CASE (\E t \in Tokens : Logout(w, t) \/ ChangePassword(w, t))
               \/ BlacklistOnLogout(w) \/ BlacklistOnPassword(w)
      BY <2>4 DEF Logout, ChangePassword, BlacklistOnLogout, BlacklistOnPassword
    <2> QED BY <1>2, <2>1, <2>2, <2>3, <2>4 DEF Close
  <1> QED BY <1>1, <1>2 DEF Next, Login, Tick, vars

(* However many requests store the same fingerprint or revoke it at once, a *)
(* revoked token never comes back, nor does it forget that it was replaced. *)
THEOREM RevocationIsFinal == Spec => RevokedForever
  <1> DEFINE Keeps == \A t \in Tokens :
                        rows[t].state = "revoked" =>
                          /\ rows'[t].state = "revoked"
                          /\ rows[t].next # NULL => rows'[t].next # NULL
  <1>1. ASSUME Inv, [Next]_vars PROVE Keeps
    <2>1. CASE UNCHANGED rows
      BY <2>1
    <2>2. CASE OnlyRevokes
      BY <2>2 DEF OnlyRevokes, Revoked, Live
    <2>3. ASSUME NEW u \in Tokens, Insert(u) PROVE Keeps
      BY <1>1, <2>3 DEF Insert, NoRow, Inv, TypeOK
    <2>4. ASSUME NEW u \in Tokens, NEW v \in Tokens, Link(u, v) PROVE Keeps
      <3>1. v # NULL
        BY DEF Tokens, NULL
      <3> QED BY <1>1, <2>4, <3>1 DEF Link, Inv, TypeOK
    <2> QED BY <1>1, <2>1, <2>2, <2>3, <2>4, RowsStep
  <1>2. Inv /\ [Next]_vars => [Keeps]_vars
    BY <1>1
  <1> QED BY <1>2, Invariance, PTL DEF Spec, RevokedForever
-----------------------------------------------------------------------------
(* One request at a time, and no statement that fails: then what a request  *)
(* has read is still so when it writes.  The token being refreshed is live  *)
(* until it is replaced, every token a client holds has a row, and so has   *)
(* the login it descends from: a new login is a token that no session of    *)
(* the past descends from.                                                  *)

Sequential == Faults = FALSE /\ \A r, s \in Requests : r = s

OriginsStored ==
  \A t \in Tokens : rows[t] # NoRow => origin[t] \in Tokens /\ rows[origin[t]] # NoRow

GivenStored == \A t \in given : rows[t] # NoRow

SeqOK(r) ==
  /\ req[r].step \in {"checked", "generated", "stored"} /\ req[r].old # NULL
       => Live(req[r].old)
  /\ req[r].step = "stored" => Live(req[r].sec)
  /\ req[r].was \subseteq given
  /\ req[r].step = "password" /\ Watched # "password" => req[r].was = {}

Seq == OriginsStored /\ GivenStored /\ ended \subseteq given /\ \A r \in Requests : SeqOK(r)

\* There are no rows, and nothing was given.
LEMMA InitSeq == Init => Seq
  BY DEF Init, Seq, OriginsStored, GivenStored, SeqOK, Idle, NoRow

(* Steps that leave the rows and their origins alone. *)
LEMMA QuietSeq ==
  ASSUME Seq, Sequential, NEW w \in Requests,
         UNCHANGED <<rows, origin>>, given \subseteq given', GivenStored',
         ended' \subseteq given', SeqOK(w)'
  PROVE  Seq'
  <1>1. OriginsStored'
    BY DEF Seq, OriginsStored
  <1>2. ASSUME NEW r \in Requests PROVE SeqOK(r)'
    <2>1. r = w
      BY DEF Sequential
    <2> QED BY <2>1
  <1> QED BY <1>1, <1>2 DEF Seq

(* Steps that only revoke rows, and end with no refresh under way. *)
LEMMA RevokingSeq ==
  ASSUME Inv, Seq, Sequential, NEW w \in Requests, OnlyRevokes,
         UNCHANGED given, ended' \subseteq given,
         req'[w] = Idle
  PROVE  Seq'
  <1>1. \A t \in Tokens : rows[t] # NoRow <=> rows'[t] # NoRow
    BY RevokesKeep DEF Inv
  <1>2. OriginsStored'
    BY <1>1 DEF Seq, OriginsStored, OnlyRevokes
  <1>3. GivenStored'
    BY <1>1 DEF Seq, GivenStored, Inv, TypeOK
  <1>4. ASSUME NEW r \in Requests PROVE SeqOK(r)'
    <2>1. r = w
      BY DEF Sequential
    <2>2. SeqOK(w)'
      BY DEF SeqOK, Idle
    <2> QED BY <2>1, <2>2
  <1> QED BY <1>2, <1>3, <1>4 DEF Seq

\* The new row is live, and the old one still is: nobody else was there.
LEMMA StoreSeq ==
  ASSUME Inv, Seq, Sequential, NEW w \in Requests, Store(w)
  PROVE  Seq'
  <1> DEFINE n == req[w].sec
             o == req[w].old
  <1>1. /\ TypeOK /\ n \in Tokens /\ rows[n] = NoRow
        /\ rows' = [rows EXCEPT ![n] = LiveRow]
        /\ o # NULL => Known(o) /\ Live(o)
        /\ req[w].step = "generated"
    BY DEF Inv, Store, Insert, ReqsOK, ReqOK, Seq, SeqOK
  <1>2. origin' = [origin EXCEPT ![n] = IF o = NULL THEN n ELSE origin[o]]
    BY DEF Store
  <1>3. /\ rows'[n] = LiveRow /\ LiveRow # NoRow /\ LiveRow.state = "live"
        /\ origin'[n] = IF o = NULL THEN n ELSE origin[o]
        /\ \A t \in Tokens : t # n => rows'[t] = rows[t] /\ origin'[t] = origin[t]
    BY <1>1, <1>2, IdleType DEF TypeOK, LiveRow
  <1>4. \A t \in Tokens : rows[t] # NoRow => rows'[t] # NoRow
    BY <1>1, <1>3
  <1>5. OriginsStored'
    <2> SUFFICES ASSUME NEW t \in Tokens, rows'[t] # NoRow
                 PROVE  origin'[t] \in Tokens /\ rows'[origin'[t]] # NoRow
      BY DEF OriginsStored
    <2>1. CASE t # n
      BY <1>3, <1>4, <2>1 DEF Seq, OriginsStored
    <2>2. CASE t = n /\ o = NULL
      BY <1>1, <1>3, <2>2
    <2>3. CASE t = n /\ o # NULL
      <3>1. origin[o] \in Tokens /\ rows[origin[o]] # NoRow
        BY <1>1, <2>3 DEF Known, Seq, OriginsStored
      <3> QED BY <1>3, <1>4, <2>3, <3>1
    <2> QED BY <2>1, <2>2, <2>3
  <1>6. given' = given \/ given' = given \cup {n}
    BY DEF Store, Respond
  <1>7. GivenStored'
    <2>1. \A t \in given : t \in Tokens /\ rows'[t] # NoRow
      BY <1>1, <1>4 DEF Seq, GivenStored, TypeOK
    <2> QED BY <1>3, <1>6, <2>1 DEF GivenStored
  <1>8. given \subseteq given' /\ ended' \subseteq given'
    BY <1>6 DEF Store, Seq
  <1>9. SeqOK(w)'
    <2>1. CASE o = NULL
      <3>1. req'[w] = Idle
        BY <1>1, <2>1 DEF Store, Respond, Finish, TypeOK
      <3> QED BY <3>1 DEF SeqOK, Idle
    <2>2. CASE o # NULL
      <3>1. req' = [req EXCEPT ![w].step = "stored"] /\ UNCHANGED given
        BY <2>2 DEF Store, Goto
      <3>2. /\ req'[w].step = "stored" /\ req'[w].old = o
            /\ req'[w].sec = n /\ req'[w].was = req[w].was
        BY <1>1, <3>1 DEF TypeOK
      <3>3. o # n /\ o \in Tokens
        BY <1>1, <2>2 DEF Known
      <3>4. rows'[o].state = "live" /\ rows'[n].state = "live"
        BY <1>1, <1>3, <2>2, <3>3 DEF Live
      <3>5. req[w].was \subseteq given'
        BY <3>1 DEF Seq, SeqOK
      <3> QED BY <3>2, <3>4, <3>5 DEF SeqOK, Live
    <2> QED BY <2>1, <2>2
  <1>10. ASSUME NEW r \in Requests PROVE SeqOK(r)'
    <2>1. r = w
      BY DEF Sequential
    <2> QED BY <1>9, <2>1
  <1> QED BY <1>5, <1>7, <1>8, <1>10 DEF Seq

\* The old row is revoked and the new token is given to the client.
LEMMA ReplaceSeq ==
  ASSUME Inv, Seq, Sequential, NEW w \in Requests, Replace(w)
  PROVE  Seq'
  <1> DEFINE n == req[w].sec
             o == req[w].old
             new == [state |-> "revoked", next |-> n]
  <1>1. /\ TypeOK /\ o \in Tokens /\ n \in Tokens /\ rows[n] # NoRow
        /\ UNCHANGED <<origin, ended>> /\ given' = given \cup {n}
        /\ req' = [req EXCEPT ![w] = Idle]
    BY DEF Inv, Replace, ReqsOK, ReqOK, Known, Respond, Finish
  <1>2. rows' = [rows EXCEPT ![o] = new] /\ new # NoRow
    BY DEF Replace, Link, Sequential, NoRow
  <1>3. \A t \in Tokens : rows[t] # NoRow => rows'[t] # NoRow
    BY <1>1, <1>2 DEF TypeOK
  <1>4. \A t \in Tokens : rows'[t] # NoRow => rows[t] # NoRow \/ t = o
    BY <1>1, <1>2 DEF TypeOK
  <1>5. rows[o] # NoRow
    BY DEF Inv, Replace, ReqsOK, ReqOK, Known
  <1>6. OriginsStored'
    BY <1>1, <1>3, <1>4, <1>5 DEF Seq, OriginsStored
  <1>7. GivenStored'
    BY <1>1, <1>3 DEF Seq, GivenStored, TypeOK
  <1>8. ASSUME NEW r \in Requests PROVE SeqOK(r)'
    <2>1. r = w
      BY DEF Sequential
    <2>2. req'[w] = Idle
      BY <1>1 DEF TypeOK
    <2>3. SeqOK(w)'
      BY <2>2 DEF SeqOK, Idle
    <2> QED BY <2>1, <2>3
  <1> QED BY <1>1, <1>6, <1>7, <1>8 DEF Seq

\* Every step of the one request keeps what it may rely on.
LEMMA StepSeq ==
  ASSUME Sequential
  PROVE  Inv /\ Seq /\ [Next]_vars => Seq'
  <1> SUFFICES ASSUME Inv, Seq, [Next]_vars PROVE Seq'
    OBVIOUS
  <1>0. TypeOK /\ ~Faults
    BY DEF Inv, Sequential
  <1>1. ASSUME NEW w \in Requests, UNCHANGED <<rows, origin, given>>,
               ended' = ended \/ ended' = ended \cup req[w].was,
               req' = [req EXCEPT ![w] = Idle]
        PROVE  Seq'
    <2>1. GivenStored' /\ ended' \subseteq given'
      BY <1>0, <1>1 DEF Seq, GivenStored, SeqOK
    <2>2. req'[w] = Idle
      BY <1>0, <1>1 DEF TypeOK
    <2>3. SeqOK(w)'
      BY <2>2 DEF SeqOK, Idle
    <2> QED BY <1>1, <2>1, <2>3, QuietSeq
  <1>2. ASSUME NEW w \in Requests, UNCHANGED <<rows, origin, given, ended>>, SeqOK(w)'
        PROVE  Seq'
    <2>1. GivenStored' /\ ended' \subseteq given'
      BY <1>2 DEF Seq, GivenStored
    <2> QED BY <1>2, <2>1, QuietSeq
  <1>3. ASSUME NEW w \in Requests, RevokeAll, Finish(w), UNCHANGED <<given, origin>>,
               ended' = ended \/ ended' = ended \cup req[w].was
        PROVE  Seq'
    <2>1. OnlyRevokes
      BY <1>0, <1>3, RevokeAllRevokes
    <2>2. req'[w] = Idle
      BY <1>0, <1>3 DEF Finish, TypeOK
    <2>3. ended' \subseteq given
      BY <1>3 DEF Seq, SeqOK
    <2> QED BY <1>3, <2>1, <2>2, <2>3, RevokingSeq
  <1>4. ASSUME NEW w \in Requests, OnlyRevokes, req[w].step = "idle",
               UNCHANGED <<given, ended, req>>
        PROVE  Seq'
    <2>1. \A t \in Tokens : rows[t] # NoRow <=> rows'[t] # NoRow
      BY <1>4, RevokesKeep DEF Inv
    <2>2. OriginsStored' /\ GivenStored'
      BY <1>0, <1>4, <2>1 DEF Seq, OriginsStored, GivenStored, OnlyRevokes, TypeOK
    <2>3. ASSUME NEW r \in Requests PROVE SeqOK(r)'
      <3>1. r = w
        BY DEF Sequential
      <3>2. SeqOK(w)'
        BY <1>4 DEF Seq, SeqOK
      <3> QED BY <3>1, <3>2
    <2> QED BY <1>4, <2>2, <2>3 DEF Seq
  <1>5. ASSUME NEW w \in Requests, Login(w) PROVE Seq'
    <2>1. /\ req'[w].step = "generated" /\ req'[w].old = NULL /\ req'[w].was = {}
          /\ UNCHANGED <<rows, origin, given, ended>>
      BY <1>0, <1>5 DEF Login, Idle, TypeOK
    <2>2. SeqOK(w)'
      BY <2>1 DEF SeqOK
    <2> QED BY <1>2, <2>1, <2>2
  <1>6. ASSUME NEW w \in Requests, NEW t \in Tokens, Lookup(w, t) PROVE Seq'
    <2>1. /\ req'[w].step = "checked" /\ req'[w].old = t /\ req'[w].was = {}
          /\ Live(t) /\ UNCHANGED <<rows, origin, given, ended>>
      BY <1>0, <1>6 DEF Lookup, Idle, TypeOK
    <2>2. SeqOK(w)'
      BY <2>1 DEF SeqOK, Live
    <2> QED BY <1>2, <2>1, <2>2
  <1>7. ASSUME NEW w \in Requests, NEW s \in {"reuse", "revoke"}, Goto(w, s),
               UNCHANGED <<rows, origin, given, ended>>
        PROVE  Seq'
    <2>1. req'[w].step = s /\ req'[w].was = req[w].was
      BY <1>0, <1>7 DEF Goto, TypeOK
    <2>2. SeqOK(w)'
      BY <1>7, <2>1 DEF Seq, SeqOK
    <2> QED BY <1>2, <1>7, <2>2
  <1>8. ASSUME NEW w \in Requests, Generate(w) PROVE Seq'
    <2>1. /\ req[w].step = "checked" /\ req'[w].step = "generated"
          /\ req'[w].old = req[w].old /\ req'[w].was = req[w].was
          /\ UNCHANGED <<rows, origin, given, ended>>
      BY <1>0, <1>8 DEF Generate, TypeOK
    <2>2. SeqOK(w)'
      BY <2>1 DEF Seq, SeqOK, Live
    <2> QED BY <1>2, <2>1, <2>2
  <1>9. ASSUME NEW w \in Requests, NotStored(w) PROVE Seq'
    <2>1. /\ req[w].sec \in Tokens /\ rows[req[w].sec] # NoRow
          /\ UNCHANGED <<rows, origin, ended>> /\ given' = given \cup {req[w].sec}
          /\ req'[w] = Idle
      BY <1>0, <1>9 DEF NotStored, Respond, Finish, Inv, ReqsOK, ReqOK, TypeOK
    <2>2. GivenStored' /\ ended' \subseteq given'
      BY <2>1 DEF Seq, GivenStored
    <2>3. SeqOK(w)'
      BY <2>1 DEF SeqOK, Idle
    <2> QED BY <2>1, <2>2, <2>3, QuietSeq
  <1>10. ASSUME NEW w \in Requests, NEW k, NEW s \in {"logout", "password"},
                s = "password" => k = "password",
                req' = [req EXCEPT ![w] = Ending(k, s)],
                UNCHANGED <<rows, origin, given, ended>>
         PROVE  Seq'
    <2> DEFINE open == IF k = Watched THEN given ELSE {}
    <2>1. req'[w] = [step |-> s, old |-> NULL, sec |-> now, was |-> open]
      BY <1>0, <1>10 DEF Ending, TypeOK
    <2>2. open \subseteq given /\ (s = "password" /\ Watched # "password" => open = {})
      BY <1>10
    <2> HIDE DEF open
    <2>3. SeqOK(w)'
      BY <1>10, <2>1, <2>2 DEF SeqOK
    <2> QED BY <1>2, <1>10, <2>3
  <1>11. ASSUME NEW w \in Requests, Refresh(w) PROVE Seq'
    <2>1. ASSUME NEW t \in Tokens, DetectReuse(w, t) PROVE Seq'
      BY <1>7, <2>1 DEF DetectReuse
    <2>2. CASE EndAll(w)
      BY <1>0, <1>3, <2>2 DEF EndAll
    <2>3. CASE Refuse(w)
      BY <1>1, <2>3 DEF Refuse, Finish
    <2>4. CASE Store(w)
      BY <2>4, StoreSeq
    <2>5. CASE Replace(w)
      BY <2>5, ReplaceSeq
    <2> QED BY <1>6, <1>8, <1>9, <1>11, <2>1, <2>2, <2>3, <2>4, <2>5 DEF Refresh
  <1>12. ASSUME NEW w \in Requests, Close(w) PROVE Seq'
    <2>1. ASSUME NEW t \in Tokens, Logout(w, t) PROVE Seq'
      <3>1. /\ req' = [req EXCEPT ![w] = Ending("revoke", "logout")]
            /\ UNCHANGED <<rows, origin, given, ended>>
        BY <2>1 DEF Logout
      <3>2. "logout" \in {"logout", "password"} /\ "logout" # "password"
        OBVIOUS
      <3> QED BY <1>10, <3>1, <3>2
    <2>2. ASSUME NEW t \in Tokens, ChangePassword(w, t) PROVE Seq'
      <3>1. /\ req' = [req EXCEPT ![w] = Ending("password", "password")]
            /\ UNCHANGED <<rows, origin, given, ended>>
        BY <2>2 DEF ChangePassword
      <3>2. "password" \in {"logout", "password"}
        OBVIOUS
      <3> QED BY <1>10, <3>1, <3>2
    <2>3. ASSUME NEW t \in Tokens, RevokeSession(w, t) PROVE Seq'
      <3>1. Revoked(t) \in Rows
        BY <1>0 DEF TypeOK, Rows, Revoked
      <3>2. OnlyRevokes
        BY <1>0, <2>3, <3>1 DEF RevokeSession, OnlyRevokes, TypeOK
      <3> QED BY <1>4, <2>3, <3>2 DEF RevokeSession
    <2>4. ASSUME NEW t \in Tokens, RevokeOthers(w, t) PROVE Seq'
      <3>1. OnlyRevokes
        BY <1>0, <2>4, RevokeAllRevokes DEF RevokeOthers
      <3> QED BY <1>4, <2>4, <3>1 DEF RevokeOthers
    <2>5. CASE BlacklistOnLogout(w)
      BY <1>7, <2>5 DEF BlacklistOnLogout
    <2>6. CASE BlacklistOnPassword(w)
      BY <1>1, <2>6 DEF BlacklistOnPassword, End, Finish
    <2>7. CASE RevokeOnLogout(w)
      BY <1>0, <1>3, <2>7 DEF RevokeOnLogout, End
    <2> QED BY <1>12, <2>1, <2>2, <2>3, <2>4, <2>5, <2>6, <2>7 DEF Close
  <1>13. CASE UNCHANGED <<rows, given, req, origin, ended>>
    BY <1>13 DEF Seq, OriginsStored, GivenStored, SeqOK, Live
  <1> QED BY <1>5, <1>11, <1>12, <1>13 DEF Next, Tick, vars

-----------------------------------------------------------------------------
(* What ended stays ended: a token of an ended session has a row, so that no *)
(* login begins with it, and a refresh goes on only from a live token.       *)
LEMMA StepEnds ==
  ASSUME Sequential, Watched # "password"
  PROVE  Inv /\ Seq /\ SessionsEnd /\ [Next]_vars => SessionsEnd'
  <1> SUFFICES ASSUME Inv, Seq, SessionsEnd, [Next]_vars PROVE SessionsEnd'
    OBVIOUS
  <1>0. TypeOK /\ ~Faults
    BY DEF Inv, Sequential
  <1>1. ASSUME UNCHANGED <<rows, origin>>, ended' \subseteq ended PROVE SessionsEnd'
    BY <1>1 DEF SessionsEnd, Live
  <1>2. ASSUME OnlyRevokes, ended' \subseteq ended PROVE SessionsEnd'
    BY <1>2 DEF SessionsEnd, Live, OnlyRevokes, Revoked
  <1>3. ASSUME RevokeAll PROVE SessionsEnd'
    <2>1. \A t \in Tokens : ~Live(t)'
      BY <1>3 DEF RevokeAll, Live, Revoked
    <2> QED BY <2>1 DEF SessionsEnd
  <1>4. ASSUME NEW w \in Requests, Store(w) PROVE SessionsEnd'
    <2> DEFINE n == req[w].sec
               o == req[w].old
    <2>1. /\ n \in Tokens /\ rows[n] = NoRow
          /\ rows' = [rows EXCEPT ![n] = LiveRow]
          /\ o # NULL => o \in Tokens /\ Live(o)
          /\ UNCHANGED ended
      BY <1>4 DEF Inv, Store, Insert, ReqsOK, ReqOK, Known, Seq, SeqOK
    <2>2. origin' = [origin EXCEPT ![n] = IF o = NULL THEN n ELSE origin[o]]
      BY <1>4 DEF Store
    <2>3. /\ origin'[n] = IF o = NULL THEN n ELSE origin[o]
          /\ \A t \in Tokens : t # n => rows'[t] = rows[t] /\ origin'[t] = origin[t]
      BY <1>0, <2>1, <2>2 DEF TypeOK
    <2> SUFFICES ASSUME NEW t \in Tokens, rows'[t].state = "live", NEW u \in ended
                 PROVE  origin'[u] # origin'[t]
      BY <2>1 DEF SessionsEnd, Live
    <2>4. u \in Tokens /\ rows[u] # NoRow /\ rows[origin[u]] # NoRow
      BY <1>0 DEF TypeOK, Seq, GivenStored, OriginsStored
    <2>5. origin'[u] = origin[u] /\ origin[u] # n
      BY <2>1, <2>3, <2>4
    <2>6. CASE t # n
      BY <2>3, <2>5, <2>6 DEF SessionsEnd, Live
    <2>7. CASE t = n /\ o = NULL
      BY <2>3, <2>5, <2>7
    <2>8. CASE t = n /\ o # NULL
      BY <2>1, <2>3, <2>5, <2>8 DEF SessionsEnd
    <2> QED BY <2>6, <2>7, <2>8
  <1>5. ASSUME NEW w \in Requests, Replace(w) PROVE SessionsEnd'
    <2>1. /\ rows' = [rows EXCEPT ![req[w].old] = [state |-> "revoked", next |-> req[w].sec]]
          /\ UNCHANGED <<origin, ended>>
      BY <1>0, <1>5 DEF Replace, Link
    <2>2. \A t \in Tokens : Live(t)' => Live(t)
      BY <1>0, <2>1 DEF Live, TypeOK
    <2> QED BY <2>1, <2>2 DEF SessionsEnd
  <1>6. ASSUME NEW w \in Requests, Refresh(w) PROVE SessionsEnd'
    <2>1. CASE EndAll(w)
      BY <1>0, <1>3, <2>1 DEF EndAll
    <2>2. CASE (\E t \in Tokens : Lookup(w, t) \/ DetectReuse(w, t))
               \/ Refuse(w) \/ Generate(w) \/ NotStored(w)
      BY <1>1, <2>2 DEF Lookup, DetectReuse, Refuse, Generate, NotStored
    <2> QED BY <1>4, <1>5, <1>6, <2>1, <2>2 DEF Refresh
  <1>7. ASSUME NEW w \in Requests, Close(w) PROVE SessionsEnd'
    <2>1. ASSUME NEW t \in Tokens, RevokeSession(w, t) PROVE SessionsEnd'
      <3>1. Revoked(t) \in Rows
        BY <1>0 DEF TypeOK, Rows, Revoked
      <3>2. OnlyRevokes
        BY <1>0, <2>1, <3>1 DEF RevokeSession, OnlyRevokes, TypeOK
      <3> QED BY <1>2, <2>1, <3>2 DEF RevokeSession
    <2>2. CASE \E t \in Tokens : RevokeOthers(w, t)
      BY <1>3, <2>2 DEF RevokeOthers
    <2>3. CASE RevokeOnLogout(w)
      BY <1>0, <1>3, <2>3 DEF RevokeOnLogout
    <2>4. CASE BlacklistOnPassword(w)
      <3>1. req[w].was = {}
        BY <2>4 DEF BlacklistOnPassword, Seq, SeqOK
      <3> QED BY <1>1, <2>4, <3>1 DEF BlacklistOnPassword, End
    <2>5. CASE (\E t \in Tokens : Logout(w, t) \/ ChangePassword(w, t))
               \/ BlacklistOnLogout(w)
      BY <1>1, <2>5 DEF Logout, ChangePassword, BlacklistOnLogout
    <2> QED BY <1>7, <2>1, <2>2, <2>3, <2>4, <2>5 DEF Close
  <1>8. CASE UNCHANGED <<rows, origin, ended>>
    BY <1>1, <1>8
  <1> QED BY <1>6, <1>7, <1>8 DEF Next, Login, Tick, vars

(* What one request at a time may rely on holds in every reachable state. *)
THEOREM SeqInvariance ==
  ASSUME Sequential
  PROVE  Spec => []Seq
  <1> QED BY InitSeq, StepSeq, Invariance, PTL DEF Spec

(* Logout (RevokeAllUserTokens) ends every session that was open when it    *)
(* began, for any number of sessions, when requests come one at a time and  *)
(* no statement fails.  A change of password does not, whence the           *)
(* hypothesis on what is watched.                                           *)
THEOREM LogoutEndsSessions ==
  ASSUME Sequential, Watched # "password"
  PROVE  Spec => []SessionsEnd
  <1>1. Init => SessionsEnd
    BY DEF Init, SessionsEnd
  <1> QED BY <1>1, StepEnds, Invariance, SeqInvariance, PTL DEF Spec

-----------------------------------------------------------------------------
(* The mapping of RefreshTokens to Sessions, with its parts named. *)

InUse(t) ==
  Live(t) /\ \A r \in Requests : ~(req[r].step = "stored" /\ req[r].sec = t)

Usable == {<<origin[t], t>> : t \in {u \in Tokens : InUse(u)}}

Spent == {t \in Tokens : rows[t].state = "revoked"}

(* A step of Sessions, said of the mapping's parts. *)
SessionsStep ==
  \/ \E t \in Tokens :
       /\ t \notin Spent /\ \A s \in Usable : s[2] # t /\ s[1] # t
       /\ Usable' = Usable \cup {<<t, t>>}
       /\ Spent' = Spent
  \/ \E s \in Usable, t \in Tokens :
       /\ t \notin Spent /\ \A q \in Usable : q[2] # t
       /\ Usable' = (Usable \ {s}) \cup {<<s[1], t>>}
       /\ Spent' = Spent \cup {s[2]}
  \/ \E S \in SUBSET Usable :
       /\ Usable' = Usable \ S
       /\ Spent' = Spent \cup {s[2] : s \in S}
  \/ Usable' = Usable /\ Spent' = Spent

\* The steps named here are those of Sessions.
LEMMA SessionsStepIs == SessionsStep => [Abstract!Next]_(Abstract!vars)
  BY DEF SessionsStep, Usable, Spent, InUse, Abstract!Next, Abstract!vars, Abstract!Login,
         Abstract!Refresh, Abstract!Revoke, Abstract!Fresh

\* There are no sessions.
LEMMA InitSessions == Init => Abstract!Init
  <1> SUFFICES ASSUME Init PROVE Abstract!Init
    OBVIOUS
  <1>1. \A t \in Tokens : rows[t].state = "none"
    BY DEF Init, NoRow
  <1> QED BY <1>1 DEF Abstract!Init, Live

(* One request: only it can have a token stored but not yet given. *)
LEMMA InUseIs ==
  ASSUME Sequential, NEW w \in Requests, NEW t
  PROVE  /\ InUse(t) <=> Live(t) /\ ~(req[w].step = "stored" /\ req[w].sec = t)
         /\ InUse(t)' <=> Live(t)' /\ ~(req'[w].step = "stored" /\ req'[w].sec = t)
  BY DEF Sequential, InUse, Live

(* Steps that change nothing of the mapping. *)
LEMMA SameSessions ==
  ASSUME \A t \in Tokens : InUse(t)' <=> InUse(t),
         \A t \in Tokens : InUse(t) => origin'[t] = origin[t],
         \A t \in Tokens : rows'[t].state = "revoked" <=> rows[t].state = "revoked"
  PROVE  SessionsStep
  <1>1. Spent' = Spent
    BY DEF Spent
  <1>2. {u \in Tokens : InUse(u)}' = {u \in Tokens : InUse(u)}
    OBVIOUS
  <1>3. Usable' = Usable
    BY <1>2 DEF Usable
  <1> QED BY <1>1, <1>3 DEF SessionsStep

(* Steps that revoke the tokens of a set, all of them in use. *)
LEMMA RevokedSessions ==
  ASSUME NEW T \in SUBSET Tokens,
         \A t \in T : InUse(t),
         \A t \in Tokens : InUse(t)' <=> InUse(t) /\ t \notin T,
         \A t \in Tokens : rows'[t].state = "revoked" <=> rows[t].state = "revoked" \/ t \in T,
         UNCHANGED origin
  PROVE  SessionsStep
  <1> DEFINE S == {<<origin[t], t>> : t \in T}
  <1>1. S \in SUBSET Usable
    BY DEF Usable
  <1>2. {s[2] : s \in S} = T
    <2>1. ASSUME NEW t \in T PROVE t \in {s[2] : s \in S}
      <3>1. <<origin[t], t>> \in S /\ <<origin[t], t>>[2] = t
        OBVIOUS
      <3> HIDE DEF S
      <3> QED BY <3>1
    <2>2. ASSUME NEW s \in S PROVE s[2] \in T
      OBVIOUS
    <2> HIDE DEF S
    <2> QED BY <2>1, <2>2
  <1>3. Spent' = Spent \cup {s[2] : s \in S}
    BY <1>2 DEF Spent
  <1>4. Usable' = Usable \ S
    BY DEF Usable
  <1> HIDE DEF S
  <1> QED BY <1>1, <1>3, <1>4 DEF SessionsStep

(* RevokeAll with no refresh under way ends every session. *)
LEMMA RevokeAllMaps ==
  ASSUME Inv, Sequential, NEW w \in Requests, RevokeAll, UNCHANGED origin,
         req[w].step # "stored"
  PROVE  SessionsStep
  <1> DEFINE T == {t \in Tokens : Live(t)}
  <1>1. ASSUME NEW t \in Tokens
        PROVE  /\ Live(t) => rows'[t].state = "revoked"
               /\ ~Live(t) => rows'[t].state = rows[t].state
    BY DEF RevokeAll, Revoked
  <1>2. \A t \in Tokens : InUse(t) <=> Live(t)
    BY InUseIs
  <1>3. \A t \in Tokens : rows'[t].state = "revoked" <=> rows[t].state = "revoked" \/ t \in T
    <2> SUFFICES ASSUME NEW t \in Tokens
                 PROVE  rows'[t].state = "revoked" <=> rows[t].state = "revoked" \/ t \in T
      OBVIOUS
    <2>1. Live(t) <=> rows[t].state = "live"
      BY DEF Live
    <2>2. CASE Live(t)
      BY <1>1, <2>1, <2>2
    <2>3. CASE ~Live(t)
      BY <1>1, <2>1, <2>3
    <2> QED BY <2>2, <2>3
  <1>4. \A t \in Tokens : ~(rows'[t].state = "live")
    <2> SUFFICES ASSUME NEW t \in Tokens PROVE ~(rows'[t].state = "live")
      OBVIOUS
    <2> QED BY <1>1, Zenon DEF Live
  <1>5. \A t \in Tokens : InUse(t)' <=> InUse(t) /\ t \notin T
    BY <1>2, <1>4 DEF InUse, Live
  <1>6. \A t \in T : InUse(t)
    BY <1>2
  <1> QED BY <1>3, <1>5, <1>6, RevokedSessions

\* A session that is revoked ends, and no other.
LEMMA RevokeSessionMaps ==
  ASSUME Inv, Sequential, NEW w \in Requests, NEW t \in Tokens, RevokeSession(w, t)
  PROVE  SessionsStep
  <1>1. /\ rows' = [rows EXCEPT ![t] = Revoked(t)] /\ Live(t)
        /\ UNCHANGED <<origin, req>> /\ req[w].step = "idle"
    BY DEF RevokeSession
  <1>2. rows'[t].state = "revoked" /\ \A u \in Tokens : u # t => rows'[u] = rows[u]
    BY <1>1 DEF Inv, TypeOK, Revoked
  <1>3. \A u \in Tokens : InUse(u) <=> Live(u)
    BY <1>1, InUseIs
  <1>4. \A u \in Tokens : InUse(u)' <=> rows'[u].state = "live"
    BY <1>1, InUseIs DEF Live
  <1>5. \A u \in Tokens : InUse(u)' <=> InUse(u) /\ u \notin {t}
    BY <1>2, <1>3, <1>4 DEF Live
  <1>6. \A u \in Tokens : rows'[u].state = "revoked" <=> rows[u].state = "revoked" \/ u \in {t}
    BY <1>2
  <1>7. \A u \in {t} : InUse(u)
    BY <1>1, <1>3
  <1> QED BY <1>1, <1>5, <1>6, <1>7, RevokedSessions

(* A login stores a fingerprint that no session has or began with; what a  *)
(* refresh stores does not count yet.                                       *)
LEMMA StoreMaps ==
  ASSUME Inv, Seq, Sequential, NEW w \in Requests, Store(w)
  PROVE  SessionsStep
  <1> DEFINE n == req[w].sec
             o == req[w].old
  <1>1. /\ TypeOK /\ n \in Tokens /\ rows[n] = NoRow
        /\ rows' = [rows EXCEPT ![n] = LiveRow]
        /\ req[w].step = "generated"
    BY DEF Inv, Store, Insert, ReqsOK, ReqOK
  <1>2. origin' = [origin EXCEPT ![n] = IF o = NULL THEN n ELSE origin[o]]
    BY DEF Store
  <1>3. /\ rows'[n] = LiveRow
        /\ origin'[n] = IF o = NULL THEN n ELSE origin[o]
        /\ \A t \in Tokens : t # n => rows'[t] = rows[t] /\ origin'[t] = origin[t]
    BY <1>1, <1>2 DEF TypeOK
  <1>4. \A t \in Tokens : InUse(t) <=> rows[t].state = "live"
    BY <1>1, InUseIs DEF Live
  <1>5. rows[n].state = "none" /\ rows'[n].state = "live"
    BY <1>1, <1>3 DEF NoRow, LiveRow
  <1>6. ~InUse(n)
    BY <1>1, <1>4, <1>5
  <1>7. \A t \in Tokens : rows'[t].state = "revoked" <=> rows[t].state = "revoked"
    BY <1>3, <1>5
  <1>8. CASE o = NULL
    <2>1. req'[w] = Idle
      BY <1>1, <1>8 DEF Store, Respond, Finish, TypeOK
    <2>2. \A t \in Tokens : InUse(t)' <=> rows'[t].state = "live"
      BY <2>1, InUseIs DEF Live, Idle
    <2>3. \A t \in Tokens : InUse(t)' <=> InUse(t) \/ t = n
      BY <1>3, <1>4, <1>5, <2>2
    <2>4. n \notin Spent /\ Spent' = Spent
      BY <1>5, <1>7 DEF Spent
    <2>5. ASSUME NEW t \in Tokens, InUse(t) PROVE t # n /\ origin[t] # n
      <3>1. rows[t] # NoRow
        BY <1>4, <2>5 DEF NoRow
      <3>2. rows[origin[t]] # NoRow
        BY <3>1 DEF Seq, OriginsStored
      <3> QED BY <1>1, <3>1, <3>2
    <2>6. \A s \in Usable : s[2] # n /\ s[1] # n
      BY <2>5 DEF Usable
    <2>7. Usable' = Usable \cup {<<n, n>>}
      <3>1. origin'[n] = n
        BY <1>3, <1>8
      <3>2. \A t \in Tokens : InUse(t) => origin'[t] = origin[t]
        BY <1>3, <1>6
      <3>3. ASSUME NEW s \in Usable' PROVE s \in Usable \cup {<<n, n>>}
        <4>1. PICK t \in Tokens : InUse(t)' /\ s = <<origin'[t], t>>
          BY <3>3 DEF Usable
        <4> QED BY <2>3, <3>1, <3>2, <4>1 DEF Usable
      <3>4. ASSUME NEW s \in Usable PROVE s \in Usable'
        <4>1. PICK t \in Tokens : InUse(t) /\ s = <<origin[t], t>>
          BY <3>4 DEF Usable
        <4>2. InUse(t)' /\ s = <<origin'[t], t>>
          BY <2>3, <3>2, <4>1
        <4> QED BY <4>2 DEF Usable
      <3>5. <<n, n>> \in Usable'
        <4>1. PICK m \in Tokens : m = n
          BY <1>1
        <4>2. InUse(m)' /\ <<m, m>> = <<origin'[m], m>>
          BY <2>3, <3>1, <4>1
        <4>3. <<m, m>> \in Usable'
          BY <4>2 DEF Usable
        <4> QED BY <4>1, <4>3
      <3> QED BY <3>3, <3>4, <3>5
    <2> QED BY <1>1, <2>4, <2>6, <2>7 DEF SessionsStep
  <1>9. CASE o # NULL
    <2>1. req' = [req EXCEPT ![w].step = "stored"]
      BY <1>9 DEF Store, Goto
    <2>2. req'[w].step = "stored" /\ req'[w].sec = n
      BY <1>1, <2>1 DEF TypeOK
    <2>3. \A t \in Tokens : InUse(t)' <=> rows'[t].state = "live" /\ t # n
      BY <2>2, InUseIs DEF Live
    <2>4. \A t \in Tokens : InUse(t)' <=> InUse(t)
      BY <1>3, <1>4, <1>5, <2>3
    <2>5. \A t \in Tokens : InUse(t) => origin'[t] = origin[t]
      BY <1>3, <1>6
    <2> QED BY <1>7, <2>4, <2>5, SameSessions
  <1> QED BY <1>8, <1>9

(* The token that a refresh stored takes the place of the old one. *)
LEMMA ReplaceMaps ==
  ASSUME Inv, Seq, Sequential, NEW w \in Requests, Replace(w)
  PROVE  SessionsStep
  <1> DEFINE n == req[w].sec
             o == req[w].old
             new == [state |-> "revoked", next |-> n]
  <1>1. /\ TypeOK /\ o \in Tokens /\ n \in Tokens /\ o # n
        /\ Live(o) /\ Live(n) /\ origin[n] = origin[o]
        /\ req[w].step = "stored" /\ UNCHANGED origin
        /\ req' = [req EXCEPT ![w] = Idle]
    <2>1. o \in Tokens /\ n \in Tokens /\ o < n /\ origin[n] = origin[o] /\ req[w].step = "stored"
      BY DEF Replace, Inv, ReqsOK, ReqOK, Known
    <2>2. o # NULL /\ o # n
      BY <2>1 DEF Tokens, NULL
    <2>3. Live(o) /\ Live(n)
      BY <2>1, <2>2 DEF Seq, SeqOK
    <2> QED BY <2>1, <2>2, <2>3 DEF Inv, Replace, Respond, Finish
  <1>2. rows' = [rows EXCEPT ![o] = new]
    BY DEF Replace, Link, Sequential
  <1>3. rows'[o].state = "revoked" /\ \A t \in Tokens : t # o => rows'[t] = rows[t]
    BY <1>1, <1>2 DEF TypeOK
  <1>4. req'[w] = Idle
    BY <1>1 DEF TypeOK
  <1>5. \A t \in Tokens : InUse(t) <=> rows[t].state = "live" /\ t # n
    BY <1>1, InUseIs DEF Live
  <1>6. \A t \in Tokens : InUse(t)' <=> rows'[t].state = "live"
    BY <1>4, InUseIs DEF Live, Idle
  <1>7. \A t \in Tokens : InUse(t)' <=> (InUse(t) /\ t # o) \/ t = n
    BY <1>1, <1>3, <1>5, <1>6 DEF Live
  <1>8. InUse(o) /\ ~InUse(n) /\ rows[n].state # "revoked"
    BY <1>1, <1>5 DEF Live
  <1>9. Spent' = Spent \cup {o} /\ n \notin Spent
    BY <1>1, <1>3, <1>8 DEF Spent
  <1> DEFINE s == <<origin[o], o>>
  <1>10. s \in Usable /\ s[1] = origin[o] /\ s[2] = o
    BY <1>1, <1>8 DEF Usable
  <1>11. \A q \in Usable : q[2] # n
    BY <1>8 DEF Usable
  <1>12. Usable' = (Usable \ {s}) \cup {<<s[1], n>>}
    <2>1. ASSUME NEW q \in Usable' PROVE q \in (Usable \ {s}) \cup {<<s[1], n>>}
      <3>1. PICK t \in Tokens : InUse(t)' /\ q = <<origin[t], t>>
        BY <1>1, <2>1 DEF Usable
      <3>2. CASE t = n
        BY <1>1, <3>1, <3>2
      <3>3. CASE t # n
        <4>1. InUse(t) /\ t # o
          BY <1>7, <3>1, <3>3
        <4> QED BY <3>1, <4>1 DEF Usable
      <3> QED BY <3>2, <3>3
    <2>2. ASSUME NEW q \in Usable, q # s PROVE q \in Usable'
      <3>1. PICK t \in Tokens : InUse(t) /\ q = <<origin[t], t>>
        BY <2>2 DEF Usable
      <3>2. InUse(t)' /\ q = <<origin'[t], t>>
        BY <1>1, <1>7, <2>2, <3>1
      <3> QED BY <3>2 DEF Usable
    <2>3. <<s[1], n>> \in Usable'
      <3>1. PICK m \in Tokens : m = n
        BY <1>1
      <3>2. InUse(m)' /\ <<s[1], m>> = <<origin'[m], m>>
        BY <1>1, <1>7, <3>1
      <3>3. <<s[1], m>> \in Usable'
        BY <3>2 DEF Usable
      <3> QED BY <3>1, <3>3
    <2> QED BY <2>1, <2>2, <2>3
  <1> HIDE DEF s, n, o
  <1>13. \E q \in Usable, t \in Tokens :
           /\ t \notin Spent /\ \A p \in Usable : p[2] # t
           /\ Usable' = (Usable \ {q}) \cup {<<q[1], t>>}
           /\ Spent' = Spent \cup {q[2]}
    BY <1>1, <1>9, <1>10, <1>11, <1>12
  <1> QED BY <1>13 DEF SessionsStep

\* Every step is one of Sessions, or nothing that Sessions sees.
LEMMA StepSessions ==
  ASSUME Sequential
  PROVE  Inv /\ Seq /\ [Next]_vars => SessionsStep
  <1> SUFFICES ASSUME Inv, Seq, [Next]_vars PROVE SessionsStep
    OBVIOUS
  <1>0. TypeOK /\ ~Faults
    BY DEF Inv, Sequential
  <1>1. ASSUME NEW w \in Requests, UNCHANGED <<rows, origin>>,
               req[w].step # "stored", req'[w].step # "stored"
        PROVE  SessionsStep
    <2>1. \A t \in Tokens : InUse(t)' <=> InUse(t)
      BY <1>1, InUseIs DEF Live
    <2> QED BY <1>1, <2>1, SameSessions
  <1>2. ASSUME NEW w \in Requests, Refresh(w) PROVE SessionsStep
    <2>1. CASE EndAll(w)
      BY <1>0, <2>1, RevokeAllMaps DEF EndAll
    <2>2. CASE Store(w)
      BY <2>2, StoreMaps
    <2>3. CASE Replace(w)
      BY <2>3, ReplaceMaps
    <2>4. CASE \E t \in Tokens : Lookup(w, t) \/ DetectReuse(w, t)
      BY <1>0, <1>1, <2>4 DEF Lookup, DetectReuse, Goto, Idle, TypeOK
    <2>5. CASE Refuse(w) \/ Generate(w) \/ NotStored(w)
      BY <1>0, <1>1, <2>5 DEF Refuse, Generate, NotStored, Respond, Finish, Idle, TypeOK
    <2> QED BY <1>2, <2>1, <2>2, <2>3, <2>4, <2>5 DEF Refresh
  <1>3. ASSUME NEW w \in Requests, Close(w) PROVE SessionsStep
    <2>1. CASE \E t \in Tokens : RevokeSession(w, t)
      BY <2>1, RevokeSessionMaps
    <2>2. CASE \E t \in Tokens : RevokeOthers(w, t)
      BY <2>2, RevokeAllMaps DEF RevokeOthers
    <2>3. CASE RevokeOnLogout(w)
      BY <1>0, <2>3, RevokeAllMaps DEF RevokeOnLogout
    <2>4. CASE \E t \in Tokens : Logout(w, t) \/ ChangePassword(w, t)
      BY <1>0, <1>1, <2>4 DEF Logout, ChangePassword, Ending, TypeOK
    <2>5. CASE BlacklistOnLogout(w) \/ BlacklistOnPassword(w)
      BY <1>0, <1>1, <2>5 DEF BlacklistOnLogout, BlacklistOnPassword, Goto, Finish, Idle, TypeOK
    <2> QED BY <1>3, <2>1, <2>2, <2>3, <2>4, <2>5 DEF Close
  <1>4. ASSUME NEW w \in Requests, Login(w) PROVE SessionsStep
    BY <1>0, <1>1, <1>4 DEF Login, Idle, TypeOK
  <1>5. CASE UNCHANGED <<rows, req, origin>>
    <2>1. \A t \in Tokens : InUse(t)' <=> InUse(t)
      BY <1>5 DEF InUse, Live
    <2> QED BY <1>5, <2>1, SameSessions
  <1> QED BY <1>2, <1>3, <1>4, <1>5 DEF Next, Tick, vars

(* Rotation keeps the promise of Sessions when requests come one at a time  *)
(* and no statement fails: of the tokens of one login at most one is        *)
(* usable, and what was replaced or revoked never comes back.               *)
THEOREM Refinement ==
  ASSUME Sequential
  PROVE  Spec => ImplementsSessions
  <1>1. Inv /\ Seq /\ [Next]_vars => [Abstract!Next]_(Abstract!vars)
    BY StepSessions, SessionsStepIs
  <1> QED BY <1>1, InitSessions, Invariance, SeqInvariance, PTL
       DEF Spec, ImplementsSessions, Abstract!Spec

-----------------------------------------------------------------------------
(* What Sessions promises, said of the rows themselves. *)

OneEach == \A s, q \in Usable : s[1] = q[1] => s = q

(* A step of Sessions puts a token in the place of its login's only one.    *)
LEMMA StepOneEach == OneEach /\ SessionsStep => OneEach'
  <1> SUFFICES ASSUME OneEach, SessionsStep,
                      NEW s \in Usable', NEW q \in Usable', s[1] = q[1]
               PROVE  s = q
    BY DEF OneEach
  <1> PICK U, V : U = Usable /\ V = Usable'
    OBVIOUS
  <1>1. \A x, y \in U : x[1] = y[1] => x = y
    BY DEF OneEach
  <1>2. \/ V = U
        \/ \E S \in SUBSET U : V = U \ S
        \/ \E t \in Tokens : /\ \A x \in U : x[1] # t
                             /\ V = U \cup {<<t, t>>}
        \/ \E x \in U, t \in Tokens : V = (U \ {x}) \cup {<<x[1], t>>}
    BY DEF SessionsStep
  <1>3. s \in V /\ q \in V
    OBVIOUS
  <1> QED BY <1>1, <1>2, <1>3

(* Of the tokens that descend from one login, one at most is live and given *)
(* out (RefreshTokenHandler: revoke the old, store the new), when requests  *)
(* come one at a time and no statement fails.                               *)
THEOREM OneTokenPerLogin ==
  ASSUME Sequential
  PROVE  Spec => [](\A t, u \in Tokens :
                      InUse(t) /\ InUse(u) /\ origin[t] = origin[u] => t = u)
  <1>1. Init => OneEach
    BY DEF Init, NoRow, OneEach, Usable, InUse, Live
  <1>2. OneEach => \A t, u \in Tokens :
                     InUse(t) /\ InUse(u) /\ origin[t] = origin[u] => t = u
    <2> SUFFICES ASSUME OneEach, NEW t \in Tokens, NEW u \in Tokens,
                        InUse(t), InUse(u), origin[t] = origin[u]
                 PROVE  t = u
      OBVIOUS
    <2>1. <<origin[t], t>> \in Usable /\ <<origin[u], u>> \in Usable
      BY DEF Usable
    <2>2. <<origin[t], t>> = <<origin[u], u>>
      BY <2>1 DEF OneEach
    <2> QED BY <2>2
  <1> QED BY <1>1, <1>2, StepOneEach, StepSessions, Invariance, SeqInvariance, PTL
       DEF Spec
=============================================================================

---------------------------- MODULE RefreshTokens ----------------------------
(***************************************************************************)
(* The sessions of one user: login, refresh with rotation and reuse        *)
(* detection, logout, change of password and the session endpoints.        *)
(* Source: api/handler/auth_handler.go, session_handler.go,                *)
(* internal/auth/refresh_token_repository.go, pkg/auth/jwt.go,             *)
(* blacklist.go, db/migrations/000012_create_refresh_tokens.up.sql.        *)
(*                                                                         *)
(* A token carries the user and times in whole seconds and nothing else,   *)
(* so the tokens of one user ARE the seconds they were issued in: two that *)
(* are issued in one second are the same token, with one fingerprint.  The *)
(* statements of a handler run one by one, each in its own transaction,    *)
(* and an error of a statement that writes is only logged.                 *)
(***************************************************************************)
EXTENDS Integers

CONSTANTS
  Requests,   \* requests the server handles at one time
  MaxTime,    \* bound: seconds
  Faults,     \* whether statements that write may fail
  Watched     \* history: the last step of the requests whose endings are kept

ASSUME MaxTimeAssumption == MaxTime \in Nat \ {0}
ASSUME FaultsAssumption == Faults \in BOOLEAN

Tokens == 1 .. MaxTime

VARIABLES
  now,        \* the second
  rows,       \* refresh_tokens, by fingerprint: state, and the replacement
  blacklist,  \* token:user_blacklist in Redis; 0 when the key is absent
  revoked,    \* access tokens that are blacklisted one by one
  given,      \* tokens that responses have carried
  req,        \* what each request is doing
  origin,     \* history: the login each stored token descends from
  ended       \* history: tokens given before a completed Watched request began

vars == <<now, rows, blacklist, revoked, given, req, origin, ended>>

NULL == 0
NoRow == [state |-> "none", next |-> NULL]
LiveRow == [state |-> "live", next |-> NULL]

Idle == [step |-> "idle", old |-> NULL, sec |-> 0, was |-> {}]

Rows == [state: {"none", "live", "revoked"}, next: 0 .. MaxTime]

Steps == {"idle", "checked", "generated", "stored", "reuse",
          "logout", "revoke", "password"}

TypeOK ==
  /\ now \in Tokens
  /\ rows \in [Tokens -> Rows]
  /\ blacklist \in 0 .. MaxTime
  /\ revoked \subseteq Tokens
  /\ given \subseteq Tokens
  /\ req \in [Requests -> [step: Steps, old: 0 .. MaxTime, sec: 0 .. MaxTime,
                           was: SUBSET Tokens]]
  /\ origin \in [Tokens -> 0 .. MaxTime]
  /\ ended \subseteq Tokens

Init ==
  /\ now = 1
  /\ rows = [t \in Tokens |-> NoRow]
  /\ blacklist = 0
  /\ revoked = {}
  /\ given = {}
  /\ req = [r \in Requests |-> Idle]
  /\ origin = [t \in Tokens |-> 0]
  /\ ended = {}

Live(t) == rows[t].state = "live"

\* IsUserTokensBlacklisted, IsTokenBlacklisted.
Accepted(t) == t \in given /\ t \notin revoked /\ blacklist <= t

-----------------------------------------------------------------------------
Goto(r, step) == req' = [req EXCEPT ![r].step = step]

Finish(r) == req' = [req EXCEPT ![r] = Idle]

\* The handler answers with the token it generated.
Respond(r) == given' = given \cup {req[r].sec} /\ Finish(r)

\* A request that ends tokens and whose last step is k begins.
Ending(k, step) ==
  [step |-> step, old |-> NULL, sec |-> now, was |-> IF k = Watched THEN given ELSE {}]

\* Mutant of Insert: ON CONFLICT (token_fingerprint) DO UPDATE.
Upsert(t) == rows' = [rows EXCEPT ![t] = LiveRow]

\* StoreRefreshToken; the fingerprint is unique.
Insert(t) == rows[t] = NoRow /\ rows' = [rows EXCEPT ![t] = LiveRow]

\* Mutant of Link: the replacement is recorded, revoked_at is not set.
LinkOnly(t, u) == rows' = [rows EXCEPT ![t].next = u]

\* RevokeToken: whatever the row says now.
Link(t, u) == rows' = [rows EXCEPT ![t] = [state |-> "revoked", next |-> u]]

\* revoked_at set, the replacement left as it is.
Revoked(t) == [state |-> "revoked", next |-> rows[t].next]

\* Mutant of RevokeAll: only what a rotation replaced.
RevokeReplaced ==
  rows' = [t \in Tokens |-> IF Live(t) /\ rows[t].next # NULL
                            THEN Revoked(t) ELSE rows[t]]

\* RevokeAllUserTokens, RevokeOtherSessions with no fingerprint to keep.
RevokeAll ==
  rows' = [t \in Tokens |-> IF Live(t) THEN Revoked(t) ELSE rows[t]]

-----------------------------------------------------------------------------
\* Password, or second factor, accepted: the tokens are generated.
Login(r) ==
  /\ req[r].step = "idle"
  /\ req' = [req EXCEPT ![r] = [Idle EXCEPT !.step = "generated", !.sec = now]]
  /\ UNCHANGED <<now, rows, blacklist, revoked, given, origin, ended>>

\* A refresh looks its token up.  No row, or a revoked one: it is refused.
Lookup(r, t) ==
  /\ req[r].step = "idle" /\ t \in given
  /\ Live(t)
  /\ req' = [req EXCEPT ![r] = [Idle EXCEPT !.step = "checked", !.old = t]]
  /\ UNCHANGED <<now, rows, blacklist, revoked, given, origin, ended>>

\* A revoked token that was replaced.
DetectReuse(r, t) ==
  /\ req[r].step = "idle" /\ t \in given
  /\ rows[t].state = "revoked" /\ rows[t].next # NULL
  /\ Goto(r, "reuse")
  /\ UNCHANGED <<now, rows, blacklist, revoked, given, origin, ended>>

EndAll(r) ==
  /\ req[r].step = "reuse"
  /\ RevokeAll \/ (Faults /\ UNCHANGED rows)
  /\ Finish(r)
  /\ UNCHANGED <<now, blacklist, revoked, given, origin, ended>>

\* The user is gone, inactive or locked.
Refuse(r) ==
  /\ req[r].step = "checked"
  /\ Finish(r)
  /\ UNCHANGED <<now, rows, blacklist, revoked, given, origin, ended>>

Generate(r) ==
  /\ req[r].step = "checked"
  /\ req' = [req EXCEPT ![r].step = "generated", ![r].sec = now]
  /\ UNCHANGED <<now, rows, blacklist, revoked, given, origin, ended>>

Store(r) ==
  /\ req[r].step = "generated"
  /\ Insert(req[r].sec)
  /\ origin' = [origin EXCEPT ![req[r].sec] =
                  IF req[r].old = NULL THEN req[r].sec ELSE origin[req[r].old]]
  /\ IF req[r].old = NULL THEN Respond(r) ELSE (Goto(r, "stored") /\ UNCHANGED given)
  /\ UNCHANGED <<now, blacklist, revoked, ended>>

\* Mutant of NotStored: no foreign key stops the replacement from being recorded.
NotStoredButLinked(r) ==
  /\ req[r].step = "generated"
  /\ rows[req[r].sec] # NoRow
  /\ IF req[r].old = NULL THEN UNCHANGED rows ELSE Link(req[r].old, req[r].sec)
  /\ Respond(r)
  /\ UNCHANGED <<now, blacklist, revoked, origin, ended>>

\* No row, so no id: a refresh goes on with replaced_by_token_id 0, which the
\* foreign key refuses, and the old token stays as it is.
NotStored(r) ==
  /\ req[r].step = "generated"
  /\ rows[req[r].sec] # NoRow \/ Faults
  /\ Respond(r)
  /\ UNCHANGED <<now, rows, blacklist, revoked, origin, ended>>

Replace(r) ==
  /\ req[r].step = "stored"
  /\ Link(req[r].old, req[r].sec) \/ (Faults /\ UNCHANGED rows)
  /\ Respond(r)
  /\ UNCHANGED <<now, blacklist, revoked, origin, ended>>

-----------------------------------------------------------------------------
\* Logout with an access token: it is blacklisted, then the user's tokens are,
\* as of a time taken before Redis is asked, then the rows are revoked.
Logout(r, t) ==
  /\ req[r].step = "idle" /\ t \in given
  /\ revoked' = revoked \cup {t} \/ (Faults /\ UNCHANGED revoked)
  /\ req' = [req EXCEPT ![r] = Ending("revoke", "logout")]
  /\ UNCHANGED <<now, rows, blacklist, given, origin, ended>>

\* The password has been changed, after the middleware accepted the token.
ChangePassword(r, t) ==
  /\ req[r].step = "idle" /\ Accepted(t)
  /\ req' = [req EXCEPT ![r] = Ending("password", "password")]
  /\ UNCHANGED <<now, rows, blacklist, revoked, given, origin, ended>>

\* Mutant of Blacklisted: the time is rounded up.
BlacklistedUp(r) == blacklist' = req[r].sec + 1

Blacklisted(r) == blacklist' = req[r].sec \/ (Faults /\ UNCHANGED blacklist)

BlacklistOnLogout(r) ==
  /\ req[r].step = "logout"
  /\ Blacklisted(r)
  /\ Goto(r, "revoke")
  /\ UNCHANGED <<now, rows, revoked, given, origin, ended>>

End(r) == ended' = ended \cup req[r].was

BlacklistOnPassword(r) ==
  /\ req[r].step = "password"
  /\ Blacklisted(r)
  /\ End(r) /\ Finish(r)
  /\ UNCHANGED <<now, rows, revoked, given, origin>>

RevokeOnLogout(r) ==
  /\ req[r].step = "revoke"
  /\ RevokeAll \/ (Faults /\ UNCHANGED rows)
  /\ End(r) /\ Finish(r)
  /\ UNCHANGED <<now, blacklist, revoked, given, origin>>

\* The session endpoints, one statement each.
RevokeSession(r, t) ==
  /\ req[r].step = "idle" /\ Live(t) /\ \E a \in given : Accepted(a)
  /\ rows' = [rows EXCEPT ![t] = Revoked(t)]
  /\ UNCHANGED <<now, blacklist, revoked, given, req, origin, ended>>

RevokeOthers(r, t) ==
  /\ req[r].step = "idle" /\ Accepted(t)
  /\ RevokeAll
  /\ UNCHANGED <<now, blacklist, revoked, given, req, origin, ended>>

Tick ==
  /\ now < MaxTime
  /\ now' = now + 1
  /\ UNCHANGED <<rows, blacklist, revoked, given, req, origin, ended>>

Refresh(r) ==
  \/ \E t \in Tokens : Lookup(r, t) \/ DetectReuse(r, t)
  \/ EndAll(r) \/ Refuse(r) \/ Generate(r)
  \/ Store(r) \/ NotStored(r) \/ Replace(r)

Close(r) ==
  \/ \E t \in Tokens : \/ Logout(r, t) \/ ChangePassword(r, t)
                       \/ RevokeSession(r, t) \/ RevokeOthers(r, t)
  \/ BlacklistOnLogout(r) \/ BlacklistOnPassword(r) \/ RevokeOnLogout(r)

Next ==
  \/ \E r \in Requests : Login(r) \/ Refresh(r) \/ Close(r)
  \/ Tick

Spec == Init /\ [][Next]_vars

-----------------------------------------------------------------------------
\* Rotation only goes forward: a replaced token is revoked and points to a
\* stored one that was issued later, so the chain that reuse detection relies
\* on has no loop, whatever failed or was generated twice in one second.
ChainsForward ==
  \A t \in Tokens :
    rows[t].next # NULL =>
      /\ rows[t].state = "revoked"
      /\ rows[t].next > t
      /\ rows[rows[t].next] # NoRow

\* A token stays in the session it began in: what replaces it descends from
\* the same login.
ChainsKeepSession ==
  \A t \in Tokens : rows[t].next # NULL => origin[rows[t].next] = origin[t]

\* A revoked token is never live again, although a second request in the same
\* second stores the same fingerprint, and a replaced one stays marked as such.
RevokedForever ==
  [][\A t \in Tokens :
       rows[t].state = "revoked" =>
         /\ rows'[t].state = "revoked"
         /\ rows[t].next # NULL => rows'[t].next # NULL]_vars

\* "Reference to the new token that replaced this one during rotation": what a
\* refresh stored is named by the token it replaced once the refresh is over.
ReplacementsRecorded ==
  \A t \in Tokens :
    (/\ Live(t) /\ origin[t] # t
     /\ \A r \in Requests : ~(req[r].step = "stored" /\ req[r].sec = t))
    => \E u \in Tokens : rows[u].next = t

\* After a logout (or a change of password, if that is watched) no session that
\* was open when it began makes new tokens.
SessionsEnd ==
  \A t \in Tokens : Live(t) => \A u \in ended : origin[u] # origin[t]

\* One request at a time, the rows keep the promise of Sessions: what a refresh
\* has stored but not yet given counts when the old token is replaced.
Abstract == INSTANCE Sessions WITH
  usable <- {<<origin[t], t>> : t \in
               {u \in Tokens : Live(u) /\ \A r \in Requests :
                                 ~(req[r].step = "stored" /\ req[r].sec = u)}},
  spent  <- {t \in Tokens : rows[t].state = "revoked"}

ImplementsSessions == Abstract!Spec
=============================================================================

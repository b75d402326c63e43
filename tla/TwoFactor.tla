----------------------------- MODULE TwoFactor -----------------------------
(***************************************************************************)
(* The second factor of one user: setting it up, the one-time codes of     *)
(* e-mail and SMS, backup codes, and the second step of a login.           *)
(* Source: api/handler/two_factor_handler.go, auth_handler.go,             *)
(* internal/auth/totp.go.                                                  *)
(*                                                                         *)
(* Every statement of a handler is a step, and the handlers of the user's  *)
(* requests interleave.  A secret, a one-time code and a batch of backup   *)
(* codes are values of their own: the draws of the random generator do not *)
(* coincide, and one code stands for the ten of a batch.  A TOTP code is   *)
(* right when it comes from the secret that is stored.                     *)
(***************************************************************************)
EXTENDS Naturals, FiniteSets

CONSTANTS
  Requests,   \* requests of the user at one time
  Secrets,    \* TOTP secrets that can be generated
  Codes,      \* one-time codes that can be generated
  Batches,    \* batches of backup codes that can be generated
  None,       \* no secret; what is typed wrongly
  Faults      \* whether statements, mails and answers may fail

ASSUME FaultsAssumption == Faults \in BOOLEAN
ASSUME DrawsAssumption ==
  /\ None \notin Secrets \cup Codes \cup Batches
  /\ Secrets \cap Codes = {} /\ Secrets \cap Batches = {} /\ Codes \cap Batches = {}
ASSUME RequestsAssumption == IsFiniteSet(Requests)

VARIABLES
  user,     \* two_factor_enabled, two_factor_method, totp_secret
  otps,     \* unused, unexpired rows of two_factor_otp_codes
  backups,  \* unused rows of two_factor_backup_codes, as they are spelled
  req,      \* where each request is
  made,     \* what has been generated
  shown,    \* what has reached the user
  spent,    \* history: one-time codes that were accepted
  overlap   \* history: two requests have been in progress at one time

vars == <<user, otps, backups, req, made, shown, spent, overlap>>

Things == Secrets \cup Codes \cup Batches
Methods == {"totp", "email", "sms"}
NoMethod == "none"
Steps == {"idle", "set", "invalidate", "insert", "validate", "backup",
          "enable", "disable", "delete", "commit"}
Kinds == {"none", "verify", "disable", "regenerate", "login"}

UserRow == [enabled: BOOLEAN, method: Methods \cup {NoMethod}, secret: Secrets \cup {None}]
Spelled == [code: Batches, dashed: BOOLEAN]
Request == [kind: Kinds, step: Steps, method: Methods \cup {NoMethod},
            typed: Things \cup {None}, gone: SUBSET Spelled]

\* A request that has only to go on: what it asked for and typed no longer counts.
Stage(step, method) ==
  [kind |-> "none", step |-> step, method |-> method, typed |-> None, gone |-> {}]
Idle == Stage("idle", NoMethod)

TypeOK ==
  /\ user \in UserRow
  /\ otps \subseteq [code: Codes, method: Methods \cup {NoMethod}]
  /\ backups \subseteq Spelled
  /\ req \in [Requests -> Request]
  /\ made \subseteq Things
  /\ shown \subseteq made
  /\ spent \subseteq made \cap Codes
  /\ overlap \in BOOLEAN

Init ==
  /\ user = [enabled |-> FALSE, method |-> NoMethod, secret |-> None]
  /\ otps = {} /\ backups = {}
  /\ req = [r \in Requests |-> Idle]
  /\ made = {} /\ shown = {} /\ spent = {}
  /\ overlap = FALSE

-----------------------------------------------------------------------------
(* A handler begins by reading whether 2FA is enabled, and how.             *)

Begin(r, g) ==
  /\ req[r] = Idle
  /\ req' = [req EXCEPT ![r] = g]
  /\ overlap' = (overlap \/ \E q \in Requests \ {r} : req[q] # Idle)
  /\ UNCHANGED <<user, otps, backups, made, shown, spent>>

\* What is typed is checked, by the method that was read, on behalf of kind.
\* Only what was given out, and for that method or as a backup code, is typed:
\* anything else is refused like a code that is used up, and nobody counts.
Check(r, kind, step, method, typed) ==
  /\ CASE typed \in Secrets -> method = "totp"
       [] typed \in Codes   -> method \in {"email", "sms"}
       [] typed \in Batches -> kind \in {"login", "disable"}
  /\ Begin(r, [kind |-> kind, step |-> step, method |-> method, typed |-> typed, gone |-> {}])

Send(r, method) == Begin(r, Stage("invalidate", method))

\* The method of a login: e-mail when there is no second factor.
LoginMethod == IF user.enabled THEN user.method ELSE "email"

\* LoginHandler after the password, which also falls back to e-mail when
\* there is a second factor without a method.
Login(r) ==
  LET m == IF user.enabled /\ user.method # NoMethod THEN user.method ELSE "email"
  IN  m # "totp" /\ Send(r, m)

SendLoginCode(r) ==
  LoginMethod # "totp" /\ Send(r, LoginMethod)

SendCode(r) ==
  /\ user.enabled /\ user.method # "totp"
  /\ Send(r, user.method)

\* Mutant of Setup: started whether or not there is a second factor.
SetupAnyway(r, m) == Begin(r, Stage("set", m))

Setup(r, m) == ~user.enabled /\ Begin(r, Stage("set", m))

VerifySetup(r, typed) ==
  /\ ~user.enabled /\ user.method # NoMethod
  /\ Check(r, "verify", "validate", user.method, typed)

Disable(r, typed) ==
  user.enabled /\ Check(r, "disable", "validate", user.method, typed)

Regenerate(r, typed) ==
  user.enabled /\ Check(r, "regenerate", "validate", user.method, typed)

\* With use_backup the code is only tried as a backup code.
VerifyLogin(r, typed) ==
  \E step \in {"validate", "backup"} : Check(r, "login", step, LoginMethod, typed)

-----------------------------------------------------------------------------
(* The statements that follow.                                              *)

At(r, step) == req[r].step = step
Proceed(r, step) == req' = [req EXCEPT ![r] = Stage(step, NoMethod)]

\* x is generated, and sent to the user or not.  That a mail is lost needs no
\* step: the user need not type what it said.
Give(x, sent) ==
  /\ x \notin made /\ made' = made \cup {x}
  /\ shown' = IF sent THEN shown \cup {x} ELSE shown

\* SetupTOTP stores a secret with the method, Set2FAMethod the method alone.
SetMethod(r) ==
  LET m == req[r].method IN
  /\ At(r, "set")
  /\ IF m = "totp"
     THEN \E s \in Secrets :
            /\ user' = [user EXCEPT !.method = m, !.secret = s]
            /\ \E answered \in {TRUE, ~Faults} : Give(s, answered)
            /\ Proceed(r, "idle")
     ELSE /\ user' = [user EXCEPT !.method = m]
          /\ req' = [req EXCEPT ![r] = Stage("invalidate", m)]
          /\ UNCHANGED <<made, shown>>
  /\ UNCHANGED <<otps, backups, spent, overlap>>

\* Mutant of Invalidate: the codes of the other methods.
InvalidateOthers(r) ==
  /\ At(r, "invalidate")
  /\ otps' = {o \in otps : o.method = req[r].method}
  /\ req' = [req EXCEPT ![r] = Stage("insert", req[r].method)]
  /\ UNCHANGED <<user, backups, made, shown, spent, overlap>>

\* GenerateOTPCode uses up the codes there are and inserts one, in two
\* statements.
Invalidate(r) ==
  /\ At(r, "invalidate")
  /\ otps' = {o \in otps : o.method # req[r].method}
  /\ req' = [req EXCEPT ![r] = Stage("insert", req[r].method)]
  /\ UNCHANGED <<user, backups, made, shown, spent, overlap>>

\* Mutant of Insert: sent without being stored.
InsertNothing(r) ==
  /\ At(r, "insert")
  /\ \E c \in Codes : shown' = IF req[r].method = "email" THEN shown \cup {c} ELSE shown
  /\ Proceed(r, "idle")
  /\ UNCHANGED <<user, otps, backups, made, spent, overlap>>

\* Only e-mail is sent; SMS is yet to be written.
Insert(r) ==
  /\ At(r, "insert")
  /\ \E c \in Codes :
       /\ otps' = otps \cup {[code |-> c, method |-> req[r].method]}
       /\ Give(c, req[r].method = "email")
  /\ Proceed(r, "idle")
  /\ UNCHANGED <<user, backups, spent, overlap>>

\* The ten minutes of a code are over.
ExpireCode ==
  /\ \E o \in otps : otps' = otps \ {o}
  /\ UNCHANGED <<user, backups, req, made, shown, spent, overlap>>

\* Where a request goes with a right code; a login gets its tokens.
After(kind) ==
  CASE kind = "verify"     -> "enable"
    [] kind = "disable"    -> "disable"
    [] kind = "regenerate" -> "delete"
    [] kind = "login"      -> "idle"

RightTOTP(g) == g.method = "totp" /\ g.typed = user.secret /\ g.typed # None
Row(g) == [code |-> g.typed, method |-> g.method]
RightCode(g) == g.method \in {"email", "sms"} /\ Row(g) \in otps

AcceptTOTP(r) ==
  /\ At(r, "validate") /\ RightTOTP(req[r])
  /\ Proceed(r, After(req[r].kind))
  /\ UNCHANGED <<user, otps, backups, made, shown, spent, overlap>>

\* Mutant of AcceptCode: the code is not used up.
AcceptAgain(r) ==
  /\ At(r, "validate") /\ RightCode(req[r])
  /\ spent' = spent \cup {req[r].typed}
  /\ Proceed(r, After(req[r].kind))
  /\ UNCHANGED <<user, otps, backups, made, shown, overlap>>

\* ValidateOTPCode: one statement looks and uses up.
AcceptCode(r) ==
  /\ At(r, "validate") /\ RightCode(req[r])
  /\ otps' = otps \ {Row(req[r])}
  /\ spent' = spent \cup {req[r].typed}
  /\ Proceed(r, After(req[r].kind))
  /\ UNCHANGED <<user, backups, made, shown, overlap>>

\* A login, or a request to disable a method that is set, tries a backup code.
FallsBack(g) == g.kind = "login" \/ (g.kind = "disable" /\ g.method # NoMethod)

Refuse(r) ==
  /\ At(r, "validate") /\ ~RightTOTP(req[r]) /\ ~RightCode(req[r])
  /\ IF FallsBack(req[r]) THEN req' = [req EXCEPT ![r].step = "backup"] ELSE Proceed(r, "idle")
  /\ UNCHANGED <<user, otps, backups, made, shown, spent, overlap>>

\* ValidateBackupCode takes the dash out of what is typed before it hashes it.
Clean(typed) == [code |-> typed, dashed |-> FALSE]

TryBackup(r) ==
  /\ At(r, "backup")
  /\ backups' = backups \ {Clean(req[r].typed)}
  /\ Proceed(r, IF backups' # backups THEN After(req[r].kind) ELSE "idle")
  /\ UNCHANGED <<user, otps, made, shown, spent, overlap>>

EnableTOTP(r) ==
  /\ At(r, "enable")
  /\ user' = [user EXCEPT !.enabled = TRUE]
  /\ Proceed(r, "delete")
  /\ UNCHANGED <<otps, backups, made, shown, spent, overlap>>

DisableTOTP(r) ==
  /\ At(r, "disable")
  /\ user' = [enabled |-> FALSE, method |-> NoMethod, secret |-> None]
  /\ backups' = {}
  /\ Proceed(r, "idle")
  /\ UNCHANGED <<otps, made, shown, spent, overlap>>

\* GenerateBackupCodes is one transaction, but its DELETE sees the rows that
\* are there when it runs.
DeleteBackups(r) ==
  /\ At(r, "delete")
  /\ req' = [req EXCEPT ![r] = [Stage("commit", NoMethod) EXCEPT !.gone = backups]]
  /\ UNCHANGED <<user, otps, backups, made, shown, spent, overlap>>

\* Mutant of CommitBackups: the codes there were stay.
CommitMore(r) ==
  /\ At(r, "commit")
  /\ \E b \in Batches :
       /\ backups' = backups \cup {[code |-> b, dashed |-> TRUE]}
       /\ Give(b, TRUE)
  /\ Proceed(r, "idle")
  /\ UNCHANGED <<user, otps, spent, overlap>>

\* A code is stored as it is shown, with its dash.
CommitBackups(r) ==
  /\ At(r, "commit")
  /\ \E b \in Batches :
       /\ backups' = (backups \ req[r].gone) \cup {[code |-> b, dashed |-> TRUE]}
       /\ Give(b, TRUE)
  /\ Proceed(r, "idle")
  /\ UNCHANGED <<user, otps, spent, overlap>>

\* A statement fails, or the request is cancelled.
Fail(r) ==
  /\ Faults /\ req[r] # Idle
  /\ Proceed(r, "idle")
  /\ UNCHANGED <<user, otps, backups, made, shown, spent, overlap>>

Ask(r) ==
  \/ Login(r) \/ SendLoginCode(r) \/ SendCode(r)
  \/ \E m \in Methods : Setup(r, m)
  \/ \E t \in shown :
       VerifySetup(r, t) \/ Disable(r, t) \/ Regenerate(r, t) \/ VerifyLogin(r, t)

Answer(r) ==
  \/ SetMethod(r) \/ Invalidate(r) \/ Insert(r)
  \/ AcceptTOTP(r) \/ AcceptCode(r) \/ Refuse(r) \/ TryBackup(r)
  \/ EnableTOTP(r) \/ DisableTOTP(r) \/ DeleteBackups(r) \/ CommitBackups(r)
  \/ Fail(r)

Next == ExpireCode \/ \E r \in Requests : Ask(r) \/ Answer(r)

Spec == Init /\ [][Next]_vars

-----------------------------------------------------------------------------
\* A one-time code that let a request through lets no other through, whichever
\* requests race for it.
SpentOnce == \A o \in otps : o.code \notin spent

\* Sends that race leave a code each, and no more: what one inserts survives
\* only the sends that were between their two statements.
LiveBounded ==
  \A m \in Methods : Cardinality({o \in otps : o.method = m}) <= Cardinality(Requests)

\* Regenerations that race leave a batch each, and no more: what one stores
\* survives only those whose DELETE ran before it was committed.
BatchesBounded == Cardinality(backups) <= Cardinality(Requests)

\* Someone with a second factor has what the next login will ask for.
CanAnswer ==
  user.enabled => \/ user.method = "email"
                  \/ user.method = "totp" /\ user.secret \in shown

\* A user whose requests do not overlap is never asked for a factor they do
\* not have, has one code per method, and no backup codes without a factor.
SoundAlone ==
  ~overlap => /\ CanAnswer
              /\ \A o, p \in otps : o.method = p.method => o = p
              /\ \A x, y \in backups : x = y
              /\ ~user.enabled => backups = {}

\* A backup code that was given out and is still stored lets its owner through.
BackupCodesWork ==
  [][\A r \in Requests :
       TryBackup(r) /\ [code |-> req[r].typed, dashed |-> TRUE] \in backups
         => backups' # backups]_vars
=============================================================================

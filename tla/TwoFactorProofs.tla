--------------------------- MODULE TwoFactorProofs ---------------------------
(* Proofs about TwoFactor, for any number of requests, secrets, codes and    *)
(* batches, with and without faults.                                         *)
EXTENDS TwoFactor, FiniteSetTheorems, TLAPS

-----------------------------------------------------------------------------
(* What is stored was generated, what is typed was shown, and no code but a  *)
(* mailed one was.                                                           *)
Known ==
  /\ \A o \in otps : o.code \in made /\ (o.method # "email" => o.code \notin shown)
  /\ \A r \in Requests :
       /\ req[r].typed \in shown \cup {None}
       /\ req[r].step = "validate" => req[r].kind # "none"
       /\ req[r].step = "backup" => req[r].kind \in {"login", "disable"}

Answerable ==
  \/ user.method = "email"
  \/ user.method = "totp" /\ user.secret \in shown

(* What a request that is alone may rely on at each of its statements: what  *)
(* it read is still so.                                                      *)
PlaceOK(g) ==
  /\ g.step = "set" => ~user.enabled
  /\ g.step = "validate" /\ g.kind = "verify" => ~user.enabled /\ g.method = user.method
  /\ g.step = "validate" /\ g.kind = "regenerate" => user.enabled
  /\ g.step = "enable" => ~user.enabled /\ Answerable
  /\ g.step = "insert" => \A o \in otps : o.method # g.method
  /\ g.step \in {"delete", "commit"} => user.enabled
  /\ g.step = "commit" => g.gone = backups

Solo == \A r, q \in Requests : req[r] # Idle /\ req[q] # Idle => r = q

Sound ==
  /\ CanAnswer
  /\ \A o, p \in otps : o.method = p.method => o = p
  /\ \A x, y \in backups : x = y
  /\ ~user.enabled => backups = {}

Alone == Solo /\ (\A r \in Requests : PlaceOK(req[r])) /\ Sound

(* A row that says TOTP has the secret that GetTOTPSecret is going to ask    *)
(* for.                                                                      *)
SecretForTOTP == user.method = "totp" => user.secret # None

Inv == TypeOK /\ Known /\ SpentOnce /\ SecretForTOTP /\ (~overlap => Alone)

-----------------------------------------------------------------------------
\* A request at a stage has its type, and no code in its hands.
LEMMA StageType ==
  ASSUME NEW step \in Steps, NEW m \in Methods \cup {NoMethod}
  PROVE  /\ Stage(step, m) \in Request
         /\ Stage(step, m).step = step /\ Stage(step, m).method = m
         /\ Stage(step, m).kind = "none" /\ Stage(step, m).typed = None
         /\ Stage(step, m).gone = {}
  BY DEF Stage, Request, Kinds

\* So has one that does nothing.
LEMMA IdleType ==
  Idle \in Request /\ Idle.step = "idle" /\ Idle.typed = None /\ Idle.kind = "none"
  BY DEF Idle, Stage, Request, Kinds, Steps

\* There are no codes, and no request does anything.
LEMMA InitInv == Init => Inv
  <1> SUFFICES ASSUME Init PROVE Inv
    OBVIOUS
  <1>1. TypeOK
    <2>1. user \in UserRow
      BY DEF Init, UserRow
    <2> QED BY <2>1, IdleType DEF Init, TypeOK
  <1>2. Known
    BY IdleType DEF Init, Known
  <1>3. SpentOnce
    BY DEF Init, SpentOnce
  <1>4. SecretForTOTP
    BY DEF Init, SecretForTOTP, NoMethod
  <1>5. Alone
    <2>1. PlaceOK(Idle)
      BY IdleType DEF PlaceOK
    <2> QED BY <2>1 DEF Init, Alone, Solo, Sound, CanAnswer
  <1> QED BY <1>1, <1>2, <1>3, <1>4, <1>5 DEF Inv

(* One request moves: nothing is typed that was not, and if it is alone the  *)
(* others are still idle.                                                    *)
LEMMA MoveKnown ==
  ASSUME Inv, NEW r \in Requests, NEW g \in Request, req' = [req EXCEPT ![r] = g],
         g.typed \in shown \cup {None}, shown \subseteq shown',
         g.step = "validate" => g.kind # "none",
         g.step = "backup" => g.kind \in {"login", "disable"},
         \A o \in otps' : o.code \in made' /\ (o.method # "email" => o.code \notin shown')
  PROVE  Known' /\ req' \in [Requests -> Request]
  BY DEF Inv, TypeOK, Known

\* The one request that is there moves: the others have nothing to rely on.
LEMMA MoveAlone ==
  ASSUME Inv, NEW r \in Requests, NEW g, req' = [req EXCEPT ![r] = g],
         \A q \in Requests \ {r} : req[q] = Idle, PlaceOK(g)', Sound'
  PROVE  Alone'
  <1>1. req \in [Requests -> Request]
    BY DEF Inv, TypeOK
  <1>2. \A q \in Requests : req'[q] = IF q = r THEN g ELSE Idle
    BY <1>1
  <1>3. Solo'
    BY <1>2 DEF Solo
  <1>4. ASSUME NEW q \in Requests PROVE PlaceOK(req[q])'
    <2>1. CASE q = r
      <3>1. req'[q] = g
        BY <1>2, <2>1
      <3> QED BY <3>1 DEF PlaceOK
    <2>2. CASE q # r
      BY <1>2, <2>2, IdleType DEF PlaceOK
    <2> QED BY <2>1, <2>2
  <1> QED BY <1>3, <1>4 DEF Alone

\* A request that has met no other is the only one.
LEMMA OthersIdle ==
  ASSUME Inv, ~overlap, NEW r \in Requests, req[r] # Idle
  PROVE  \A q \in Requests \ {r} : req[q] = Idle
  BY DEF Inv, Alone, Solo

-----------------------------------------------------------------------------
(* A request begins.                                                         *)
Begun(g) ==
  /\ g \in Request /\ g.typed \in shown \cup {None}
  /\ g.step = "validate" => g.kind # "none"
  /\ g.step = "backup" => g.kind \in {"login", "disable"}
  /\ PlaceOK(g)

\* A request begins, alone or beside others.
LEMMA BeginInv ==
  ASSUME Inv, NEW r \in Requests, NEW g, Begun(g), Begin(r, g)
  PROVE  Inv'
  <1>1. req' = [req EXCEPT ![r] = g] /\ UNCHANGED <<user, otps, backups, made, shown, spent>>
    BY DEF Begin
  <1>2. Known' /\ req' \in [Requests -> Request]
    <2>1. \A o \in otps' : o.code \in made' /\ (o.method # "email" => o.code \notin shown')
      BY <1>1 DEF Inv, Known
    <2> QED BY <1>1, <2>1, MoveKnown DEF Begun
  <1>3. TypeOK'
    BY <1>1, <1>2 DEF Inv, TypeOK, Begin
  <1>4. SpentOnce' /\ SecretForTOTP'
    BY <1>1 DEF Inv, SpentOnce, SecretForTOTP
  <1>5. ASSUME ~overlap' PROVE Alone'
    <2>1. ~overlap /\ \A q \in Requests \ {r} : req[q] = Idle
      BY <1>5 DEF Begin, Inv, TypeOK
    <2>2. PlaceOK(g)'
      BY <1>1 DEF Begun, PlaceOK, Answerable
    <2>3. Sound'
      BY <1>1, <2>1 DEF Inv, Alone, Sound, CanAnswer
    <2> QED BY <1>1, <2>1, <2>2, <2>3, MoveAlone DEF Begun
  <1> QED BY <1>2, <1>3, <1>4, <1>5 DEF Inv

\* A request of any of the endpoints begins.
LEMMA AskInv ==
  ASSUME Inv, NEW r \in Requests, Ask(r) PROVE Inv'
  <1> USE DEF Inv
  <1>0. user \in UserRow /\ shown \subseteq made
    BY DEF TypeOK
  <1>1. ASSUME NEW m \in Methods \cup {NoMethod}, Send(r, m) PROVE Inv'
    <2>1. Begun(Stage("invalidate", m))
      BY StageType DEF Steps, Begun, PlaceOK
    <2> QED BY <1>1, <2>1, BeginInv DEF Send
  <1>2. ASSUME Login(r) \/ SendLoginCode(r) \/ SendCode(r) PROVE Inv'
    BY <1>0, <1>1, <1>2 DEF Login, SendLoginCode, LoginMethod, SendCode, Methods, UserRow
  <1>3. ASSUME NEW m \in Methods, Setup(r, m) PROVE Inv'
    <2>1. Begun(Stage("set", m))
      BY <1>3, StageType DEF Setup, Steps, Begun, PlaceOK
    <2> QED BY <1>3, <2>1, BeginInv DEF Setup
  <1>4. ASSUME NEW t \in shown, NEW kind \in Kinds \ {"none"}, NEW step \in {"validate", "backup"},
               NEW m \in Methods \cup {NoMethod}, Check(r, kind, step, m, t),
               step = "backup" => kind = "login",
               kind = "verify" => ~user.enabled /\ m = user.method,
               kind = "regenerate" => user.enabled
        PROVE Inv'
    <2> DEFINE g == [kind |-> kind, step |-> step, method |-> m, typed |-> t, gone |-> {}]
    <2>1. g \in Request
      BY <1>0, TypeOK DEF TypeOK, Request, Kinds, Steps
    <2>2. PlaceOK(g)
      BY <1>4 DEF PlaceOK
    <2>3. Begun(g)
      BY <1>4, <2>1, <2>2 DEF Begun
    <2> QED BY <1>4, <2>3, BeginInv DEF Check
  <1>5. user.method \in Methods \cup {NoMethod} /\ LoginMethod \in Methods \cup {NoMethod}
    BY <1>0 DEF UserRow, LoginMethod, Methods
  <1>6. ASSUME NEW t \in shown, VerifySetup(r, t) \/ Disable(r, t) \/ Regenerate(r, t) PROVE Inv'
    BY <1>4, <1>5, <1>6 DEF VerifySetup, Disable, Regenerate, Kinds
  <1>7. ASSUME NEW t \in shown, VerifyLogin(r, t) PROVE Inv'
    <2>1. PICK step \in {"validate", "backup"} : Check(r, "login", step, LoginMethod, t)
      BY <1>7 DEF VerifyLogin
    <2> QED BY <1>4, <1>5, <2>1 DEF Kinds
  <1> QED BY <1>2, <1>3, <1>6, <1>7 DEF Ask

-----------------------------------------------------------------------------
(* A request takes its next statement and is at g then.                      *)
LEMMA AnswerInv ==
  ASSUME Inv, NEW r \in Requests, req[r] # Idle,
         NEW g, g \in Request, req' = [req EXCEPT ![r] = g],
         g.typed \in shown \cup {None}, g.step # "validate",
         g.step = "backup" => g.kind \in {"login", "disable"},
         user' \in UserRow, otps' \subseteq [code: Codes, method: Methods \cup {NoMethod}],
         backups' \subseteq Spelled, made' \subseteq Things, shown \subseteq shown',
         shown' \subseteq made', spent' \subseteq made' \cap Codes, overlap' = overlap,
         \A o \in otps' : o.code \in made' /\ (o.method # "email" => o.code \notin shown'),
         SpentOnce', SecretForTOTP',
         ~overlap /\ PlaceOK(req[r]) /\ Sound => PlaceOK(g)' /\ Sound'
  PROVE  Inv'
  <1>1. Known' /\ req' \in [Requests -> Request]
    BY MoveKnown
  <1>2. TypeOK'
    BY <1>1 DEF Inv, TypeOK
  <1>3. ASSUME ~overlap' PROVE Alone'
    <2>1. PlaceOK(req[r]) /\ Sound
      BY <1>3 DEF Inv, Alone
    <2>2. \A q \in Requests \ {r} : req[q] = Idle
      BY <1>3, OthersIdle
    <2> QED BY <1>3, <2>1, <2>2, MoveAlone
  <1> QED BY <1>1, <1>2, <1>3 DEF Inv

(* ... which changes nothing else.                                           *)
LEMMA OnlyMoves ==
  ASSUME Inv, NEW r \in Requests, req[r] # Idle,
         NEW g, g \in Request, req' = [req EXCEPT ![r] = g],
         g.typed \in shown \cup {None}, g.step # "validate",
         g.step = "backup" => g.kind \in {"login", "disable"},
         ~overlap /\ PlaceOK(req[r]) /\ Sound => PlaceOK(g),
         UNCHANGED <<user, otps, backups, made, shown, spent, overlap>>
  PROVE  Inv'
  <1>1. SpentOnce' /\ SecretForTOTP'
    BY DEF Inv, SpentOnce, SecretForTOTP
  <1>2. Sound => Sound'
    BY DEF Sound, CanAnswer
  <1>3. PlaceOK(g) => PlaceOK(g)'
    BY DEF PlaceOK, Answerable
  <1>4. \A o \in otps' : o.code \in made' /\ (o.method # "email" => o.code \notin shown')
    BY DEF Inv, Known
  <1>5. user \in UserRow /\ otps \subseteq [code: Codes, method: Methods \cup {NoMethod}]
        /\ backups \subseteq Spelled /\ made \subseteq Things /\ shown \subseteq made
        /\ spent \subseteq made \cap Codes
    BY DEF Inv, TypeOK
  <1> QED BY <1>1, <1>2, <1>3, <1>4, <1>5, AnswerInv

\* A request at one of its statements is not idle.
LEMMA Busy ==
  ASSUME NEW r \in Requests, NEW step \in Steps \ {"idle"}, At(r, step)
  PROVE  req[r] # Idle
  BY IdleType DEF At

\* A code of the authenticator is right: what follows may rely on it.
LEMMA AcceptTOTPInv ==
  ASSUME Inv, NEW r \in Requests, AcceptTOTP(r) PROVE Inv'
  <1>1. req[r] # Idle /\ req[r].step = "validate"
    BY Busy DEF AcceptTOTP, Steps, At
  <1>2. req[r] \in Request /\ req[r].kind \in Kinds \ {"none"} /\ req[r].typed \in shown
    BY <1>1 DEF Inv, TypeOK, Known, Request, AcceptTOTP, RightTOTP
  <1>3. After(req[r].kind) \in Steps \ {"validate", "backup"}
    BY <1>2 DEF After, Kinds, Steps
  <1> DEFINE g == Stage(After(req[r].kind), NoMethod)
  <1>4. g \in Request /\ g.step = After(req[r].kind) /\ g.typed = None
    BY <1>3, StageType
  <1>5. PlaceOK(req[r]) => PlaceOK(g)
    <2> SUFFICES ASSUME PlaceOK(req[r]) PROVE PlaceOK(g)
      OBVIOUS
    <2>1. CASE req[r].kind = "verify"
      <3>1. ~user.enabled /\ Answerable
        BY <1>1, <1>2, <2>1 DEF PlaceOK, Answerable, AcceptTOTP, RightTOTP
      <3> QED BY <1>4, <2>1, <3>1 DEF After, PlaceOK
    <2>2. CASE req[r].kind = "regenerate"
      <3>1. user.enabled
        BY <1>1, <2>2 DEF PlaceOK
      <3> QED BY <1>4, <2>2, <3>1 DEF After, PlaceOK
    <2>3. CASE req[r].kind \in {"disable", "login"}
      BY <1>4, <2>3 DEF After, PlaceOK
    <2> QED BY <1>2, <2>1, <2>2, <2>3 DEF Kinds
  <1> QED BY <1>1, <1>3, <1>4, <1>5, OnlyMoves DEF AcceptTOTP, Proceed

\* A code is wrong: the request ends, or tries it as a backup code.
LEMMA RefuseInv ==
  ASSUME Inv, NEW r \in Requests, Refuse(r) PROVE Inv'
  <1>1. req[r] # Idle /\ req[r].step = "validate"
    BY Busy DEF Refuse, Steps, At
  <1>2. req[r] \in Request /\ req[r].typed \in shown \cup {None}
    BY <1>1 DEF Inv, TypeOK, Known
  <1>3. CASE FallsBack(req[r])
    <2> DEFINE g == [req[r] EXCEPT !.step = "backup"]
    <2>1. g \in Request /\ g.step = "backup" /\ g.kind = req[r].kind /\ g.typed = req[r].typed
      BY <1>2 DEF Request, Steps
    <2>2. PlaceOK(g)
      BY <2>1 DEF PlaceOK
    <2>3. req' = [req EXCEPT ![r] = g]
      BY <1>3 DEF Refuse
    <2>4. g.kind \in {"login", "disable"}
      BY <1>3, <2>1 DEF FallsBack
    <2> HIDE DEF g
    <2> QED BY <1>1, <1>2, <2>1, <2>2, <2>3, <2>4, OnlyMoves DEF Refuse
  <1>4. CASE ~FallsBack(req[r])
    <2>1. PlaceOK(Stage("idle", NoMethod))
      BY StageType DEF PlaceOK, Steps
    <2> QED BY <1>1, <1>4, <2>1, StageType, OnlyMoves DEF Refuse, Proceed, Steps
  <1> QED BY <1>3, <1>4

\* A statement fails, and the request ends with nothing changed.
LEMMA FailInv ==
  ASSUME Inv, NEW r \in Requests, Fail(r) PROVE Inv'
  <1> DEFINE g == Stage("idle", NoMethod)
  <1>1. g \in Request /\ g.step = "idle" /\ g.typed = None
    BY StageType DEF Steps
  <1>2. PlaceOK(g)
    BY <1>1 DEF PlaceOK
  <1>3. req[r] # Idle /\ req' = [req EXCEPT ![r] = g]
    BY DEF Fail, Proceed
  <1> HIDE DEF g
  <1> QED BY <1>1, <1>2, <1>3, OnlyMoves DEF Fail

\* The backup codes there are, are found.
LEMMA DeleteInv ==
  ASSUME Inv, NEW r \in Requests, DeleteBackups(r) PROVE Inv'
  <1> DEFINE g == [Stage("commit", NoMethod) EXCEPT !.gone = backups]
  <1>1. req[r] # Idle /\ req[r].step = "delete"
    BY Busy DEF DeleteBackups, Steps, At
  <1>2. g \in Request /\ g.step = "commit" /\ g.typed = None /\ g.gone = backups
    BY DEF Stage, Request, Kinds, Steps, Inv, TypeOK
  <1>3. PlaceOK(req[r]) => PlaceOK(g)
    BY <1>1, <1>2 DEF PlaceOK
  <1>4. req' = [req EXCEPT ![r] = g]
    BY DEF DeleteBackups
  <1> HIDE DEF g
  <1> QED BY <1>1, <1>2, <1>3, <1>4, OnlyMoves DEF DeleteBackups

\* A mailed code is right, and is spent.
LEMMA AcceptCodeInv ==
  ASSUME Inv, NEW r \in Requests, AcceptCode(r) PROVE Inv'
  <1> PICK c, g : c = req[r].typed /\ g = Stage(After(req[r].kind), NoMethod)
    OBVIOUS
  <1>1. req[r] # Idle /\ req[r].step = "validate"
    BY Busy DEF AcceptCode, Steps, At
  <1>2. req[r] \in Request /\ req[r].kind \in Kinds \ {"none"} /\ c \in shown \cup {None}
    BY <1>1 DEF Inv, TypeOK, Known, Request
  <1>3. Row(req[r]) \in otps /\ req[r].method \in {"email", "sms"}
    BY DEF AcceptCode, RightCode
  <1>4. c \in Codes /\ Row(req[r]).code = c /\ Row(req[r]).method = req[r].method
    BY <1>3 DEF Row, Inv, TypeOK
  <1>5. c \in shown /\ c \in made
    BY <1>2, <1>4, DrawsAssumption DEF Inv, TypeOK
  <1>6. req[r].method = "email" /\ \A o \in otps : o.code = c => o.method = "email"
    BY <1>3, <1>4, <1>5 DEF Inv, Known
  <1>7. \A o \in otps : o.code = c => o = Row(req[r])
    BY <1>6 DEF Row, Inv, TypeOK
  <1>8. After(req[r].kind) \in Steps \ {"validate", "backup"}
    BY <1>2 DEF After, Kinds, Steps
  <1>9. g \in Request /\ g.step = After(req[r].kind) /\ g.typed = None
    BY <1>8, StageType
  <1>10. /\ otps' = otps \ {Row(req[r])} /\ spent' = spent \cup {c}
         /\ UNCHANGED <<user, backups, made, shown, overlap>>
         /\ req' = [req EXCEPT ![r] = g]
    BY DEF AcceptCode, Proceed
  <1>11. SpentOnce' /\ SecretForTOTP'
    BY <1>7, <1>10 DEF Inv, SpentOnce, SecretForTOTP
  <1>12. Sound => Sound'
    BY <1>10 DEF Sound, CanAnswer
  <1>13. PlaceOK(req[r]) => PlaceOK(g)'
    <2> SUFFICES ASSUME PlaceOK(req[r]) PROVE PlaceOK(g)'
      OBVIOUS
    <2>1. CASE req[r].kind = "verify"
      <3>1. (~user.enabled /\ Answerable)'
        BY <1>1, <1>6, <1>10, <2>1 DEF PlaceOK, Answerable
      <3> QED BY <1>9, <2>1, <3>1 DEF After, PlaceOK
    <2>2. CASE req[r].kind = "regenerate"
      <3>1. user'.enabled
        BY <1>1, <1>10, <2>2 DEF PlaceOK
      <3> QED BY <1>9, <2>2, <3>1 DEF After, PlaceOK
    <2>3. CASE req[r].kind \in {"disable", "login"}
      BY <1>9, <2>3 DEF After, PlaceOK
    <2> QED BY <1>2, <2>1, <2>2, <2>3 DEF Kinds
  <1>14. \A o \in otps' : o.code \in made' /\ (o.method # "email" => o.code \notin shown')
    BY <1>10 DEF Inv, Known
  <1>15. /\ user' \in UserRow /\ otps' \subseteq [code: Codes, method: Methods \cup {NoMethod}]
         /\ backups' \subseteq Spelled /\ made' \subseteq Things /\ shown \subseteq shown'
         /\ shown' \subseteq made' /\ spent' \subseteq made' \cap Codes /\ overlap' = overlap
    BY <1>4, <1>5, <1>10 DEF Inv, TypeOK
  <1> QED BY <1>1, <1>8, <1>9, <1>10, <1>11, <1>12, <1>13, <1>14, <1>15, AnswerInv

\* The codes of the method are ended: none is left beside the next one.
LEMMA InvalidateInv ==
  ASSUME Inv, NEW r \in Requests, Invalidate(r) PROVE Inv'
  <1> PICK g : g = Stage("insert", req[r].method)
    OBVIOUS
  <1>1. req[r] # Idle /\ req[r].method \in Methods \cup {NoMethod}
    BY Busy DEF Invalidate, Steps, Inv, TypeOK, Request
  <1>2. g \in Request /\ g.step = "insert" /\ g.typed = None /\ g.method = req[r].method
    BY <1>1, StageType DEF Steps
  <1>3. /\ otps' = {o \in otps : o.method # req[r].method}
        /\ UNCHANGED <<user, backups, made, shown, spent, overlap>>
        /\ req' = [req EXCEPT ![r] = g]
    BY DEF Invalidate
  <1>4. SpentOnce' /\ SecretForTOTP'
    BY <1>3 DEF Inv, SpentOnce, SecretForTOTP
  <1>5. Sound => Sound'
    BY <1>3 DEF Sound, CanAnswer
  <1>6. PlaceOK(g)'
    BY <1>2, <1>3 DEF PlaceOK
  <1>7. \A o \in otps' : o.code \in made' /\ (o.method # "email" => o.code \notin shown')
    BY <1>3 DEF Inv, Known
  <1>8. /\ user' \in UserRow /\ otps' \subseteq [code: Codes, method: Methods \cup {NoMethod}]
        /\ backups' \subseteq Spelled /\ made' \subseteq Things /\ shown \subseteq shown'
        /\ shown' \subseteq made' /\ spent' \subseteq made' \cap Codes /\ overlap' = overlap
    BY <1>3 DEF Inv, TypeOK
  <1> QED BY <1>1, <1>2, <1>3, <1>4, <1>5, <1>6, <1>7, <1>8, AnswerInv

\* A new code is made, the only one of its method if the request is alone.
LEMMA InsertInv ==
  ASSUME Inv, NEW r \in Requests, Insert(r) PROVE Inv'
  <1> DEFINE g == Stage("idle", NoMethod)
             m == req[r].method
  <1>1. req[r] # Idle /\ req[r].step = "insert" /\ m \in Methods \cup {NoMethod}
    BY Busy DEF Insert, At, Steps, Inv, TypeOK, Request
  <1>2. g \in Request /\ g.step = "idle" /\ g.typed = None
    BY StageType DEF Steps
  <1>3. PICK c \in Codes : /\ otps' = otps \cup {[code |-> c, method |-> m]}
                           /\ Give(c, m = "email")
    BY DEF Insert
  <1>4. UNCHANGED <<user, backups, spent, overlap>> /\ req' = [req EXCEPT ![r] = g]
    BY DEF Insert, Proceed
  <1>5. /\ c \notin made /\ made' = made \cup {c}
        /\ shown' = IF m = "email" THEN shown \cup {c} ELSE shown
    BY <1>3 DEF Give
  <1>6. SpentOnce' /\ SecretForTOTP'
    BY <1>3, <1>4, <1>5 DEF Inv, TypeOK, SpentOnce, SecretForTOTP
  <1>7. ASSUME PlaceOK(req[r]), Sound PROVE Sound'
    <2>1. \A o \in otps : o.method # m
      BY <1>1, <1>7 DEF PlaceOK
    <2>2. (\A o, p \in otps : o.method = p.method => o = p)'
      BY <1>3, <1>7, <2>1 DEF Sound
    <2> QED BY <1>4, <1>5, <1>7, <2>2 DEF Sound, CanAnswer
  <1>8. PlaceOK(g)'
    BY <1>2 DEF PlaceOK
  <1>9. \A o \in otps' : o.code \in made' /\ (o.method # "email" => o.code \notin shown')
    BY <1>3, <1>5 DEF Inv, TypeOK, Known
  <1>10. otps' \subseteq [code: Codes, method: Methods \cup {NoMethod}]
    BY <1>1, <1>3 DEF Inv, TypeOK
  <1>11. /\ user' \in UserRow /\ backups' \subseteq Spelled /\ made' \subseteq Things
         /\ shown \subseteq shown' /\ shown' \subseteq made'
         /\ spent' \subseteq made' \cap Codes /\ overlap' = overlap
    BY <1>4, <1>5 DEF Inv, TypeOK, Things
  <1> HIDE DEF g
  <1> QED BY <1>1, <1>2, <1>4, <1>6, <1>7, <1>8, <1>9, <1>10, <1>11, AnswerInv

\* A backup code is tried, and is spent if it was there.
LEMMA TryBackupInv ==
  ASSUME Inv, NEW r \in Requests, TryBackup(r) PROVE Inv'
  <1> PICK step, g : /\ step = IF backups' # backups THEN After(req[r].kind) ELSE "idle"
                     /\ g = Stage(step, NoMethod)
    OBVIOUS
  <1>1. req[r] # Idle /\ req[r].kind \in {"login", "disable"}
    BY Busy DEF TryBackup, Steps, At, Inv, Known
  <1>2. step \in {"idle", "disable"}
    BY <1>1 DEF After
  <1>3. g \in Request /\ g.step = step /\ g.typed = None
    BY <1>2, StageType DEF Steps
  <1>4. /\ backups' = backups \ {Clean(req[r].typed)} /\ req' = [req EXCEPT ![r] = g]
        /\ UNCHANGED <<user, otps, made, shown, spent, overlap>>
    BY DEF TryBackup, Proceed
  <1>5. SpentOnce' /\ SecretForTOTP'
    BY <1>4 DEF Inv, SpentOnce, SecretForTOTP
  <1>6. Sound => Sound'
    BY <1>4 DEF Sound, CanAnswer
  <1>7. PlaceOK(g)'
    BY <1>2, <1>3 DEF PlaceOK
  <1>8. \A o \in otps' : o.code \in made' /\ (o.method # "email" => o.code \notin shown')
    BY <1>4 DEF Inv, Known
  <1>9. /\ user' \in UserRow /\ otps' \subseteq [code: Codes, method: Methods \cup {NoMethod}]
        /\ backups' \subseteq Spelled /\ made' \subseteq Things /\ shown \subseteq shown'
        /\ shown' \subseteq made' /\ spent' \subseteq made' \cap Codes /\ overlap' = overlap
    BY <1>4 DEF Inv, TypeOK
  <1> QED BY <1>1, <1>2, <1>3, <1>4, <1>5, <1>6, <1>7, <1>8, <1>9, AnswerInv

\* Two-factor is enabled; alone, with a method that the user can answer.
LEMMA EnableInv ==
  ASSUME Inv, NEW r \in Requests, EnableTOTP(r) PROVE Inv'
  <1> PICK g : g = Stage("delete", NoMethod)
    OBVIOUS
  <1>1. req[r] # Idle /\ req[r].step = "enable"
    BY Busy DEF EnableTOTP, Steps, At
  <1>2. g \in Request /\ g.step = "delete" /\ g.typed = None
    BY StageType DEF Steps
  <1>3. /\ user' = [user EXCEPT !.enabled = TRUE] /\ req' = [req EXCEPT ![r] = g]
        /\ UNCHANGED <<otps, backups, made, shown, spent, overlap>>
    BY DEF EnableTOTP, Proceed
  <1>4. user \in UserRow
    BY DEF Inv, TypeOK
  <1>5. /\ user' \in UserRow /\ user'.enabled /\ user'.method = user.method
        /\ user'.secret = user.secret
    BY <1>3, <1>4 DEF UserRow
  <1>6. SpentOnce' /\ SecretForTOTP'
    BY <1>3, <1>5 DEF Inv, SpentOnce, SecretForTOTP
  <1>7. ASSUME PlaceOK(req[r]), Sound PROVE Sound' /\ PlaceOK(g)'
    <2>1. Answerable
      BY <1>1, <1>7 DEF PlaceOK
    <2>2. Answerable'
      BY <1>3, <1>5, <2>1 DEF Answerable
    <2>3. Sound'
      BY <1>3, <1>5, <1>7, <2>2 DEF Sound, CanAnswer, Answerable
    <2>4. PlaceOK(g)'
      BY <1>2, <1>5 DEF PlaceOK
    <2> QED BY <2>3, <2>4
  <1>8. \A o \in otps' : o.code \in made' /\ (o.method # "email" => o.code \notin shown')
    BY <1>3 DEF Inv, Known
  <1>9. /\ otps' \subseteq [code: Codes, method: Methods \cup {NoMethod}]
        /\ backups' \subseteq Spelled /\ made' \subseteq Things /\ shown \subseteq shown'
        /\ shown' \subseteq made' /\ spent' \subseteq made' \cap Codes /\ overlap' = overlap
    BY <1>3 DEF Inv, TypeOK
  <1> QED BY <1>1, <1>2, <1>3, <1>5, <1>6, <1>7, <1>8, <1>9, AnswerInv

\* Two-factor is disabled, and with it all that belongs to it.
LEMMA DisableInv ==
  ASSUME Inv, NEW r \in Requests, DisableTOTP(r) PROVE Inv'
  <1> PICK g : g = Stage("idle", NoMethod)
    OBVIOUS
  <1>1. req[r] # Idle
    BY Busy DEF DisableTOTP, Steps
  <1>2. g \in Request /\ g.step = "idle" /\ g.typed = None
    BY StageType DEF Steps
  <1>3. /\ user' = [enabled |-> FALSE, method |-> NoMethod, secret |-> None]
        /\ backups' = {} /\ req' = [req EXCEPT ![r] = g]
        /\ UNCHANGED <<otps, made, shown, spent, overlap>>
    BY DEF DisableTOTP, Proceed
  <1>4. user' \in UserRow /\ ~user'.enabled /\ user'.method = NoMethod
    BY <1>3 DEF UserRow
  <1>5. SpentOnce' /\ SecretForTOTP'
    BY <1>3, <1>4 DEF Inv, SpentOnce, SecretForTOTP, NoMethod
  <1>6. Sound => Sound'
    BY <1>3, <1>4 DEF Sound, CanAnswer
  <1>7. PlaceOK(g)'
    BY <1>2 DEF PlaceOK
  <1>8. \A o \in otps' : o.code \in made' /\ (o.method # "email" => o.code \notin shown')
    BY <1>3 DEF Inv, Known
  <1>9. /\ otps' \subseteq [code: Codes, method: Methods \cup {NoMethod}]
        /\ backups' \subseteq Spelled /\ made' \subseteq Things /\ shown \subseteq shown'
        /\ shown' \subseteq made' /\ spent' \subseteq made' \cap Codes /\ overlap' = overlap
    BY <1>3 DEF Inv, TypeOK
  <1> QED BY <1>1, <1>2, <1>3, <1>4, <1>5, <1>6, <1>7, <1>8, <1>9, AnswerInv

\* The new backup codes take the place of those that were found.
LEMMA CommitInv ==
  ASSUME Inv, NEW r \in Requests, CommitBackups(r) PROVE Inv'
  <1> PICK g : g = Stage("idle", NoMethod)
    OBVIOUS
  <1>1. req[r] # Idle /\ req[r].step = "commit"
    BY Busy DEF CommitBackups, Steps, At
  <1>2. g \in Request /\ g.step = "idle" /\ g.typed = None
    BY StageType DEF Steps
  <1>3. UNCHANGED <<user, otps, spent, overlap>> /\ req' = [req EXCEPT ![r] = g]
    BY DEF CommitBackups, Proceed
  <1>4. PICK b \in Batches :
          /\ backups' = (backups \ req[r].gone) \cup {[code |-> b, dashed |-> TRUE]}
          /\ made' = made \cup {b} /\ shown' = shown \cup {b}
    BY DEF CommitBackups, Give
  <1>5. b \notin Codes /\ b \in Things
    BY DrawsAssumption DEF Things
  <1>6. SpentOnce' /\ SecretForTOTP'
    BY <1>3 DEF Inv, SpentOnce, SecretForTOTP
  <1>7. ASSUME PlaceOK(req[r]), Sound PROVE Sound'
    <2>1. user.enabled /\ req[r].gone = backups
      BY <1>1, <1>7 DEF PlaceOK
    <2>2. backups' = {[code |-> b, dashed |-> TRUE]}
      BY <1>4, <2>1
    <2> QED BY <1>3, <1>4, <1>7, <2>1, <2>2 DEF Sound, CanAnswer
  <1>8. PlaceOK(g)'
    BY <1>2 DEF PlaceOK
  <1>9. \A o \in otps' : o.code \in made' /\ (o.method # "email" => o.code \notin shown')
    BY <1>3, <1>4, <1>5 DEF Inv, TypeOK, Known
  <1>10. backups' \subseteq Spelled
    <2>1. [code |-> b, dashed |-> TRUE] \in Spelled
      BY DEF Spelled
    <2>2. backups \subseteq Spelled
      BY DEF Inv, TypeOK
    <2> QED BY <1>4, <2>1, <2>2
  <1>11. /\ user' \in UserRow /\ otps' \subseteq [code: Codes, method: Methods \cup {NoMethod}]
         /\ made' \subseteq Things /\ shown \subseteq shown'
         /\ shown' \subseteq made' /\ spent' \subseteq made' \cap Codes /\ overlap' = overlap
    BY <1>3, <1>4, <1>5 DEF Inv, TypeOK
  <1> QED BY <1>1, <1>2, <1>3, <1>6, <1>7, <1>8, <1>9, <1>10, <1>11, AnswerInv

\* The method and its secret are set, before two-factor is enabled.
LEMMA SetMethodInv ==
  ASSUME Inv, NEW r \in Requests, SetMethod(r) PROVE Inv'
  <1> PICK m : m = req[r].method
    OBVIOUS
  <1>1. req[r] # Idle /\ req[r].step = "set" /\ m \in Methods \cup {NoMethod}
    BY Busy DEF SetMethod, At, Steps, Inv, TypeOK, Request
  <1>2. user \in UserRow
    BY DEF Inv, TypeOK
  <1>3. UNCHANGED <<otps, backups, spent, overlap>>
    BY DEF SetMethod
  <1>4. PlaceOK(req[r]) => ~user.enabled
    BY <1>1 DEF PlaceOK
  <1>5. SpentOnce'
    BY <1>3 DEF Inv, SpentOnce
  <1>6. (~user.enabled /\ user'.enabled = user.enabled /\ Sound) => Sound'
    BY <1>3 DEF Sound, CanAnswer
  <1>7. CASE m = "totp"
    <2> PICK g : g = Stage("idle", NoMethod)
      OBVIOUS
    <2>1. g \in Request /\ g.step = "idle" /\ g.typed = None
      BY StageType DEF Steps
    <2>2. PICK s \in Secrets :
            /\ user' = [user EXCEPT !.method = m, !.secret = s]
            /\ \E answered \in {TRUE, ~Faults} : Give(s, answered)
            /\ Proceed(r, "idle")
      BY <1>7 DEF SetMethod
    <2>3. req' = [req EXCEPT ![r] = g]
      BY <2>2 DEF Proceed
    <2>4. made' = made \cup {s} /\ shown' \in {shown, shown \cup {s}}
      BY <2>2 DEF Give
    <2>5. user' \in UserRow /\ user'.enabled = user.enabled /\ user'.secret = s
      BY <1>1, <1>2, <2>2 DEF UserRow
    <2>6. s \notin Codes /\ s # None /\ s \in Things
      BY DrawsAssumption DEF Things
    <2>7. SecretForTOTP'
      BY <2>5, <2>6 DEF SecretForTOTP
    <2>8. PlaceOK(g)'
      BY <2>1 DEF PlaceOK
    <2>9. \A o \in otps' : o.code \in made' /\ (o.method # "email" => o.code \notin shown')
      BY <1>3, <2>4, <2>6 DEF Inv, TypeOK, Known
    <2>10. /\ otps' \subseteq [code: Codes, method: Methods \cup {NoMethod}]
           /\ backups' \subseteq Spelled /\ made' \subseteq Things /\ shown \subseteq shown'
           /\ shown' \subseteq made' /\ spent' \subseteq made' \cap Codes /\ overlap' = overlap
      BY <1>3, <2>4, <2>6 DEF Inv, TypeOK
    <2> QED BY <1>1, <1>4, <1>5, <1>6, <2>1, <2>3, <2>5, <2>7, <2>8, <2>9, <2>10, AnswerInv
  <1>8. CASE m # "totp"
    <2> PICK g : g = Stage("invalidate", m)
      OBVIOUS
    <2>1. g \in Request /\ g.step = "invalidate" /\ g.typed = None
      BY <1>1, StageType DEF Steps
    <2>2. /\ user' = [user EXCEPT !.method = m] /\ req' = [req EXCEPT ![r] = g]
          /\ UNCHANGED <<made, shown>>
      BY <1>8 DEF SetMethod
    <2>3. user' \in UserRow /\ user'.enabled = user.enabled /\ user'.method = m
      BY <1>1, <1>2, <2>2 DEF UserRow
    <2>4. SecretForTOTP'
      BY <1>8, <2>3 DEF SecretForTOTP
    <2>5. PlaceOK(g)'
      BY <2>1 DEF PlaceOK
    <2>6. \A o \in otps' : o.code \in made' /\ (o.method # "email" => o.code \notin shown')
      BY <1>3, <2>2 DEF Inv, Known
    <2>7. /\ otps' \subseteq [code: Codes, method: Methods \cup {NoMethod}]
          /\ backups' \subseteq Spelled /\ made' \subseteq Things /\ shown \subseteq shown'
          /\ shown' \subseteq made' /\ spent' \subseteq made' \cap Codes /\ overlap' = overlap
      BY <1>3, <2>2 DEF Inv, TypeOK
    <2> QED BY <1>1, <1>4, <1>5, <1>6, <2>1, <2>2, <2>3, <2>4, <2>5, <2>6, <2>7, AnswerInv
  <1> QED BY <1>7, <1>8

\* A code expires.
LEMMA ExpireInv ==
  ASSUME Inv, ExpireCode PROVE Inv'
  <1>1. otps' \subseteq otps /\ UNCHANGED <<user, backups, req, made, shown, spent, overlap>>
    BY DEF ExpireCode
  <1>2. TypeOK'
    BY <1>1 DEF Inv, TypeOK
  <1>3. Known'
    BY <1>1 DEF Inv, Known
  <1>4. SpentOnce' /\ SecretForTOTP'
    BY <1>1 DEF Inv, SpentOnce, SecretForTOTP
  <1>5. ASSUME ~overlap' PROVE Alone'
    <2>1. Alone
      BY <1>1, <1>5 DEF Inv
    <2>2. Solo'
      BY <1>1, <2>1 DEF Alone, Solo
    <2>3. ASSUME NEW r \in Requests PROVE PlaceOK(req[r])'
      BY <1>1, <2>1 DEF Alone, PlaceOK, Answerable
    <2>4. Sound'
      BY <1>1, <2>1 DEF Alone, Sound, CanAnswer
    <2> QED BY <2>2, <2>3, <2>4 DEF Alone
  <1> QED BY <1>2, <1>3, <1>4, <1>5 DEF Inv

\* Nothing happens.
LEMMA StutterInv ==
  ASSUME Inv, UNCHANGED vars PROVE Inv'
  <1>1. UNCHANGED <<user, otps, backups, req, made, shown, spent, overlap>>
    BY DEF vars
  <1>2. Alone => Alone'
    BY <1>1 DEF Alone, Solo, PlaceOK, Answerable, Sound, CanAnswer
  <1> QED BY <1>1, <1>2 DEF Inv, TypeOK, Known, SpentOnce, SecretForTOTP

\* Every step keeps the invariant: one lemma for each kind of step.
LEMMA NextInv ==
  ASSUME Inv, [Next]_vars PROVE Inv'
  <1>1. CASE ExpireCode
    BY <1>1, ExpireInv
  <1>2. ASSUME NEW r \in Requests, Ask(r) PROVE Inv'
    BY <1>2, AskInv
  <1>3. ASSUME NEW r \in Requests, Answer(r) PROVE Inv'
    BY <1>3, SetMethodInv, InvalidateInv, InsertInv, AcceptTOTPInv, AcceptCodeInv, RefuseInv,
       TryBackupInv, EnableInv, DisableInv, DeleteInv, CommitInv, FailInv DEF Answer
  <1>4. CASE UNCHANGED vars
    BY <1>4, StutterInv
  <1> QED BY <1>1, <1>2, <1>3, <1>4 DEF Next

(* The inductive invariant holds in every reachable state.                   *)
THEOREM Invariance == Spec => []Inv
  BY InitInv, NextInv, PTL DEF Spec

-----------------------------------------------------------------------------
(* The rows, the requests and the histories keep their types: in particular  *)
(* nothing reaches the user that was not generated.                          *)
THEOREM TypeCorrect == Spec => []TypeOK
  <1>1. Inv => TypeOK
    BY DEF Inv
  <1> QED BY <1>1, Invariance, PTL

(* ValidateOTPCode looks a code up and uses it up in one statement: however  *)
(* many requests race with one code, at most one is let through by it.       *)
THEOREM CodesSpentOnce == Spec => []SpentOnce
  <1>1. Inv => SpentOnce
    BY DEF Inv
  <1> QED BY <1>1, Invariance, PTL

(* As long as no two requests of the user have overlapped, whatever failed   *)
(* on the way: the next login asks for a factor the user has, there is one   *)
(* code per method and one batch of backup codes, and none without a factor. *)
THEOREM SoundWhenAlone == Spec => []SoundAlone
  <1>1. Inv => SoundAlone
    BY DEF Inv, Alone, Sound, SoundAlone
  <1> QED BY <1>1, Invariance, PTL

-----------------------------------------------------------------------------
(* Most steps make neither a code nor a batch, and bring no request to the   *)
(* statement that makes one.                                                 *)
Makes == {"insert", "commit"}
Quiet ==
  /\ otps' \subseteq otps /\ backups' \subseteq backups
  /\ \A r \in Requests : req'[r] = req[r] \/ req'[r].step \notin Makes

\* Four statements are not quiet.
LEMMA NextQuiet ==
  ASSUME Inv, [Next]_vars
  PROVE  Quiet \/ \E r \in Requests :
                    Invalidate(r) \/ Insert(r) \/ DeleteBackups(r) \/ CommitBackups(r)
  <1>1. ASSUME NEW r \in Requests, NEW g, req' = [req EXCEPT ![r] = g], g.step \notin Makes,
               otps' \subseteq otps, backups' \subseteq backups
        PROVE Quiet
    BY <1>1 DEF Inv, TypeOK, Quiet
  <1>2. ASSUME NEW r \in Requests, NEW step \in Steps \ Makes, Proceed(r, step),
               otps' \subseteq otps, backups' \subseteq backups
        PROVE Quiet
    <2> PICK g : g = Stage(step, NoMethod)
      OBVIOUS
    <2>1. g.step \notin Makes
      BY StageType
    <2>2. req' = [req EXCEPT ![r] = g]
      BY <1>2 DEF Proceed
    <2> QED BY <1>1, <1>2, <2>1, <2>2
  <1>3. ASSUME NEW r \in Requests, Ask(r) PROVE Quiet
    <2>1. ASSUME NEW m \in Methods \cup {NoMethod}, NEW step \in Steps \ Makes,
                 Begin(r, Stage(step, m))
          PROVE Quiet
      <3> PICK g : g = Stage(step, m)
        OBVIOUS
      <3>1. g.step \notin Makes
        BY StageType
      <3>2. req' = [req EXCEPT ![r] = g] /\ otps' = otps /\ backups' = backups
        BY <2>1 DEF Begin
      <3> QED BY <1>1, <3>1, <3>2
    <2>2. ASSUME NEW kind, NEW step \in {"validate", "backup"}, NEW m, NEW t,
                 Check(r, kind, step, m, t)
          PROVE Quiet
      <3> PICK g : g = [kind |-> kind, step |-> step, method |-> m, typed |-> t, gone |-> {}]
        OBVIOUS
      <3>1. g.step \notin Makes
        BY DEF Makes
      <3>2. req' = [req EXCEPT ![r] = g] /\ otps' = otps /\ backups' = backups
        BY <2>2 DEF Check, Begin
      <3> QED BY <1>1, <3>1, <3>2
    <2>3. /\ user.method \in Methods \cup {NoMethod}
          /\ LoginMethod \in Methods \cup {NoMethod} /\ "email" \in Methods
      BY DEF Inv, TypeOK, UserRow, LoginMethod, Methods
    <2>4. ASSUME Login(r) \/ SendLoginCode(r) \/ SendCode(r) PROVE Quiet
      BY <2>1, <2>3, <2>4 DEF Login, SendLoginCode, SendCode, Send, Steps, Makes
    <2>5. ASSUME NEW m \in Methods, Setup(r, m) PROVE Quiet
      BY <2>1, <2>5 DEF Setup, Steps, Makes
    <2>6. ASSUME NEW t \in shown,
                 VerifySetup(r, t) \/ Disable(r, t) \/ Regenerate(r, t) \/ VerifyLogin(r, t)
          PROVE Quiet
      BY <2>2, <2>6 DEF VerifySetup, Disable, Regenerate, VerifyLogin
    <2> QED BY <1>3, <2>4, <2>5, <2>6 DEF Ask
  <1>4. ASSUME NEW r \in Requests, SetMethod(r) PROVE Quiet
    <2>1. req[r].method \in Methods \cup {NoMethod}
      BY DEF Inv, TypeOK, Request
    <2>2. CASE req[r].method = "totp"
      BY <1>2, <1>4, <2>2 DEF SetMethod, Steps, Makes
    <2>3. CASE req[r].method # "totp"
      <3>1. req' = [req EXCEPT ![r] = Stage("invalidate", req[r].method)] /\ otps' = otps /\ backups' = backups
        BY <1>4, <2>3 DEF SetMethod
      <3>2. Stage("invalidate", req[r].method).step \notin Makes
        BY <2>1, StageType DEF Steps, Makes
      <3> QED BY <1>1, <3>1, <3>2
    <2> QED BY <2>2, <2>3
  <1>5. ASSUME NEW r \in Requests, At(r, "validate") PROVE After(req[r].kind) \in Steps \ Makes
    BY <1>5 DEF At, Inv, TypeOK, Known, Request, Kinds, After, Steps, Makes
  <1>6. ASSUME NEW r \in Requests, AcceptTOTP(r) \/ AcceptCode(r) PROVE Quiet
    BY <1>2, <1>5, <1>6 DEF AcceptTOTP, AcceptCode
  <1>7. ASSUME NEW r \in Requests, Refuse(r) PROVE Quiet
    <2>1. CASE FallsBack(req[r])
      <3>1. [req[r] EXCEPT !.step = "backup"].step \notin Makes
        BY DEF Inv, TypeOK, Request, Makes
      <3> QED BY <1>1, <1>7, <2>1, <3>1 DEF Refuse
    <2>2. CASE ~FallsBack(req[r])
      BY <1>2, <1>7, <2>2 DEF Refuse, Steps, Makes
    <2> QED BY <2>1, <2>2
  <1>8. ASSUME NEW r \in Requests, TryBackup(r) PROVE Quiet
    <2>1. After(req[r].kind) \in Steps \ Makes
      BY <1>8 DEF TryBackup, At, Inv, Known, After, Steps, Makes
    <2> QED BY <1>2, <1>8, <2>1 DEF TryBackup, Steps, Makes
  <1>9. ASSUME NEW r \in Requests,
               EnableTOTP(r) \/ DisableTOTP(r) \/ Fail(r) PROVE Quiet
    BY <1>2, <1>9 DEF EnableTOTP, DisableTOTP, Fail, Steps, Makes
  <1>10. CASE ExpireCode
    BY <1>10 DEF ExpireCode, Quiet
  <1>11. CASE UNCHANGED vars
    BY <1>11 DEF vars, Quiet
  <1> QED BY <1>3, <1>4, <1>6, <1>7, <1>8, <1>9, <1>10, <1>11 DEF Next, Answer

-----------------------------------------------------------------------------
(* A code of a method is there for a request that has inserted it, and a     *)
(* request between its two statements is still to leave one: together they   *)
(* never outnumber the requests, for using up makes room for all of them.    *)
Live(m) == {o \in otps : o.method = m}
Inserting(m) == {r \in Requests : req[r].step = "insert" /\ req[r].method = m}

Room ==
  /\ IsFiniteSet(otps)
  /\ \A m \in Methods \cup {NoMethod} :
       Cardinality(Live(m)) + Cardinality(Inserting(m)) <= Cardinality(Requests)

\* Codes and requests are finitely many.
LEMMA FiniteParts ==
  ASSUME Room, NEW m
  PROVE  /\ IsFiniteSet(Live(m)) /\ IsFiniteSet(Inserting(m))
         /\ Cardinality(Live(m)) \in Nat /\ Cardinality(Inserting(m)) \in Nat
         /\ Cardinality(Inserting(m)) <= Cardinality(Requests) /\ Cardinality(Requests) \in Nat
  <1>1. Live(m) \subseteq otps /\ Inserting(m) \subseteq Requests
    BY DEF Live, Inserting
  <1> QED BY <1>1, FS_Subset, FS_CardinalityType, RequestsAssumption DEF Room

\* Codes may go, and requests that were about to make one.
LEMMA RoomStays ==
  ASSUME Inv, Room, otps' \subseteq otps, \A m : Inserting(m)' \subseteq Inserting(m)
  PROVE  Room'
  <1>1. IsFiniteSet(otps')
    BY FS_Subset DEF Room
  <1>2. ASSUME NEW m \in Methods \cup {NoMethod}
        PROVE  Cardinality(Live(m)') + Cardinality(Inserting(m)') <= Cardinality(Requests)
    <2>1. Live(m)' \subseteq Live(m)
      BY DEF Live
    <2>2. /\ Cardinality(Live(m)') \in Nat /\ Cardinality(Live(m)') <= Cardinality(Live(m))
          /\ Cardinality(Inserting(m)') \in Nat
          /\ Cardinality(Inserting(m)') <= Cardinality(Inserting(m))
      <3>1. IsFiniteSet(Live(m)') /\ Cardinality(Live(m)') <= Cardinality(Live(m))
        BY <2>1, FiniteParts, FS_Subset
      <3>2. IsFiniteSet(Inserting(m)') /\ Cardinality(Inserting(m)') <= Cardinality(Inserting(m))
        BY FiniteParts, FS_Subset
      <3> QED BY <3>1, <3>2, FS_CardinalityType
    <2>3. Cardinality(Live(m)) + Cardinality(Inserting(m)) <= Cardinality(Requests)
      BY DEF Room
    <2> QED BY <2>2, <2>3, FiniteParts
  <1> QED BY <1>1, <1>2 DEF Room

(* Requests that have come to insert no code leave the room that was.        *)
LEMMA QuietRoom ==
  ASSUME Inv, Room, Quiet PROVE Room'
  <1>1. \A m : Inserting(m)' \subseteq Inserting(m)
    BY DEF Inserting, Quiet, Makes
  <1> QED BY <1>1, RoomStays DEF Quiet

\* A request about to make a code has ended those that were there.
LEMMA InvalidateRoom ==
  ASSUME Inv, Room, NEW r \in Requests, Invalidate(r) PROVE Room'
  <1> PICK k : k = req[r].method
    OBVIOUS
  <1>1. k \in Methods \cup {NoMethod}
    BY DEF Inv, TypeOK, Request
  <1>2. otps' = {o \in otps : o.method # k} /\ req' = [req EXCEPT ![r] = Stage("insert", k)]
    BY DEF Invalidate
  <1>3. IsFiniteSet(otps')
    BY <1>2, FS_Subset DEF Room
  <1>4. req'[r] = Stage("insert", k) /\ \A q \in Requests \ {r} : req'[q] = req[q]
    BY <1>2 DEF Inv, TypeOK
  <1>5. ASSUME NEW m \in Methods \cup {NoMethod}
        PROVE  Cardinality(Live(m)') + Cardinality(Inserting(m)') <= Cardinality(Requests)
    <2>1. CASE m = k
      <3>1. Live(m)' = {}
        BY <1>2, <2>1 DEF Live
      <3>2. Inserting(m)' \subseteq Requests
        BY DEF Inserting
      <3>3. Cardinality(Inserting(m)') \in Nat
            /\ Cardinality(Inserting(m)') <= Cardinality(Requests)
        BY <3>2, FS_Subset, FS_CardinalityType, RequestsAssumption
      <3>4. Cardinality(Live(m)') = 0
        BY <3>1, FS_EmptySet
      <3> QED BY <3>3, <3>4, FiniteParts
    <2>2. CASE m # k
      <3>1. Live(m)' = Live(m)
        BY <1>2, <2>2 DEF Live
      <3>2. Inserting(m)' \subseteq Inserting(m)
        BY <1>1, <1>4, <2>2, StageType DEF Inserting, Steps
      <3>3. Cardinality(Inserting(m)') \in Nat
            /\ Cardinality(Inserting(m)') <= Cardinality(Inserting(m))
        BY <3>2, FiniteParts, FS_Subset, FS_CardinalityType
      <3>4. Cardinality(Live(m)) + Cardinality(Inserting(m)) <= Cardinality(Requests)
        BY DEF Room
      <3> QED BY <3>1, <3>3, <3>4, FiniteParts
    <2> QED BY <2>1, <2>2
  <1> QED BY <1>3, <1>5 DEF Room

\* A code is made by a request that was about to.
LEMMA InsertRoom ==
  ASSUME Inv, Room, NEW r \in Requests, Insert(r) PROVE Room'
  <1> PICK k : k = req[r].method
    OBVIOUS
  <1>1. PICK c \in Codes : otps' = otps \cup {[code |-> c, method |-> k]}
    BY DEF Insert
  <1>2. req' = [req EXCEPT ![r] = Stage("idle", NoMethod)] /\ Stage("idle", NoMethod).step = "idle"
    BY StageType DEF Insert, Proceed, Steps
  <1>3. \A q \in Requests : req'[q] = IF q = r THEN Stage("idle", NoMethod) ELSE req[q]
    BY <1>2 DEF Inv, TypeOK
  <1>4. IsFiniteSet(otps')
    BY <1>1, FS_AddElement DEF Room
  <1>5. ASSUME NEW m \in Methods \cup {NoMethod}
        PROVE  Cardinality(Live(m)') + Cardinality(Inserting(m)') <= Cardinality(Requests)
    <2>1. Cardinality(Live(m)) + Cardinality(Inserting(m)) <= Cardinality(Requests)
      BY DEF Room
    <2>2. CASE m = k
      <3>1. Live(m)' = Live(m) \cup {[code |-> c, method |-> k]}
        BY <1>1, <2>2 DEF Live
      <3>2. r \in Inserting(m) /\ Inserting(m)' = Inserting(m) \ {r}
        BY <1>2, <1>3, <2>2 DEF Inserting, Insert, At
      <3>3. Cardinality(Live(m)') \in {Cardinality(Live(m)), Cardinality(Live(m)) + 1}
        BY <3>1, FiniteParts, FS_AddElement
      <3>4. Cardinality(Inserting(m)') = Cardinality(Inserting(m)) - 1
        BY <3>2, FiniteParts, FS_RemoveElement
      <3> QED BY <2>1, <3>3, <3>4, FiniteParts
    <2>3. CASE m # k
      <3>1. Live(m)' = Live(m)
        BY <1>1, <2>3 DEF Live
      <3>2. Inserting(m)' = Inserting(m)
        BY <1>2, <1>3, <2>3 DEF Inserting
      <3> QED BY <2>1, <3>1, <3>2
    <2> QED BY <2>2, <2>3
  <1> QED BY <1>4, <1>5 DEF Room

\* Every step keeps the room.
LEMMA NextRoom ==
  ASSUME Inv, Room, [Next]_vars PROVE Room'
  <1>1. CASE Quiet
    BY <1>1, QuietRoom
  <1>2. ASSUME NEW r \in Requests, DeleteBackups(r) \/ CommitBackups(r) PROVE Room'
    <2>1. otps' = otps /\ req'[r].step # "insert" /\ \A q \in Requests \ {r} : req'[q] = req[q]
      <3>1. CASE DeleteBackups(r)
        BY <3>1 DEF DeleteBackups, Stage, Inv, TypeOK
      <3>2. CASE CommitBackups(r)
        BY <3>2 DEF CommitBackups, Proceed, Stage, Inv, TypeOK
      <3> QED BY <1>2, <3>1, <3>2
    <2>2. \A m : Inserting(m)' \subseteq Inserting(m)
      BY <2>1 DEF Inserting
    <2> QED BY <2>1, <2>2, RoomStays
  <1> QED BY <1>1, <1>2, NextQuiet, InvalidateRoom, InsertRoom

\* There are no codes.
LEMMA InitRoom == Init => Room
  <1> SUFFICES ASSUME Init PROVE Room
    OBVIOUS
  <1>1. \A m : Live(m) = {} /\ Inserting(m) = {}
    BY IdleType DEF Init, Live, Inserting
  <1>2. IsFiniteSet(otps) /\ Cardinality({}) = 0
    BY FS_EmptySet DEF Init
  <1>3. 0 + 0 <= Cardinality(Requests)
    BY FS_CardinalityType, RequestsAssumption
  <1> QED BY <1>1, <1>2, <1>3 DEF Room

(* Sends that race leave at most one code of a method for each request that  *)
(* can be in progress, however often the user asks.                          *)
THEOREM FewCodes == Spec => []LiveBounded
  <1>1. Room => LiveBounded
    <2> SUFFICES ASSUME Room, NEW m \in Methods
                 PROVE  Cardinality(Live(m)) <= Cardinality(Requests)
      BY DEF LiveBounded, Live
    <2> QED BY FiniteParts DEF Room
  <1>2. Inv /\ Room /\ [Next]_vars => Room'
    BY NextRoom
  <1> QED BY <1>1, <1>2, InitRoom, Invariance, PTL DEF Spec
-----------------------------------------------------------------------------
(* GenerateBackupCodes deletes what it sees and commits later.  Of all that  *)
(* is stored, what some requests about to commit have not seen, together     *)
(* with the batches they are going to store, never outnumbers the requests.  *)
Committing == {r \in Requests : req[r].step = "commit"}
Unseen(S) == {x \in backups : \A r \in S : x \notin req[r].gone}

BatchRoom ==
  /\ IsFiniteSet(backups)
  /\ \A S \in SUBSET Committing :
       Cardinality(Unseen(S)) + Cardinality(S) <= Cardinality(Requests)

\* The requests, and what is unseen, are finitely many.
LEMMA FiniteBatches ==
  ASSUME BatchRoom, NEW S \in SUBSET Requests
  PROVE  /\ IsFiniteSet(Unseen(S)) /\ IsFiniteSet(S)
         /\ Cardinality(Unseen(S)) \in Nat /\ Cardinality(S) \in Nat
         /\ Cardinality(S) <= Cardinality(Requests) /\ Cardinality(Requests) \in Nat
  <1>1. Unseen(S) \subseteq backups
    BY DEF Unseen
  <1> QED BY <1>1, FS_Subset, FS_CardinalityType, RequestsAssumption DEF BatchRoom

\* Batches may go, and requests that were about to store one.
LEMMA BatchesStay ==
  ASSUME BatchRoom, backups' \subseteq backups,
         \A r \in Committing' : r \in Committing /\ req'[r].gone = req[r].gone
  PROVE  BatchRoom'
  <1>1. IsFiniteSet(backups')
    BY FS_Subset DEF BatchRoom
  <1>2. ASSUME NEW S \in SUBSET Committing'
        PROVE  Cardinality(Unseen(S)') + Cardinality(S) <= Cardinality(Requests)
    <2>1. S \subseteq Committing /\ S \subseteq Requests
      BY DEF Committing
    <2>2. Unseen(S)' \subseteq Unseen(S)
      BY DEF Unseen
    <2>3. Cardinality(Unseen(S)') \in Nat /\ Cardinality(Unseen(S)') <= Cardinality(Unseen(S))
      <3>1. IsFiniteSet(Unseen(S)') /\ Cardinality(Unseen(S)') <= Cardinality(Unseen(S))
        BY <2>1, <2>2, FiniteBatches, FS_Subset
      <3> QED BY <3>1, FS_CardinalityType
    <2>4. Cardinality(Unseen(S)) + Cardinality(S) <= Cardinality(Requests)
      BY <2>1 DEF BatchRoom
    <2> QED BY <2>1, <2>3, <2>4, FiniteBatches
  <1> QED BY <1>1, <1>2 DEF BatchRoom

\* A request that has just run its DELETE has seen every batch.
LEMMA DeleteBatches ==
  ASSUME Inv, BatchRoom, NEW r \in Requests, DeleteBackups(r) PROVE BatchRoom'
  <1>1. backups' = backups /\ req'[r].gone = backups
        /\ \A q \in Requests \ {r} : req'[q] = req[q]
    BY DEF DeleteBackups, Stage, Inv, TypeOK
  <1>2. ASSUME NEW S \in SUBSET Committing'
        PROVE  Cardinality(Unseen(S)') + Cardinality(S) <= Cardinality(Requests)
    <2>1. S \subseteq Requests
      BY DEF Committing
    <2>2. CASE r \in S
      <3>1. Unseen(S)' = {}
        BY <1>1, <2>2 DEF Unseen
      <3>2. Cardinality(Unseen(S)') = 0
        BY <3>1, FS_EmptySet
      <3> QED BY <2>1, <3>2, FiniteBatches
    <2>3. CASE r \notin S
      <3>1. S \subseteq Committing
        BY <1>1, <2>3 DEF Committing
      <3>2. Unseen(S)' = Unseen(S)
        BY <1>1, <2>1, <2>3 DEF Unseen
      <3> QED BY <3>1, <3>2 DEF BatchRoom
    <2> QED BY <2>2, <2>3
  <1> QED BY <1>1, <1>2 DEF BatchRoom

\* A batch is stored by a request that takes away what it has seen.
LEMMA CommitBatches ==
  ASSUME Inv, BatchRoom, NEW r \in Requests, CommitBackups(r) PROVE BatchRoom'
  <1>1. PICK x : backups' = (backups \ req[r].gone) \cup {x}
    BY DEF CommitBackups
  <1>2. req'[r].step = "idle" /\ \A q \in Requests \ {r} : req'[q] = req[q]
    BY DEF CommitBackups, Proceed, Stage, Inv, TypeOK
  <1>3. r \in Committing /\ Committing' = Committing \ {r}
    BY <1>2 DEF CommitBackups, At, Committing
  <1>4. IsFiniteSet(backups')
    <2>1. IsFiniteSet(backups \ req[r].gone)
      BY FS_Subset DEF BatchRoom
    <2> QED BY <1>1, <2>1, FS_AddElement
  <1>5. ASSUME NEW S \in SUBSET Committing'
        PROVE  Cardinality(Unseen(S)') + Cardinality(S) <= Cardinality(Requests)
    <2> DEFINE T == S \cup {r}
    <2>1. T \subseteq Committing /\ S \subseteq Requests /\ T \subseteq Requests /\ r \notin S
      BY <1>3 DEF Committing
    <2>2. Unseen(S)' \subseteq Unseen(T) \cup {x}
      BY <1>1, <1>2, <2>1 DEF Unseen
    <2>3. Cardinality(T) = Cardinality(S) + 1
      BY <2>1, FiniteBatches, FS_AddElement
    <2>4. Cardinality(Unseen(T)) + Cardinality(T) <= Cardinality(Requests)
      BY <2>1 DEF BatchRoom
    <2> HIDE DEF T
    <2>5. /\ IsFiniteSet(Unseen(T) \cup {x})
          /\ Cardinality(Unseen(T) \cup {x}) <= Cardinality(Unseen(T)) + 1
      BY <2>1, FiniteBatches, FS_AddElement
    <2>6. /\ Cardinality(Unseen(S)') \in Nat
          /\ Cardinality(Unseen(S)') <= Cardinality(Unseen(T) \cup {x})
          /\ Cardinality(Unseen(T) \cup {x}) \in Nat
      <3>1. IsFiniteSet(Unseen(S)') /\ Cardinality(Unseen(S)') <= Cardinality(Unseen(T) \cup {x})
        BY <2>2, <2>5, FS_Subset
      <3> QED BY <2>5, <3>1, FS_CardinalityType
    <2>7. Cardinality(Unseen(T)) \in Nat /\ Cardinality(S) \in Nat /\ Cardinality(Requests) \in Nat
      BY <2>1, FiniteBatches
    <2> QED BY <2>3, <2>4, <2>5, <2>6, <2>7
  <1> QED BY <1>4, <1>5 DEF BatchRoom

\* Every step keeps the room for batches.
LEMMA NextBatches ==
  ASSUME Inv, BatchRoom, [Next]_vars PROVE BatchRoom'
  <1>1. CASE Quiet
    <2>1. \A r \in Committing' : r \in Committing /\ req'[r].gone = req[r].gone
      BY <1>1 DEF Committing, Quiet, Makes
    <2> QED BY <1>1, <2>1, BatchesStay DEF Quiet
  <1>2. ASSUME NEW r \in Requests, Invalidate(r) \/ Insert(r) PROVE BatchRoom'
    <2>1. backups' = backups /\ req'[r].step # "commit" /\ \A q \in Requests \ {r} : req'[q] = req[q]
      BY <1>2 DEF Invalidate, Insert, Proceed, Stage, Inv, TypeOK
    <2>2. \A q \in Committing' : q \in Committing /\ req'[q].gone = req[q].gone
      BY <2>1 DEF Committing
    <2> QED BY <2>1, <2>2, BatchesStay
  <1> QED BY <1>1, <1>2, NextQuiet, DeleteBatches, CommitBatches

\* There are no batches, and nobody is about to store one.
LEMMA InitBatches == Init => BatchRoom
  <1> SUFFICES ASSUME Init PROVE BatchRoom
    OBVIOUS
  <1>1. Committing = {} /\ backups = {}
    BY IdleType DEF Init, Committing
  <1>2. \A S \in SUBSET Committing : S = {} /\ Unseen(S) = {}
    BY <1>1 DEF Unseen
  <1>3. IsFiniteSet({}) /\ Cardinality({}) = 0 /\ Cardinality(Requests) \in Nat
    BY FS_EmptySet, FS_CardinalityType, RequestsAssumption
  <1> QED BY <1>1, <1>2, <1>3 DEF BatchRoom

(* Regenerations that race, with each other or with a verification or a      *)
(* disabling, leave at most one batch of backup codes for each request that  *)
(* can be in progress, however often the user asks.                          *)
THEOREM FewBatches == Spec => []BatchesBounded
  <1>1. BatchRoom => BatchesBounded
    <2> SUFFICES ASSUME BatchRoom PROVE Cardinality(backups) <= Cardinality(Requests)
      BY DEF BatchesBounded
    <2>1. Unseen({}) = backups /\ Cardinality({}) = 0
      BY FS_EmptySet DEF Unseen
    <2>2. Cardinality(Unseen({})) + Cardinality({}) <= Cardinality(Requests)
      BY DEF BatchRoom
    <2> QED BY <2>1, <2>2, FiniteBatches
  <1>2. Inv /\ BatchRoom /\ [Next]_vars => BatchRoom'
    BY NextBatches
  <1> QED BY <1>1, <1>2, InitBatches, Invariance, PTL DEF Spec
=============================================================================

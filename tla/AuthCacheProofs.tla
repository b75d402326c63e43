--------------------------- MODULE AuthCacheProofs ---------------------------
(* Proofs about AuthCache, for every set of users, roles, permissions,       *)
(* requests and administrators, and every TTL and Deadline.                  *)
EXTENDS AuthCache, TLAPS

-----------------------------------------------------------------------------
(* A bound on the age of what is served does not survive a step by itself:  *)
(* it rests on what requests hold in hand, which was true when it was read, *)
(* no longer ago than the request is old, and on how old entries can be.    *)

\* The histories count from the moment a fact stopped to hold.
HistoryOK ==
  /\ \A u \in Users : Admitted(users[u]) => shut[u] = 0
  /\ \A u \in Users : apart[u][users[u].role] = 0
  /\ \A r \in Roles : \A p \in grants[r] : lacks[r][p] = 0

\* Role q and permissions ps were, n units ago or later, what user u had.
Had(u, q, ps, n) ==
  ps # {} => /\ q \in Roles
             /\ apart[u][q] <= n
             /\ \A p \in ps : lacks[q][p] <= n

ReadingOK(g) ==
  g.step # "idle" =>
    /\ g.user \in Users
    /\ shut[g.user] <= g.age
    /\ g.step = "row" => g.role \in Roles /\ apart[g.user][g.role] <= g.age /\ g.perms = {}
    /\ Had(g.user, g.role, g.perms, g.age)

EntryOK(u, e) ==
  e.held => /\ shut[u] <= e.age + Deadline
            /\ Had(u, e.role, e.perms, e.age + Deadline)

Recent ==
  /\ \A r \in Readers : ReadingOK(reader[r])
  /\ \A u \in Users : EntryOK(u, cache[u])
  /\ \A u \in Users : ~cache[u].held => cache[u] = NoEntry

Inv == TypeOK /\ HistoryOK /\ Recent /\ StaleIsInFlight

-----------------------------------------------------------------------------
\* Times and the values of nothing read and nothing cached have their types.
LEMMA Constants ==
  /\ Window \in Nat /\ TTL \in Nat /\ Deadline \in Nat /\ TTL # 0
  /\ 0 \in 0 .. TTL /\ 0 \in 0 .. Deadline /\ 0 \in Ages /\ Window + 1 \in Ages
  /\ Waiting \in Reading /\ NoEntry \in Entry
  /\ ~NoEntry.held /\ NoEntry.perms = {} /\ Waiting.step = "idle"
  BY TimesAssumption DEF Window, Ages, Waiting, Reading, NoEntry, Entry

\* Nothing is cached, and nothing is being read.
LEMMA InitInv == Init => Inv
  <1> SUFFICES ASSUME Init PROVE Inv
    OBVIOUS
  <1>1. users \in [Users -> UserRow]
    BY DEF Init, UserRow
  <1>2. TypeOK
    BY <1>1, Constants DEF Init, TypeOK
  <1>3. HistoryOK
    BY <1>2 DEF Init, HistoryOK, TypeOK, UserRow
  <1>4. Recent
    BY Constants DEF Init, Recent, ReadingOK, EntryOK
  <1>5. StaleIsInFlight
    BY Constants DEF Init, StaleIsInFlight
  <1> QED BY <1>2, <1>3, <1>4, <1>5 DEF Inv

\* After a step, what was had n units ago or later.
Still(u, q, ps, n) ==
  ps # {} => q \in Roles /\ apart'[u][q] <= n /\ \A p \in ps : lacks'[q][p] <= n

(* What was had within n units still is after a write, and within n + 1     *)
(* after a tick.                                                             *)
LEMMA HadKept ==
  ASSUME TypeOK, TypeOK',
         \A u \in Users : \A r \in Roles : apart'[u][r] <= apart[u][r],
         \A r \in Roles, p \in Perms : lacks'[r][p] <= lacks[r][p]
  PROVE  \A u \in Users : \A q : \A ps \in SUBSET Perms : \A n \in Nat :
           Had(u, q, ps, n) => Still(u, q, ps, n)
  <1> SUFFICES ASSUME NEW u \in Users, NEW q, NEW ps \in SUBSET Perms, NEW n \in Nat,
                      Had(u, q, ps, n), ps # {}
               PROVE q \in Roles /\ apart'[u][q] <= n /\ \A p \in ps : lacks'[q][p] <= n
    BY DEF Still
  <1>1. q \in Roles /\ apart[u][q] <= n /\ \A p \in ps : lacks[q][p] <= n
    BY DEF Had
  <1>2. apart[u][q] \in Int /\ apart'[u][q] \in Int
    BY <1>1, Constants DEF TypeOK, Ages
  <1>3. \A p \in ps : lacks[q][p] \in Int /\ lacks'[q][p] \in Int
    BY <1>1, Constants DEF TypeOK, Ages
  <1> QED BY <1>1, <1>2, <1>3

\* What a user had n units ago, it had n + 1 units ago one tick later.
LEMMA HadLater ==
  ASSUME TypeOK, TypeOK',
         \A u \in Users : \A r \in Roles : apart'[u][r] <= apart[u][r] + 1,
         \A r \in Roles, p \in Perms : lacks'[r][p] <= lacks[r][p] + 1
  PROVE  \A u \in Users : \A q : \A ps \in SUBSET Perms : \A n \in Nat :
           Had(u, q, ps, n) => Still(u, q, ps, n + 1)
  <1> SUFFICES ASSUME NEW u \in Users, NEW q, NEW ps \in SUBSET Perms, NEW n \in Nat,
                      Had(u, q, ps, n), ps # {}
               PROVE q \in Roles /\ apart'[u][q] <= n + 1 /\ \A p \in ps : lacks'[q][p] <= n + 1
    BY DEF Still
  <1>1. q \in Roles /\ apart[u][q] <= n /\ \A p \in ps : lacks[q][p] <= n
    BY DEF Had
  <1>2. apart[u][q] \in Int /\ apart'[u][q] \in Int
    BY <1>1, Constants DEF TypeOK, Ages
  <1>3. \A p \in ps : lacks[q][p] \in Int /\ lacks'[q][p] \in Int
    BY <1>1, Constants DEF TypeOK, Ages
  <1> QED BY <1>1, <1>2, <1>3

(* A write of rows: types, histories and what is in hand survive it. *)
LEMMA WriteStep ==
  ASSUME Inv, Recall, UNCHANGED reader,
         users' \in [Users -> UserRow], grants' \in [Roles -> SUBSET Perms],
         todo' \in [Admins -> SUBSET Users],
         cache' \in [Users -> Entry],
         \A u \in Users :
           /\ cache'[u].held = cache[u].held
           /\ cache'[u].role = cache[u].role
           /\ cache'[u].perms = cache[u].perms
           /\ cache'[u].age = cache[u].age
           /\ ~cache[u].held => cache'[u] = cache[u]
  PROVE  TypeOK' /\ HistoryOK' /\ Recent'
  <1>0. TypeOK /\ HistoryOK /\ Recent
    BY DEF Inv
  <1>1. TypeOK'
    <2>1. shut' \in [Users -> Ages]
      BY <1>0, Constants DEF Recall, TypeOK
    <2>2. apart' \in [Users -> [Roles -> Ages]]
      BY <1>0, Constants DEF Recall, TypeOK
    <2>3. lacks' \in [Roles -> [Perms -> Ages]]
      BY <1>0, Constants DEF Recall, TypeOK
    <2> QED BY <1>0, <2>1, <2>2, <2>3 DEF TypeOK
  <1>2. HistoryOK'
    BY <1>1 DEF Recall, HistoryOK, TypeOK, UserRow
  <1>3. \A u \in Users : shut'[u] <= shut[u]
    BY <1>0, Constants DEF Recall, TypeOK, Ages
  <1>4. \A u \in Users : \A r \in Roles : apart'[u][r] <= apart[u][r]
    BY <1>0, Constants DEF Recall, TypeOK, Ages
  <1>5. \A r \in Roles, p \in Perms : lacks'[r][p] <= lacks[r][p]
    BY <1>0, Constants DEF Recall, TypeOK, Ages
  <1>still. \A u \in Users : \A q : \A ps \in SUBSET Perms : \A n \in Nat :
          Had(u, q, ps, n) => Still(u, q, ps, n)
    BY <1>0, <1>1, <1>4, <1>5, HadKept
  <1>6. ASSUME NEW r \in Readers PROVE ReadingOK(reader[r])'
    <2> DEFINE g == reader[r]
    <2>1. g \in Reading /\ ReadingOK(g) /\ g.age \in Nat /\ g.perms \in SUBSET Perms
      BY <1>0, Constants DEF TypeOK, Reading, Recent
    <2> SUFFICES ASSUME g.step # "idle"
                 PROVE /\ g.user \in Users
                       /\ shut'[g.user] <= g.age
                       /\ g.step = "row" => g.role \in Roles /\ apart'[g.user][g.role] <= g.age /\ g.perms = {}
                       /\ Had(g.user, g.role, g.perms, g.age)'
      BY DEF ReadingOK
    <2>2. /\ g.user \in Users /\ shut[g.user] <= g.age
          /\ g.step = "row" => g.role \in Roles /\ apart[g.user][g.role] <= g.age /\ g.perms = {}
          /\ Had(g.user, g.role, g.perms, g.age)
      BY <2>1 DEF ReadingOK
    <2>3. shut[g.user] \in Int /\ shut'[g.user] \in Int
      BY <1>0, <1>1, <2>2, Constants DEF TypeOK, Ages
    <2>4. shut'[g.user] <= g.age
      BY <1>3, <2>1, <2>2, <2>3
    <2>5. g.step = "row" => apart'[g.user][g.role] <= g.age
      <3> SUFFICES ASSUME g.step = "row" PROVE apart'[g.user][g.role] <= g.age
        OBVIOUS
      <3>1. apart[g.user][g.role] \in Int /\ apart'[g.user][g.role] \in Int
        BY <1>0, <1>1, <2>2, Constants DEF TypeOK, Ages
      <3> QED BY <1>4, <2>1, <2>2, <3>1
    <2>6. Had(g.user, g.role, g.perms, g.age)'
      <3>1. Still(g.user, g.role, g.perms, g.age)
        BY <1>still, <2>1, <2>2
      <3> QED BY <3>1 DEF Had, Still
    <2> QED BY <2>2, <2>4, <2>5, <2>6
  <1>7. ASSUME NEW u \in Users PROVE EntryOK(u, cache[u])'
    <2> DEFINE e == cache[u]
               old == e.age + Deadline
    <2>1. e \in Entry /\ old \in Nat /\ e.perms \in SUBSET Perms
      BY <1>0, Constants DEF TypeOK, Entry
    <2>2. /\ cache'[u].held = e.held /\ cache'[u].role = e.role
          /\ cache'[u].perms = e.perms /\ cache'[u].age + Deadline = old
      OBVIOUS
    <2> SUFFICES ASSUME e.held
                 PROVE /\ shut'[u] <= old
                       /\ Still(u, e.role, e.perms, old)
      BY <2>2 DEF EntryOK, Had, Still
    <2>3. shut[u] <= old /\ Had(u, e.role, e.perms, old)
      BY <1>0 DEF Recent, EntryOK
    <2>4. shut'[u] <= old
      BY <1>0, <1>1, <1>3, <2>1, <2>3, Constants DEF TypeOK, Ages
    <2> QED BY <1>still, <2>1, <2>3, <2>4
  <1>8. \A u \in Users : ~cache'[u].held => cache'[u] = NoEntry
    BY <1>0 DEF Recent
  <1> QED BY <1>1, <1>2, <1>6, <1>7, <1>8 DEF Recent

-----------------------------------------------------------------------------
(* The middleware.  Nothing it does changes a row or a history. *)
LEMMA ReaderStep ==
  ASSUME Inv, NEW r0 \in Readers, NEW g \in Reading,
         UNCHANGED <<users, grants, todo, shut, apart, lacks>>,
         reader' = [reader EXCEPT ![r0] = g], ReadingOK(g),
         cache' \in [Users -> Entry], \A u \in Users : EntryOK(u, cache'[u]),
         \A u \in Users : ~cache'[u].held => cache'[u] = NoEntry,
         \A u \in Users : cache'[u] # cache[u] /\ cache'[u].fresh => Agrees(cache'[u], u)
  PROVE  Inv'
  <1>0. TypeOK /\ HistoryOK /\ Recent /\ StaleIsInFlight
    BY DEF Inv
  <1>1. reader' \in [Readers -> Reading]
    BY <1>0 DEF TypeOK
  <1>2. TypeOK'
    BY <1>0, <1>1 DEF TypeOK
  <1>3. HistoryOK'
    BY <1>0 DEF HistoryOK, Admitted
  <1>4. ASSUME NEW r \in Readers PROVE ReadingOK(reader[r])'
    <2>1. ReadingOK(reader'[r])
      BY <1>0 DEF TypeOK, Recent
    <2> QED BY <2>1 DEF ReadingOK, Had
  <1>5. ASSUME NEW u \in Users PROVE EntryOK(u, cache[u])'
    <2>1. EntryOK(u, cache'[u])
      OBVIOUS
    <2> QED BY <2>1 DEF EntryOK, Had
  <1>6. Recent'
    BY <1>4, <1>5 DEF Recent
  <1>7. StaleIsInFlight'
    BY <1>0 DEF StaleIsInFlight, Agrees, Admitted
  <1> QED BY <1>2, <1>3, <1>6, <1>7 DEF Inv

\* A request reads the row of its user, which is admitted at that moment.
LEMMA ReadUserInv ==
  ASSUME Inv, NEW r \in Readers, NEW u \in Users, ReadUser(r, u)
  PROVE  Inv'
  <1>0. TypeOK /\ HistoryOK /\ Recent
    BY DEF Inv
  <1>1. users[u].role \in Roles
    BY <1>0 DEF TypeOK, UserRow
  <1>2. Found(u) \in Reading
    BY <1>1, Constants DEF Found, Reading
  <1>3. shut[u] = 0 /\ apart[u][users[u].role] = 0
    BY <1>0 DEF ReadUser, HistoryOK
  <1>4. ReadingOK(Found(u))
    BY <1>1, <1>3 DEF ReadingOK, Found, Had
  <1> QED
    BY <1>0, <1>2, <1>4, ReaderStep DEF ReadUser, TypeOK, Recent

(* What is read with the row, and how: none of the permissions that the      *)
(* role did not have at that moment.                                         *)
LEMMA GrantsInv ==
  ASSUME Inv, NEW r \in Readers, reader[r].step = "row",
         NEW q \in Roles \cup {NoRole}, NEW ps \in SUBSET grants[reader[r].role],
         \/ q = reader[r].role
         \/ q = NoRole /\ ps = {},
         reader' = [reader EXCEPT ![r] = Completed(reader[r], q, ps)],
         UNCHANGED <<users, grants, cache, todo, shut, apart, lacks>>
  PROVE  Inv'
  <1>0. TypeOK /\ HistoryOK /\ Recent
    BY DEF Inv
  <1> DEFINE g == reader[r]
             h == Completed(g, q, ps)
  <1>1. g \in Reading /\ ReadingOK(g)
    BY <1>0 DEF TypeOK, Recent
  <1>2. g.user \in Users /\ shut[g.user] <= g.age /\ g.role \in Roles /\ apart[g.user][g.role] <= g.age
    BY <1>1 DEF ReadingOK
  <1>3. ps \in SUBSET Perms
    BY <1>0, <1>2 DEF TypeOK
  <1>4. h \in Reading
    BY <1>1, <1>2, <1>3 DEF Completed, Reading
  <1>5. g.age \in Nat
    BY <1>1, Constants DEF Reading
  <1>6. \A p \in ps : lacks[g.role][p] <= g.age
    BY <1>0, <1>2, <1>5 DEF HistoryOK
  <1>7. Had(g.user, q, ps, g.age)
    BY <1>2, <1>6 DEF Had
  <1>8. ReadingOK(h)
    BY <1>2, <1>7 DEF ReadingOK, Completed
  <1>9. cache' \in [Users -> Entry] /\ \A u \in Users : EntryOK(u, cache'[u])
    BY <1>0 DEF TypeOK, Recent
  <1>10. \A u \in Users : ~cache'[u].held => cache'[u] = NoEntry
    BY <1>0 DEF Recent
  <1> HIDE DEF h
  <1> QED BY <1>4, <1>8, <1>9, <1>10, ReaderStep DEF h

\* The permissions are read, all of the role of that moment.
LEMMA ReadGrantsInv ==
  ASSUME Inv, NEW r \in Readers, ReadGrants(r)
  PROVE  Inv'
  <1>1. reader[r].role \in Roles
    BY DEF Inv, Recent, ReadingOK, ReadGrants
  <1> QED BY <1>1, GrantsInv DEF ReadGrants

\* Role and permissions are not read, or only some of them: what is used is less.
LEMMA GrantsUnreadInv ==
  ASSUME Inv, NEW r \in Readers, GrantsUnread(r)
  PROVE  Inv'
  <1>1. reader[r].role \in Roles
    BY DEF Inv, Recent, ReadingOK, GrantsUnread
  <1>2. CASE reader' = [reader EXCEPT ![r] = Completed(reader[r], NoRole, {})]
    BY <1>2, GrantsInv DEF GrantsUnread
  <1>3. ASSUME NEW ps \in SUBSET grants[reader[r].role],
               reader' = [reader EXCEPT ![r] = Completed(reader[r], reader[r].role, ps)]
        PROVE  Inv'
    BY <1>1, <1>3, GrantsInv DEF GrantsUnread
  <1> QED BY <1>2, <1>3 DEF GrantsUnread

\* What was read goes into the cache, no older than the deadline.
LEMMA FillInv ==
  ASSUME Inv, NEW r \in Readers, Fill(r)
  PROVE  Inv'
  <1>0. TypeOK /\ HistoryOK /\ Recent
    BY DEF Inv
  <1> DEFINE g == reader[r]
             e == Stored(g)
  <1>1. g \in Reading /\ ReadingOK(g) /\ g.step = "ready"
    BY <1>0 DEF TypeOK, Recent, Fill
  <1>2. g.user \in Users /\ shut[g.user] <= g.age /\ Had(g.user, g.role, g.perms, g.age)
    BY <1>1 DEF ReadingOK
  <1>3. /\ e.held /\ e.role = g.role /\ e.perms = g.perms /\ e.age = 0
        /\ e.fresh => Agrees(e, g.user)
    BY DEF Stored, Agrees
  <1>4. e \in Entry
    BY <1>1, Constants DEF Stored, Entry, Reading, Agrees, Admitted
  <1>5. g.age \in Int /\ g.age <= Deadline /\ g.perms \in SUBSET Perms
    BY <1>1, Constants DEF Reading
  <1>6. shut[g.user] <= Deadline
    BY <1>0, <1>2, <1>5, Constants DEF TypeOK, Ages
  <1>7. Had(g.user, g.role, g.perms, Deadline)
    <2> SUFFICES ASSUME g.perms # {}
                 PROVE  /\ g.role \in Roles /\ apart[g.user][g.role] <= Deadline
                        /\ \A p \in g.perms : lacks[g.role][p] <= Deadline
      BY DEF Had
    <2>1. /\ g.role \in Roles /\ apart[g.user][g.role] <= g.age
          /\ \A p \in g.perms : lacks[g.role][p] <= g.age
      BY <1>2 DEF Had
    <2>2. apart[g.user][g.role] \in Int /\ \A p \in g.perms : lacks[g.role][p] \in Int
      BY <1>0, <1>2, <1>5, <2>1, Constants DEF TypeOK, Ages
    <2> QED BY <1>5, <2>1, <2>2, Constants
  <1>8. EntryOK(g.user, e)
    BY <1>3, <1>6, <1>7, Constants DEF EntryOK
  <1>9. Waiting \in Reading /\ ReadingOK(Waiting)
    BY Constants DEF ReadingOK
  <1> HIDE DEF e
  <1>10. cache' = [cache EXCEPT ![g.user] = e]
    BY DEF Fill, e
  <1>11. cache' \in [Users -> Entry] /\ \A u \in Users : EntryOK(u, cache'[u])
    BY <1>0, <1>4, <1>8, <1>10 DEF TypeOK, Recent
  <1>12. \A u \in Users : ~cache'[u].held => cache'[u] = NoEntry
    BY <1>0, <1>3, <1>10 DEF TypeOK, Recent
  <1>13. \A u \in Users : cache'[u] # cache[u] /\ cache'[u].fresh => Agrees(cache'[u], u)
    BY <1>0, <1>3, <1>10 DEF TypeOK
  <1> QED BY <1>9, <1>11, <1>12, <1>13, ReaderStep DEF Fill

\* A request that ends by its deadline leaves nothing behind.
LEMMA GiveUpInv ==
  ASSUME Inv, NEW r \in Readers, GiveUp(r)
  PROVE  Inv'
  <1>1. Waiting \in Reading /\ ReadingOK(Waiting)
    BY Constants DEF ReadingOK
  <1> QED BY <1>1, ReaderStep DEF GiveUp, Inv, TypeOK, Recent

-----------------------------------------------------------------------------
(* The administrators. *)

(* A deletion that was on its way stays so, and an entry that a write makes  *)
(* untrue is about to be deleted or given up.                                *)
LEMMA StaleKept ==
  ASSUME StaleIsInFlight,
         \A b \in Admins : \A u \in todo[b] : u \in todo'[b] \/ ~cache'[u].held \/ ~cache'[u].fresh,
         \A u \in Users :
           cache'[u].held /\ cache'[u].fresh =>
             \/ \E b \in Admins : u \in todo'[b]
             \/ /\ cache[u].held /\ cache[u].fresh
                /\ Agrees(cache[u], u) => Agrees(cache[u], u)'
  PROVE  StaleIsInFlight'
  BY DEF StaleIsInFlight

(* What is left of the keys of an administrator that had none, and of the    *)
(* entries that are given up.                                                *)
LEMMA DeleteKeeps ==
  ASSUME TypeOK, NEW a \in Admins, NEW keys \in SUBSET Users, Delete(a, keys)
  PROVE  /\ todo' \in [Admins -> SUBSET Users]
         /\ \A b \in Admins : todo[b] \subseteq todo'[b]
         /\ \A u \in keys : \E b \in Admins : u \in todo'[b]
  BY DEF TypeOK, Delete

\* Entries that no deletion will reach keep what they hold; only fresh changes.
LEMMA ForsakeKeeps ==
  ASSUME TypeOK, NEW keys \in SUBSET Users, Forsake(keys)
  PROVE  /\ cache' \in [Users -> Entry]
         /\ \A u \in Users :
              /\ cache'[u].held = cache[u].held
              /\ cache'[u].role = cache[u].role
              /\ cache'[u].perms = cache[u].perms
              /\ cache'[u].age = cache[u].age
              /\ ~cache[u].held => cache'[u] = cache[u]
              /\ u \notin keys => cache'[u] = cache[u]
              /\ u \in keys /\ cache[u].held => ~cache'[u].fresh
  <1>1. ASSUME NEW u \in Users
        PROVE  /\ cache'[u] \in Entry
               /\ cache'[u].held = cache[u].held /\ cache'[u].role = cache[u].role
               /\ cache'[u].perms = cache[u].perms /\ cache'[u].age = cache[u].age
               /\ ~cache[u].held => cache'[u] = cache[u]
               /\ u \notin keys => cache'[u] = cache[u]
               /\ u \in keys /\ cache[u].held => ~cache'[u].fresh
    BY DEF TypeOK, Entry, Forsake
  <1> QED BY <1>1 DEF Forsake

\* A key is deleted: what is not there cannot be too old.
LEMMA DelKeyInv ==
  ASSUME Inv, NEW a \in Admins, NEW u \in Users, DelKey(a, u)
  PROVE  Inv'
  <1>0. TypeOK /\ HistoryOK /\ Recent /\ StaleIsInFlight
    BY DEF Inv
  <1>1. TypeOK'
    BY <1>0, Constants DEF TypeOK, DelKey
  <1>2. HistoryOK'
    BY <1>0 DEF HistoryOK, Admitted, DelKey
  <1>3. \A v \in Users : cache'[v] = IF v = u THEN NoEntry ELSE cache[v]
    BY <1>0 DEF TypeOK, DelKey
  <1>4. Recent'
    <2>1. ASSUME NEW r \in Readers PROVE ReadingOK(reader[r])'
      BY <1>0 DEF DelKey, Recent, ReadingOK, Had
    <2>2. ASSUME NEW v \in Users PROVE EntryOK(v, cache[v])'
      BY <1>0, <1>3, Constants DEF DelKey, Recent, EntryOK, Had
    <2> QED BY <1>0, <1>3, <2>1, <2>2 DEF Recent
  <1>5. StaleIsInFlight'
    BY <1>0, <1>3, Constants DEF TypeOK, DelKey, StaleIsInFlight, Agrees, Admitted
  <1> QED BY <1>1, <1>2, <1>4, <1>5 DEF Inv

\* Keys are not deleted: their entries stay, and are no longer fresh.
LEMMA KeysNotDeletedInv ==
  ASSUME Inv, NEW a \in Admins, KeysNotDeleted(a)
  PROVE  Inv'
  <1>0. TypeOK /\ HistoryOK /\ Recent /\ StaleIsInFlight
    BY DEF Inv
  <1>1. todo[a] \in SUBSET Users /\ todo' \in [Admins -> SUBSET Users]
    BY <1>0 DEF TypeOK, KeysNotDeleted
  <1>2. /\ cache' \in [Users -> Entry]
        /\ \A u \in Users :
             /\ cache'[u].held = cache[u].held
             /\ cache'[u].role = cache[u].role
             /\ cache'[u].perms = cache[u].perms
             /\ cache'[u].age = cache[u].age
             /\ ~cache[u].held => cache'[u] = cache[u]
             /\ u \notin todo[a] => cache'[u] = cache[u]
             /\ u \in todo[a] /\ cache[u].held => ~cache'[u].fresh
    BY <1>0, <1>1, ForsakeKeeps DEF KeysNotDeleted
  <1>3. TypeOK'
    BY <1>0, <1>1, <1>2 DEF TypeOK, KeysNotDeleted
  <1>4. HistoryOK'
    BY <1>0 DEF HistoryOK, Admitted, KeysNotDeleted
  <1>5. Recent'
    <2>1. ASSUME NEW r \in Readers PROVE ReadingOK(reader[r])'
      BY <1>0 DEF KeysNotDeleted, Recent, ReadingOK, Had
    <2>2. ASSUME NEW v \in Users PROVE EntryOK(v, cache[v])'
      BY <1>0, <1>2 DEF KeysNotDeleted, Recent, EntryOK, Had
    <2>3. \A v \in Users : ~cache'[v].held => cache'[v] = NoEntry
      BY <1>0, <1>2 DEF Recent
    <2> QED BY <2>1, <2>2, <2>3 DEF Recent
  <1>6. \A b \in Admins : b # a => todo'[b] = todo[b]
    BY <1>0 DEF TypeOK, KeysNotDeleted
  <1>7. StaleIsInFlight'
    <2>1. ASSUME NEW u \in Users, cache'[u].held, cache'[u].fresh PROVE u \notin todo[a] /\ cache'[u] = cache[u]
      BY <1>2, <2>1
    <2> QED BY <1>0, <1>6, <2>1 DEF KeysNotDeleted, StaleIsInFlight, Agrees, Admitted
  <1> QED BY <1>3, <1>4, <1>5, <1>7 DEF Inv

(* A write of one row that deletes or gives up the key, or cannot make the   *)
(* entry untrue.                                                             *)
LEMMA RowWritten ==
  ASSUME Inv, NEW u \in Users, NEW row \in UserRow, NEW keys \in SUBSET Users,
         users' = [users EXCEPT ![u] = row], UNCHANGED <<grants, reader>>, Recall,
         Forsake(keys), todo' \in [Admins -> SUBSET Users],
         \A b \in Admins : todo[b] \subseteq todo'[b],
         \/ u \in keys
         \/ ~Admitted(users[u])
         \/ \E b \in Admins : u \in todo'[b]
  PROVE  Inv'
  <1>0. TypeOK /\ HistoryOK /\ Recent /\ StaleIsInFlight
    BY DEF Inv
  <1>1. users' \in [Users -> UserRow] /\ grants' \in [Roles -> SUBSET Perms]
    BY <1>0 DEF TypeOK
  <1>2. /\ cache' \in [Users -> Entry]
        /\ \A v \in Users :
             /\ cache'[v].held = cache[v].held
             /\ cache'[v].role = cache[v].role
             /\ cache'[v].perms = cache[v].perms
             /\ cache'[v].age = cache[v].age
             /\ ~cache[v].held => cache'[v] = cache[v]
             /\ v \notin keys => cache'[v] = cache[v]
             /\ v \in keys /\ cache[v].held => ~cache'[v].fresh
    BY <1>0, ForsakeKeeps
  <1>3. TypeOK' /\ HistoryOK' /\ Recent'
    BY <1>1, <1>2, WriteStep
  <1>4. \A v \in Users : v # u => users'[v] = users[v]
    BY <1>0 DEF TypeOK
  <1>5. ASSUME NEW v \in Users, cache'[v].held, cache'[v].fresh
        PROVE  \/ \E b \in Admins : v \in todo'[b]
               \/ /\ cache[v].held /\ cache[v].fresh
                  /\ Agrees(cache[v], v) => Agrees(cache[v], v)'
    <2>1. v \notin keys /\ cache'[v] = cache[v]
      BY <1>2, <1>5
    <2>2. CASE v # u
      BY <1>4, <1>5, <2>1, <2>2 DEF Agrees, Admitted
    <2>3. CASE v = u
      BY <1>5, <2>1, <2>3 DEF Agrees
    <2> QED BY <2>2, <2>3
  <1>6. StaleIsInFlight'
    BY <1>0, <1>5, StaleKept
  <1> QED BY <1>3, <1>6 DEF Inv

\* A status changes: who is shut out by it is so from now on.
LEMMA ToggleStatusInv ==
  ASSUME Inv, NEW a \in Admins, NEW u \in Users, ToggleStatus(a, u)
  PROVE  Inv'
  <1> DEFINE row == [users[u] EXCEPT !.active = ~users[u].active]
  <1>0. TypeOK
    BY DEF Inv
  <1>1. users[u] \in UserRow /\ row \in UserRow /\ row.home = users[u].home
    BY <1>0 DEF TypeOK, UserRow
  <1>2. users' = [users EXCEPT ![u] = row] /\ users'[u] = row
    BY <1>0 DEF ToggleStatus, TypeOK
  <1>3. KeysOf(u) \in SUBSET Users
    BY DEF KeysOf
  <1>4. /\ todo' \in [Admins -> SUBSET Users]
        /\ \A b \in Admins : todo[b] \subseteq todo'[b]
        /\ \A v \in KeysOf(u) : \E b \in Admins : v \in todo'[b]
    BY <1>0, <1>3, DeleteKeeps DEF ToggleStatus
  <1>5. ~Admitted(users[u]) \/ \E b \in Admins : u \in todo'[b]
    BY <1>1, <1>2, <1>4 DEF KeysOf, Admitted
  <1>6. Forsake({})
    BY <1>0 DEF Forsake, ToggleStatus, TypeOK
  <1> HIDE DEF row
  <1> QED BY <1>1, <1>2, <1>4, <1>5, <1>6, RowWritten DEF ToggleStatus

\* A user gets another role, or loses or regains a home; its key is to be deleted.
LEMMA UpdateUserInv ==
  ASSUME Inv, NEW a \in Admins, NEW u \in Users, UpdateUser(a, u)
  PROVE  Inv'
  <1>0. TypeOK
    BY DEF Inv
  <1>1. PICK row \in [home: BOOLEAN, active: BOOLEAN, locked: {users[u].locked}, role: Roles] :
          users' = [users EXCEPT ![u] = row]
    BY DEF UpdateUser
  <1>2. row \in UserRow /\ users'[u] = row
    BY <1>0, <1>1 DEF TypeOK, UserRow
  <1>3. KeysOf(u) \in SUBSET Users
    BY DEF KeysOf
  <1>4. /\ todo' \in [Admins -> SUBSET Users]
        /\ \A b \in Admins : todo[b] \subseteq todo'[b]
        /\ \A v \in KeysOf(u) : \E b \in Admins : v \in todo'[b]
    BY <1>0, <1>3, DeleteKeeps DEF UpdateUser
  <1> DEFINE keys == IF row.home THEN {} ELSE {u}
  <1>5. u \in keys \/ \E b \in Admins : u \in todo'[b]
    BY <1>2, <1>4 DEF KeysOf
  <1>6. Forsake(keys) /\ keys \in SUBSET Users
    BY <1>2 DEF UpdateUser
  <1> HIDE DEF keys
  <1> QED BY <1>1, <1>2, <1>4, <1>5, <1>6, RowWritten DEF UpdateUser

\* An account is locked or unlocked, and no key is to be deleted.
LEMMA SetLockedInv ==
  ASSUME Inv, NEW u \in Users, NEW locked \in BOOLEAN, SetLocked(u, locked),
         locked \/ users[u].locked
  PROVE  Inv'
  <1> DEFINE row == [users[u] EXCEPT !.locked = locked]
             keys == IF locked THEN {u} ELSE {}
  <1>0. TypeOK
    BY DEF Inv
  <1>1. users[u] \in UserRow /\ row \in UserRow
    BY <1>0 DEF TypeOK, UserRow
  <1>2. users' = [users EXCEPT ![u] = row]
    BY <1>0 DEF SetLocked, TypeOK
  <1>3. u \in keys \/ ~Admitted(users[u])
    BY DEF Admitted
  <1>4. Forsake(keys) /\ keys \in SUBSET Users
    BY DEF SetLocked
  <1>5. todo' \in [Admins -> SUBSET Users] /\ \A b \in Admins : todo[b] \subseteq todo'[b]
    BY <1>0 DEF SetLocked, TypeOK
  <1> HIDE DEF row, keys
  <1> QED BY <1>1, <1>2, <1>3, <1>4, <1>5, RowWritten DEF SetLocked

(* Nothing is written, or nothing the middleware looks at; keys are to be    *)
(* deleted.                                                                  *)
LEMMA KeysToDelete ==
  ASSUME Inv, NEW a \in Admins, NEW keys \in SUBSET Users, Delete(a, keys),
         UNCHANGED <<users, grants, cache, reader, shut, apart, lacks>>
  PROVE  Inv'
  <1>0. TypeOK /\ HistoryOK /\ Recent /\ StaleIsInFlight
    BY DEF Inv
  <1>1. todo' \in [Admins -> SUBSET Users] /\ \A b \in Admins : todo[b] \subseteq todo'[b]
    BY <1>0, DeleteKeeps
  <1>2. TypeOK'
    BY <1>0, <1>1 DEF TypeOK
  <1>3. HistoryOK'
    BY <1>0 DEF HistoryOK, Admitted
  <1>4. Recent'
    BY <1>0 DEF Recent, ReadingOK, EntryOK, Had
  <1>5. StaleIsInFlight'
    BY <1>0, <1>1 DEF StaleIsInFlight, Agrees, Admitted
  <1> QED BY <1>2, <1>3, <1>4, <1>5 DEF Inv

\* A user's keys are to be deleted, the row is written as it was.
LEMMA TouchUserInv ==
  ASSUME Inv, NEW a \in Admins, NEW u \in Users, TouchUser(a, u)
  PROVE  Inv'
  BY KeysToDelete DEF TouchUser

\* A role gets another name, and the keys of its organization are to be deleted.
LEMMA RenameRoleInv ==
  ASSUME Inv, NEW a \in Admins, NEW r \in Roles, RenameRole(a, r)
  PROVE  Inv'
  <1>1. KeysOfOrg(r) \in SUBSET Users
    BY DEF KeysOfOrg
  <1> QED BY <1>1, KeysToDelete DEF RenameRole

(* Permissions of roles are written.  Of each user the role has the          *)
(* permissions it had, or the key is about to be deleted or given up.        *)
LEMMA GrantsWritten ==
  ASSUME Inv, NEW keys \in SUBSET Users, grants' \in [Roles -> SUBSET Perms],
         UNCHANGED <<users, reader>>, Recall, Forsake(keys),
         todo' \in [Admins -> SUBSET Users],
         \A b \in Admins : todo[b] \subseteq todo'[b],
         \A u \in Users : \/ u \in keys
                          \/ \E b \in Admins : u \in todo'[b]
                          \/ grants'[users[u].role] = grants[users[u].role]
  PROVE  Inv'
  <1>0. TypeOK /\ HistoryOK /\ Recent /\ StaleIsInFlight
    BY DEF Inv
  <1>1. users' \in [Users -> UserRow]
    BY <1>0 DEF TypeOK
  <1>2. /\ cache' \in [Users -> Entry]
        /\ \A u \in Users :
             /\ cache'[u].held = cache[u].held
             /\ cache'[u].role = cache[u].role
             /\ cache'[u].perms = cache[u].perms
             /\ cache'[u].age = cache[u].age
             /\ ~cache[u].held => cache'[u] = cache[u]
             /\ u \notin keys => cache'[u] = cache[u]
             /\ u \in keys /\ cache[u].held => ~cache'[u].fresh
    BY <1>0, ForsakeKeeps
  <1>3. TypeOK' /\ HistoryOK' /\ Recent'
    BY <1>1, <1>2, WriteStep
  <1>4. ASSUME NEW u \in Users, cache'[u].held, cache'[u].fresh
        PROVE  \/ \E b \in Admins : u \in todo'[b]
               \/ /\ cache[u].held /\ cache[u].fresh
                  /\ Agrees(cache[u], u) => Agrees(cache[u], u)'
    <2>1. u \notin keys /\ cache'[u] = cache[u]
      BY <1>2, <1>4
    <2>2. CASE grants'[users[u].role] = grants[users[u].role]
      BY <1>4, <2>1, <2>2 DEF Agrees, Admitted
    <2> QED BY <2>1, <2>2
  <1>5. StaleIsInFlight'
    BY <1>0, <1>4, StaleKept
  <1> QED BY <1>3, <1>5 DEF Inv

(* The keys of the organization of a role are to be deleted.  Who has the    *)
(* role and is of another organization has the key given up.                 *)
LEMMA AssignPermissionsInv ==
  ASSUME Inv, NEW a \in Admins, NEW r \in Roles, AssignPermissions(a, r)
  PROVE  Inv'
  <1> DEFINE keys == IF r \in OwnRoles THEN {} ELSE Holders(r)
  <1>0. TypeOK
    BY DEF Inv
  <1>1. PICK ps \in SUBSET Perms : grants' = [grants EXCEPT ![r] = ps]
    BY DEF AssignPermissions
  <1>2. grants' \in [Roles -> SUBSET Perms] /\ \A q \in Roles : q # r => grants'[q] = grants[q]
    BY <1>0, <1>1 DEF TypeOK
  <1>3. KeysOfOrg(r) \in SUBSET Users /\ keys \in SUBSET Users
    BY DEF KeysOfOrg, Holders
  <1>4. /\ todo' \in [Admins -> SUBSET Users]
        /\ \A b \in Admins : todo[b] \subseteq todo'[b]
        /\ \A u \in KeysOfOrg(r) : \E b \in Admins : u \in todo'[b]
    BY <1>0, <1>3, DeleteKeeps DEF AssignPermissions
  <1>5. ASSUME NEW u \in Users
        PROVE  \/ u \in keys
               \/ \E b \in Admins : u \in todo'[b]
               \/ grants'[users[u].role] = grants[users[u].role]
    <2>1. CASE r \in OwnRoles
      BY <1>4, <2>1 DEF KeysOfOrg
    <2>2. CASE r \notin OwnRoles /\ users[u].role = r
      BY <2>2 DEF Holders
    <2>3. CASE users[u].role # r
      BY <1>0, <1>2, <2>3 DEF TypeOK, UserRow
    <2> QED BY <2>1, <2>2, <2>3
  <1>6. Forsake(keys)
    BY DEF AssignPermissions
  <1> HIDE DEF keys
  <1> QED BY <1>2, <1>3, <1>4, <1>5, <1>6, GrantsWritten DEF AssignPermissions

\* Nobody has the role that goes: no entry depends on its permissions.
LEMMA DeleteRoleInv ==
  ASSUME Inv, NEW a \in Admins, NEW r \in Roles, DeleteRole(a, r)
  PROVE  Inv'
  <1>0. TypeOK
    BY DEF Inv
  <1>1. grants' \in [Roles -> SUBSET Perms] /\ \A q \in Roles : q # r => grants'[q] = grants[q]
    BY <1>0 DEF TypeOK, DeleteRole
  <1>2. KeysOfOrg(r) \in SUBSET Users
    BY DEF KeysOfOrg
  <1>3. todo' \in [Admins -> SUBSET Users] /\ \A b \in Admins : todo[b] \subseteq todo'[b]
    BY <1>0, <1>2, DeleteKeeps DEF DeleteRole
  <1>4. \A u \in Users : grants'[users[u].role] = grants[users[u].role]
    BY <1>0, <1>1 DEF TypeOK, UserRow, DeleteRole, Holders
  <1>5. Forsake({})
    BY <1>0 DEF Forsake, DeleteRole, TypeOK
  <1> QED BY <1>1, <1>3, <1>4, <1>5, GrantsWritten DEF DeleteRole

\* Whoever has a role with other permissions after seeding has the key given up.
LEMMA SeedInv ==
  ASSUME Inv, Seed
  PROVE  Inv'
  <1> DEFINE written == {q \in Roles : grants'[q] # grants[q]}
             keys == UNION {Holders(r) : r \in written}
  <1>0. TypeOK
    BY DEF Inv
  <1>1. grants' \in [Roles -> SUBSET Perms]
    BY <1>0, RolesAssumption DEF TypeOK, Seed
  <1>2. keys \in SUBSET Users
    BY DEF Holders
  <1>3. ASSUME NEW u \in Users, u \notin keys
        PROVE  grants'[users[u].role] = grants[users[u].role]
    <2>1. users[u].role \in Roles
      BY <1>0 DEF TypeOK, UserRow
    <2>2. u \in Holders(users[u].role)
      BY DEF Holders
    <2> QED BY <1>3, <2>1, <2>2
  <1>4. todo' \in [Admins -> SUBSET Users] /\ \A b \in Admins : todo[b] \subseteq todo'[b]
    BY <1>0 DEF TypeOK, Seed
  <1>5. Forsake(keys)
    BY DEF Seed
  <1> HIDE DEF keys
  <1> QED BY <1>1, <1>2, <1>3, <1>4, <1>5, GrantsWritten DEF Seed

-----------------------------------------------------------------------------
\* One unit of time: entries, readings and histories age together.
LEMMA TickInv ==
  ASSUME Inv, Tick
  PROVE  Inv'
  <1>0. TypeOK /\ HistoryOK /\ Recent /\ StaleIsInFlight
    BY DEF Inv
  <1>1. shut' \in [Users -> Ages] /\ \A u \in Users : shut'[u] <= shut[u] + 1
    BY <1>0, Constants DEF Tick, TypeOK, Ages, Older
  <1>2. apart' \in [Users -> [Roles -> Ages]] /\ \A u \in Users : \A r \in Roles : apart'[u][r] <= apart[u][r] + 1
    BY <1>0, Constants DEF Tick, TypeOK, Ages, Older
  <1>3. lacks' \in [Roles -> [Perms -> Ages]] /\ \A r \in Roles, p \in Perms : lacks'[r][p] <= lacks[r][p] + 1
    BY <1>0, Constants DEF Tick, TypeOK, Ages, Older
  <1>4. ASSUME NEW u \in Users, cache'[u] # NoEntry
        PROVE  /\ cache[u].held /\ cache[u].age \in Nat /\ cache[u].age + 1 \in 0 .. TTL
               /\ cache'[u].held = cache[u].held /\ cache'[u].role = cache[u].role
               /\ cache'[u].perms = cache[u].perms /\ cache'[u].fresh = cache[u].fresh
               /\ cache'[u].age = cache[u].age + 1 /\ cache'[u] \in Entry
    <2>1. cache[u].held /\ cache[u].age # TTL /\ cache'[u] = Aged(cache[u])
      BY <1>4 DEF Tick, Expires
    <2>2. cache[u].age \in 0 .. TTL
      BY <1>0 DEF TypeOK, Entry
    <2>3. cache[u].age \in Nat /\ cache[u].age < TTL /\ cache[u].age + 1 \in 0 .. TTL
      BY <2>1, <2>2, Constants
    <2>4. cache'[u].age = cache[u].age + 1
      BY <2>1, <2>3 DEF Aged
    <2>5. /\ cache'[u].held = cache[u].held /\ cache'[u].role = cache[u].role
          /\ cache'[u].perms = cache[u].perms /\ cache'[u].fresh = cache[u].fresh
      BY <2>1 DEF Aged
    <2>6. Aged(cache[u]) \in Entry
      <3>1. cache[u] \in Entry
        BY <1>0 DEF TypeOK
      <3> QED BY <2>3, <3>1 DEF Entry, Aged
    <2> QED BY <2>1, <2>3, <2>4, <2>5, <2>6
  <1>5. cache' \in [Users -> Entry]
    <2>1. ASSUME NEW u \in Users PROVE cache'[u] \in Entry
      BY <1>4, Constants
    <2> QED BY <2>1 DEF Tick
  <1>6. ASSUME NEW r \in Readers, reader[r].step # "idle"
        PROVE  /\ reader[r].age \in Nat /\ reader[r].age + 1 \in 0 .. Deadline
               /\ reader'[r] = [reader[r] EXCEPT !.age = reader[r].age + 1]
    BY <1>0, <1>6, Constants DEF Tick, TypeOK, Reading, InTime
  <1>7. ASSUME NEW r \in Readers, reader[r].step = "idle" PROVE reader'[r] = Waiting
    BY <1>7 DEF Tick
  <1>8. reader' \in [Readers -> Reading]
    <2>1. ASSUME NEW r \in Readers PROVE reader'[r] \in Reading
      BY <1>0, <1>6, <1>7, Constants DEF TypeOK, Reading
    <2> QED BY <2>1 DEF Tick
  <1>9. TypeOK'
    BY <1>0, <1>1, <1>2, <1>3, <1>5, <1>8 DEF Tick, TypeOK
  <1>10. HistoryOK'
    BY <1>0, <1>9 DEF Tick, HistoryOK, Older, Admitted, TypeOK, UserRow
  <1>11. \A u \in Users : \A q : \A ps \in SUBSET Perms : \A n \in Nat :
           Had(u, q, ps, n) => Still(u, q, ps, n + 1)
    BY <1>0, <1>9, <1>2, <1>3, HadLater
  <1>12. ASSUME NEW r \in Readers PROVE ReadingOK(reader[r])'
    <2> DEFINE g == reader[r]
    <2>1. CASE g.step = "idle"
      BY <1>7, <2>1, Constants DEF ReadingOK
    <2>2. CASE g.step # "idle"
      <3>1. g \in Reading /\ ReadingOK(g) /\ g.age \in Nat /\ g.perms \in SUBSET Perms
        BY <1>0, <1>6, <2>2 DEF TypeOK, Reading, Recent
      <3>2. /\ g.user \in Users /\ shut[g.user] <= g.age
            /\ g.step = "row" => g.role \in Roles /\ apart[g.user][g.role] <= g.age /\ g.perms = {}
            /\ Had(g.user, g.role, g.perms, g.age)
        BY <2>2, <3>1 DEF ReadingOK
      <3>3. Still(g.user, g.role, g.perms, g.age + 1)
        BY <1>11, <3>1, <3>2
      <3>4. shut'[g.user] <= g.age + 1
        BY <1>0, <1>1, <3>1, <3>2, Constants DEF TypeOK, Ages
      <3>5. g.step = "row" => apart'[g.user][g.role] <= g.age + 1
        <4> SUFFICES ASSUME g.step = "row" PROVE apart'[g.user][g.role] <= g.age + 1
          OBVIOUS
        <4>1. apart[g.user][g.role] \in Int /\ apart'[g.user][g.role] \in Int
          BY <1>0, <1>9, <3>2, Constants DEF TypeOK, Ages
        <4> QED BY <1>2, <3>1, <3>2, <4>1
      <3>6. /\ reader'[r].step = g.step /\ reader'[r].user = g.user /\ reader'[r].role = g.role
            /\ reader'[r].perms = g.perms /\ reader'[r].age = g.age + 1
        BY <1>6, <2>2, <3>1 DEF Reading
      <3> QED BY <3>2, <3>3, <3>4, <3>5, <3>6 DEF ReadingOK, Had, Still
    <2> QED BY <2>1, <2>2
  <1>14. ASSUME NEW u \in Users PROVE EntryOK(u, cache[u])'
    <2>1. CASE cache'[u] = NoEntry
      BY <2>1, Constants DEF EntryOK
    <2>2. CASE cache'[u] # NoEntry
      <3> DEFINE e == cache[u]
                 old == e.age + Deadline
      <3>1. e.held /\ e.age \in Nat /\ old \in Nat /\ e.perms \in SUBSET Perms
        BY <1>0, <1>4, <2>2, Constants DEF TypeOK, Entry
      <3>2. shut[u] <= old /\ Had(u, e.role, e.perms, old)
        BY <1>0, <3>1 DEF Recent, EntryOK
      <3>3. Still(u, e.role, e.perms, old + 1)
        BY <1>11, <3>1, <3>2
      <3>4. shut'[u] <= old + 1
        BY <1>0, <1>1, <3>1, <3>2, Constants DEF TypeOK, Ages
      <3>5. cache'[u].age = e.age + 1
        BY <1>4, <2>2
      <3>6. cache'[u].age + Deadline = old + 1
        BY <3>1, <3>5, Constants
      <3> QED BY <1>4, <2>2, <3>3, <3>4, <3>6 DEF EntryOK, Had, Still
    <2> QED BY <2>1, <2>2
  <1>15. \A u \in Users : ~cache'[u].held => cache'[u] = NoEntry
    BY <1>4
  <1>16. Recent'
    BY <1>12, <1>14, <1>15 DEF Recent
  <1>17. StaleIsInFlight'
    <2>1. ASSUME NEW u \in Users, cache'[u].held, cache'[u].fresh
          PROVE  /\ cache[u].held /\ cache[u].fresh
                 /\ Agrees(cache[u], u) => Agrees(cache[u], u)'
      BY <1>4, <2>1, Constants DEF Tick, Agrees, Admitted
    <2> QED BY <1>0, <2>1, StaleKept DEF Tick
  <1> QED BY <1>9, <1>10, <1>16, <1>17 DEF Inv

\* Every step keeps the invariant: one lemma for each kind of step.
LEMMA NextInv == Inv /\ [Next]_vars => Inv'
  <1> SUFFICES ASSUME Inv, [Next]_vars PROVE Inv'
    OBVIOUS
  <1>1. CASE \E r \in Readers : Middleware(r)
    BY <1>1, ReadUserInv, ReadGrantsInv, GrantsUnreadInv, FillInv, GiveUpInv DEF Middleware
  <1>2. CASE \E a \in Admins : Administer(a)
    BY <1>2, ToggleStatusInv, UpdateUserInv, TouchUserInv, DelKeyInv, AssignPermissionsInv,
       RenameRoleInv, DeleteRoleInv, KeysNotDeletedInv DEF Administer
  <1>3. CASE \E u \in Users : LockAccount(u) \/ UnlockAccount(u)
    BY <1>3, SetLockedInv DEF LockAccount, UnlockAccount
  <1>4. CASE Seed
    BY <1>4, SeedInv
  <1>5. CASE Tick
    BY <1>5, TickInv
  <1>6. CASE UNCHANGED vars
    <2>1. TypeOK' /\ HistoryOK'
      BY <1>6 DEF Inv, vars, TypeOK, HistoryOK, Admitted
    <2>2. Recent'
      BY <1>6 DEF Inv, vars, Recent, ReadingOK, EntryOK, Had
    <2>3. StaleIsInFlight'
      BY <1>6 DEF Inv, vars, StaleIsInFlight, Agrees, Admitted
    <2> QED BY <2>1, <2>2, <2>3 DEF Inv
  <1> QED BY <1>1, <1>2, <1>3, <1>4, <1>5, <1>6 DEF Next

\* What is served and what is in hand is never older than its age says: the
\* invariant the bounds of the middleware (jwt.go) rest on.
THEOREM Invariance == Spec => []Inv
  BY InitInv, NextInv, PTL DEF Spec

\* Rows, entries, readings and histories keep their types in every behaviour.
THEOREM TypeCorrect == Spec => []TypeOK
  <1>1. Inv => TypeOK
    BY DEF Inv
  <1> QED BY <1>1, Invariance, PTL

\* No entry and no reading lets a request in for longer than the life of an
\* entry and a deadline after the database last would have.
THEOREM AccessIsBounded == Spec => []AccessBounded
  <1>1. Inv => AccessBounded
    <2> SUFFICES ASSUME Inv PROVE AccessBounded
      OBVIOUS
    <2>1. ASSUME NEW u \in Users, cache[u].held PROVE shut[u] <= Window
      BY <2>1, Constants DEF Inv, TypeOK, Entry, Ages, Recent, EntryOK, Window
    <2>2. ASSUME NEW r \in Readers, reader[r].step = "ready" PROVE shut[reader[r].user] <= Deadline
      <3>1. reader[r] \in Reading /\ ReadingOK(reader[r])
        BY DEF Inv, TypeOK, Recent
      <3>2. reader[r].user \in Users /\ shut[reader[r].user] <= reader[r].age
        BY <2>2, <3>1 DEF ReadingOK
      <3> QED BY <3>1, <3>2, Constants DEF Inv, TypeOK, Reading, Ages
    <2> QED BY <2>1, <2>2 DEF AccessBounded
  <1> QED BY <1>1, Invariance, PTL

\* The permissions of an entry were those of a role of the user's, each fact
\* within the life of an entry and a deadline.
THEOREM GrantsAreBounded == Spec => []GrantsBounded
  <1>1. Inv => GrantsBounded
    <2> SUFFICES ASSUME Inv, NEW u \in Users, cache[u].perms # {}
                 PROVE  /\ cache[u].role \in Roles
                        /\ apart[u][cache[u].role] <= Window
                        /\ \A p \in cache[u].perms : lacks[cache[u].role][p] <= Window
      BY DEF GrantsBounded
    <2> DEFINE e == cache[u]
    <2>1. e \in Entry /\ e.held
      BY Constants DEF Inv, TypeOK, Recent
    <2>2. Had(u, e.role, e.perms, e.age + Deadline)
      BY <2>1 DEF Inv, Recent, EntryOK
    <2>3. /\ e.role \in Roles /\ apart[u][e.role] <= e.age + Deadline
          /\ \A p \in e.perms : lacks[e.role][p] <= e.age + Deadline
      BY <2>2 DEF Had
    <2>4. e.age \in Nat /\ e.age <= TTL /\ e.perms \in SUBSET Perms
      BY <2>1, Constants DEF Entry
    <2>5. apart[u][e.role] \in Int /\ \A p \in e.perms : lacks[e.role][p] \in Int
      BY <2>3, <2>4, Constants DEF Inv, TypeOK, Ages
    <2> QED BY <2>3, <2>4, <2>5, Constants DEF Window
  <1> QED BY <1>1, Invariance, PTL

\* The write of a handler and the deletion of its keys are two steps.  Between
\* them, and only then, is an entry that was true when it was stored out of
\* date, unless the write was one after which the code deletes no key of that
\* user (a lock, a move, permissions assigned to a role of another organization
\* or seeded at the start of a server), or the deletion failed.
THEOREM StaleOnlyInFlight == Spec => []StaleIsInFlight
  <1>1. Inv => StaleIsInFlight
    BY DEF Inv
  <1> QED BY <1>1, Invariance, PTL
=============================================================================

--------------------------- MODULE Accounts_proofs ---------------------------
(***************************************************************************)
(* Theorems about the users table: its columns stay in range and its key   *)
(* unique, one administrator can always log in, and a lock goes with its   *)
(* count.  They hold for every number of accounts, every length of bans,   *)
(* locks and expiry, and every order of statements.                        *)
(***************************************************************************)
EXTENDS Accounts, FiniteSetTheorems, TLAPS

LEMMA Bounds ==
  /\ MaxId \in Nat \ {0} /\ Horizon \in Nat \ {0} /\ MaxFails \in Nat \ {0}
  /\ Threshold \in Nat \ {0} /\ LockTicks \in Nat \ {0} /\ ExpiryTicks \in Nat \ {0}
  BY StoreAssumption

(* A set of more than one element has another one.                         *)
LEMMA AnotherOne ==
  ASSUME NEW S, IsFiniteSet(S), Cardinality(S) > 1, NEW x \in S
  PROVE  \E y \in S : y # x
<1>1. SUFFICES ASSUME S \ {x} = {} PROVE FALSE
  OBVIOUS
<1>2. S = {x}
  BY <1>1
<1>3. Cardinality(S) = 1
  BY <1>2, FS_Singleton
<1> QED
  BY <1>3

(* Who may be banned or deleted leaves a usable administrator behind.      *)
LEMMA OneIsLeft ==
  ASSUME LastUsableAdmin, NEW n \in Names, MayRemove(n)
  PROVE  \E m \in UsableAdmins : m # n
<1>1. IsFiniteSet(UsableAdmins)
  BY StoreAssumption, FS_Subset DEF UsableAdmins
<1>2. CASE ~UsableAdmin(n)
  BY <1>2 DEF LastUsableAdmin, UsableAdmins
<1>3. CASE UsableAdmin(n)
  <2>1. n \in UsableAdmins /\ Cardinality(UsableAdmins) > 1
    BY <1>3 DEF MayRemove, UsableAdmins
  <2> QED
    BY <2>1, <1>1, AnotherOne
<1> QED
  BY <1>2, <1>3

-----------------------------------------------------------------------------
(* The rows that the statements write.                                     *)
LEMMA NewRowType ==
  ASSUME StoreTypeOK, NEW i \in 1 .. MaxId, NEW role \in {"user", "admin"},
         NEW status \in {"pending", "active"}
  PROVE  NewRow(i, role, status) \in Row
  BY StoreAssumption DEF NewRow, Row, StoreTypeOK, Times, Never

(* A statement that changes rows in place, or removes them, keeps the key. *)
LEMMA InPlace ==
  ASSUME StoreTypeOK, now' = now,
         users' \in [Names -> Row \union {NoRow}],
         \A n \in Names : users'[n] # NoRow =>
           users[n] # NoRow /\ users'[n].id = users[n].id
  PROVE  StoreTypeOK'
  BY DEF StoreTypeOK, Used

LEMMA InsertType ==
  ASSUME StoreTypeOK, NEW n \in Names, NEW role \in {"user", "admin"},
         NEW status \in {"pending", "active"}, Insert(n, role, status)
  PROVE  StoreTypeOK'
<1>1. PICK i \in 1 .. MaxId :
        IsNextId(i) /\ users' = [users EXCEPT ![n] = NewRow(i, role, status)]
  BY DEF Insert
<1>2. NewRow(i, role, status) \in Row /\ NewRow(i, role, status).id = i
  BY NewRowType DEF NewRow
<1>3. users' \in [Names -> Row \union {NoRow}] /\ now' \in Times
  BY <1>1, <1>2 DEF StoreTypeOK, Insert
<1>4. ASSUME NEW m \in Used', NEW k \in Used', users'[m].id = users'[k].id
      PROVE  m = k
  <2>1. CASE m # n /\ k # n
    BY <1>1, <1>4, <2>1 DEF StoreTypeOK, Used
  <2>2. ASSUME NEW j \in Used', j # n PROVE users'[j].id < i
    BY <1>1, <2>2 DEF StoreTypeOK, Used, IsNextId
  <2>3. users'[n].id = i
    BY <1>1, <1>2 DEF StoreTypeOK
  <2>4. \A j \in Used' : j # n => users'[j].id # i
    BY <2>2, StoreAssumption, <1>3 DEF Row, Used
  <2> QED
    BY <1>4, <2>1, <2>3, <2>4
<1> QED
  BY <1>3, <1>4 DEF StoreTypeOK

LEMMA DeleteType ==
  ASSUME StoreTypeOK, NEW S, Delete(S)
  PROVE  StoreTypeOK'
<1>1. users' \in [Names -> Row \union {NoRow}]
  BY DEF Delete, StoreTypeOK
<1>2. \A n \in Names : users'[n] # NoRow => users[n] # NoRow /\ users'[n].id = users[n].id
  BY DEF Delete
<1> QED
  BY <1>1, <1>2, InPlace DEF Delete

(* What the statements that rewrite a row leave of it.                     *)
LEMMA Rewritten ==
  ASSUME NEW r \in Row
  PROVE  /\ \A until \in 1 .. Never :
              [r EXCEPT !.status = "suspended", !.ban = until] \in Row
         /\ [r EXCEPT !.status = "active", !.ban = 0] \in Row
         /\ [r EXCEPT !.fails = 0, !.locked = 0] \in Row
         /\ now \in Times /\ r.fails < MaxFails => Attempted(r) \in Row
<1>1. ASSUME NEW until \in 1 .. Never
      PROVE  [r EXCEPT !.status = "suspended", !.ban = until] \in Row
  <2>1. until \in 0 .. Never
    BY Bounds
  <2> QED
    BY <2>1 DEF Row
<1>2. [r EXCEPT !.status = "active", !.ban = 0] \in Row
  <2>1. 0 \in 0 .. Never
    BY Bounds DEF Never
  <2> QED
    BY <2>1 DEF Row
<1>3. [r EXCEPT !.fails = 0, !.locked = 0] \in Row
  <2>1. 0 \in 0 .. MaxFails /\ 0 \in 0 .. (Horizon + LockTicks)
    BY Bounds
  <2> QED
    BY <2>1 DEF Row
<1>4. ASSUME now \in Times, r.fails < MaxFails
      PROVE  Attempted(r) \in Row
  <2> DEFINE l == IF r.fails + 1 >= Threshold THEN now + LockTicks ELSE r.locked
  <2>1. r.fails + 1 \in 0 .. MaxFails /\ l \in 0 .. (Horizon + LockTicks)
    BY <1>4, Bounds DEF Row, Times
  <2>2. Attempted(r) = [r EXCEPT !.fails = r.fails + 1, !.locked = l]
    BY DEF Attempted, Row
  <2> HIDE DEF l
  <2> QED
    BY <2>1, <2>2 DEF Row
<1> QED
  BY <1>1, <1>2, <1>3, <1>4

LEMMA UsedRow ==
  ASSUME StoreTypeOK, NEW n \in Used PROVE users[n] \in Row
  BY DEF StoreTypeOK, Used

(* A statement that rewrites one row.                                      *)
LEMMA RewriteOne ==
  ASSUME StoreTypeOK, now' = now, NEW n \in Used, NEW r \in Row,
         r.id = users[n].id, users' = [users EXCEPT ![n] = r]
  PROVE  StoreTypeOK'
<1>1. users' \in [Names -> Row \union {NoRow}]
  BY DEF StoreTypeOK
<1>2. \A m \in Names : users'[m] # NoRow => users[m] # NoRow /\ users'[m].id = users[m].id
  BY DEF Used, StoreTypeOK
<1> QED
  BY <1>1, <1>2, InPlace

LEMMA StoreTypingInit == StoreInit => StoreTypeOK
<1> SUFFICES ASSUME StoreInit PROVE StoreTypeOK
  OBVIOUS
<1>1. PICK ids \in [Admins -> 1 .. MaxId] :
        /\ \A m, n \in Admins : ids[m] = ids[n] => m = n
        /\ users = [n \in Names |->
             IF n \in Admins
             THEN [id |-> ids[n], role |-> "admin", status |-> "active", ban |-> 0,
                   fails |-> 0, locked |-> 0, created |-> 1]
             ELSE NoRow]
  BY DEF StoreInit
<1>2. now \in Times
  BY StoreAssumption DEF StoreInit, Times
<1>3. users \in [Names -> Row \union {NoRow}]
  <2>1. ASSUME NEW n \in Admins
        PROVE  [id |-> ids[n], role |-> "admin", status |-> "active", ban |-> 0,
                fails |-> 0, locked |-> 0, created |-> 1] \in Row
    BY StoreAssumption DEF Row, Never, Times
  <2> QED
    BY <1>1, <2>1
<1>4. \A m, n \in Used : users[m].id = users[n].id => m = n
  BY <1>1 DEF Used
<1> QED
  BY <1>2, <1>3, <1>4 DEF StoreTypeOK

LEMMA StoreTypingStep == StoreTypeOK /\ [StoreNext]_storeVars => StoreTypeOK'
<1> SUFFICES ASSUME StoreTypeOK, [StoreNext]_storeVars PROVE StoreTypeOK'
  OBVIOUS
<1>1. ASSUME NEW n \in Names, NEW role \in {"user", "admin"}, CreateUser(n, role)
      PROVE  StoreTypeOK'
  BY <1>1, InsertType DEF CreateUser
<1>2. ASSUME NEW n \in Names, InsertPending(n)
      PROVE  StoreTypeOK'
  BY <1>2, InsertType DEF InsertPending
<1>3. ASSUME NEW n \in Names, FreeName(n) \/ RejectPendingAccount(n) \/ DeleteUser(n)
      PROVE  StoreTypeOK'
  BY <1>3, DeleteType DEF FreeName, RejectPendingAccount, DeleteUser
<1>4. CASE PurgeExpiredPendingAccounts
  BY <1>4, DeleteType DEF PurgeExpiredPendingAccounts
<1>5. ASSUME NEW n \in Names, ApprovePendingAccount(n) PROVE StoreTypeOK'
  <2> DEFINE r == [users[n] EXCEPT !.status = "active"]
  <2>1. n \in Used /\ now' = now /\ users' = [users EXCEPT ![n] = r]
    BY <1>5, UsedRow DEF ApprovePendingAccount, ActivateAccount, Pending
  <2>2. users[n] \in Row
    BY <2>1, UsedRow
  <2>3. r.id = users[n].id
    BY <2>2 DEF Row
  <2>4. r \in Row
    BY <2>2 DEF Row
  <2> HIDE DEF r
  <2> QED
    BY <2>1, <2>3, <2>4, RewriteOne
<1>6. ASSUME NEW n \in Names, NEW until \in 1 .. Never, BanUser(n, until)
      PROVE  StoreTypeOK'
  <2> DEFINE r == [users[n] EXCEPT !.status = "suspended", !.ban = until]
  <2>1. n \in Used /\ now' = now /\ users' = [users EXCEPT ![n] = r]
    BY <1>6, UsedRow DEF BanUser
  <2>2. users[n] \in Row
    BY <2>1, UsedRow
  <2>3. r.id = users[n].id
    BY <2>2 DEF Row
  <2>4. r \in Row
    BY <2>2, Rewritten
  <2> HIDE DEF r
  <2> QED
    BY <2>1, <2>3, <2>4, RewriteOne
<1>7. ASSUME NEW n \in Names, UnbanUser(n) PROVE StoreTypeOK'
  <2> DEFINE r == [users[n] EXCEPT !.status = "active", !.ban = 0]
  <2>1. n \in Used /\ now' = now /\ users' = [users EXCEPT ![n] = r]
    BY <1>7, UsedRow DEF UnbanUser
  <2>2. users[n] \in Row
    BY <2>1, UsedRow
  <2>3. r.id = users[n].id
    BY <2>2 DEF Row
  <2>4. r \in Row
    BY <2>2, Rewritten
  <2> HIDE DEF r
  <2> QED
    BY <2>1, <2>3, <2>4, RewriteOne
<1>8. ASSUME NEW i \in 1 .. MaxId, CheckAndLiftExpiredBan(i) PROVE StoreTypeOK'
  <2>1. ASSUME NEW n \in {m \in WithId(i) : Lapsed(m)}
        PROVE  [users[n] EXCEPT !.status = "active", !.ban = 0] \in Row
    <3>1. n \in Used /\ users[n] \in Row
      BY <2>1, UsedRow DEF WithId
    <3> QED
      BY <3>1, Rewritten
  <2>2. users' \in [Names -> Row \union {NoRow}]
    BY <1>8, <2>1 DEF CheckAndLiftExpiredBan, StoreTypeOK, WithId
  <2>3. ASSUME NEW n \in Names, users'[n] # NoRow
        PROVE  users[n] # NoRow /\ users'[n].id = users[n].id
    <3>1. CASE n \in {m \in WithId(i) : Lapsed(m)}
      <4>1. n \in Used /\ users[n] \in Row
        BY <3>1, UsedRow DEF WithId
      <4> QED
        BY <1>8, <3>1, <4>1 DEF CheckAndLiftExpiredBan, Attempted, Used, Row
    <3>2. CASE n \notin {m \in WithId(i) : Lapsed(m)}
      BY <1>8, <2>3, <3>2 DEF CheckAndLiftExpiredBan
    <3> QED
      BY <3>1, <3>2
  <2> QED
    BY <1>8, <2>2, <2>3, InPlace, ZenonT(60) DEF CheckAndLiftExpiredBan
<1>9. ASSUME NEW i \in 1 .. MaxId, RecordFailedAttempt(i) PROVE StoreTypeOK'
  <2>1. ASSUME NEW n \in WithId(i)
        PROVE  Attempted(users[n]) \in Row
    <3>1. n \in Used /\ users[n] \in Row
      BY <2>1, UsedRow DEF WithId
    <3> QED
      BY <1>9, <3>1, Rewritten DEF RecordFailedAttempt, StoreTypeOK
  <2>2. users' \in [Names -> Row \union {NoRow}]
    BY <1>9, <2>1 DEF RecordFailedAttempt, StoreTypeOK, WithId
  <2>3. ASSUME NEW n \in Names, users'[n] # NoRow
        PROVE  users[n] # NoRow /\ users'[n].id = users[n].id
    <3>1. CASE n \in WithId(i)
      <4>1. n \in Used /\ users[n] \in Row
        BY <3>1, UsedRow DEF WithId
      <4> QED
        BY <1>9, <3>1, <4>1 DEF RecordFailedAttempt, Attempted, Used, Row
    <3>2. CASE n \notin WithId(i)
      BY <1>9, <2>3, <3>2 DEF RecordFailedAttempt
    <3> QED
      BY <3>1, <3>2
  <2> QED
    BY <1>9, <2>2, <2>3, InPlace, SMTT(60) DEF RecordFailedAttempt
<1>10. ASSUME NEW i \in 1 .. MaxId, ClearFailedAttempts(i) PROVE StoreTypeOK'
  <2>1. ASSUME NEW n \in WithId(i)
        PROVE  [users[n] EXCEPT !.fails = 0, !.locked = 0] \in Row
    <3>1. n \in Used /\ users[n] \in Row
      BY <2>1, UsedRow DEF WithId
    <3> QED
      BY <3>1, Rewritten
  <2>2. users' \in [Names -> Row \union {NoRow}]
    BY <1>10, <2>1 DEF ClearFailedAttempts, StoreTypeOK, WithId
  <2>3. ASSUME NEW n \in Names, users'[n] # NoRow
        PROVE  users[n] # NoRow /\ users'[n].id = users[n].id
    <3>1. CASE n \in WithId(i)
      <4>1. n \in Used /\ users[n] \in Row
        BY <3>1, UsedRow DEF WithId
      <4> QED
        BY <1>10, <3>1, <4>1 DEF ClearFailedAttempts, Attempted, Used, Row
    <3>2. CASE n \notin WithId(i)
      BY <1>10, <2>3, <3>2 DEF ClearFailedAttempts
    <3> QED
      BY <3>1, <3>2
  <2> QED
    BY <1>10, <2>2, <2>3, InPlace, ZenonT(60) DEF ClearFailedAttempts
<1>11. CASE Tick
  BY <1>11, Bounds DEF Tick, StoreTypeOK, Times, Used
<1>12. CASE UNCHANGED storeVars
  BY <1>12 DEF storeVars, StoreTypeOK, Used
<1> QED
  BY <1>1, <1>2, <1>3, <1>4, <1>5, <1>6, <1>7, <1>8, <1>9, <1>10, <1>11, <1>12
     DEF StoreNext

(* The columns keep in range, and no identifier has two rows, whatever the *)
(* statements and their order (a deleted row's identifier may come back).  *)
THEOREM StoreTyping == StoreSpec => []StoreTypeOK
<1>1. StoreInit => StoreTypeOK
  BY StoreTypingInit
<1>2. StoreTypeOK /\ [StoreNext]_storeVars => StoreTypeOK'
  BY StoreTypingStep
<1> QED
  BY <1>1, <1>2, PTL DEF StoreSpec

-----------------------------------------------------------------------------
(* Who is a usable administrator stays one, unless its row is removed or   *)
(* suspended: time only helps.                                             *)
LEMMA StaysUsable ==
  ASSUME StoreTypeOK, now' \in Nat, now' >= now,
         NEW m \in Names, UsableAdmin(m), users'[m] # NoRow,
         users'[m].role = users[m].role,
         users'[m].status = "active" \/ users'[m] = users[m]
  PROVE  UsableAdmin(m)'
<1>1. users[m] \in Row /\ now \in Nat
  BY UsedRow DEF UsableAdmin, StoreTypeOK, Times
<1>2. CASE users'[m].status = "active"
  BY <1>2 DEF UsableAdmin, Used
<1>3. CASE users'[m] = users[m]
  BY <1>1, <1>3 DEF UsableAdmin, Used, Lapsed, Row
<1> QED
  BY <1>2, <1>3

(* A removal that spares one usable administrator.                         *)
LEMMA SparesOne ==
  ASSUME StoreTypeOK, NEW S, Delete(S), NEW m \in UsableAdmins, m \notin S
  PROVE  LastUsableAdmin'
<1>1. m \in Names /\ UsableAdmin(m) /\ now' = now /\ now \in Nat
  BY DEF UsableAdmins, Delete, StoreTypeOK, Times
<1>2. users'[m] = users[m] /\ users[m] # NoRow
  BY <1>1 DEF Delete, UsableAdmin, Used
<1>3. UsableAdmin(m)'
  BY <1>1, <1>2, StaysUsable
<1> QED
  BY <1>1, <1>3 DEF LastUsableAdmin, UsableAdmins

(* No order of statements, and no passing of time, leaves the server       *)
(* without an administrator who can log in: the guard of BanUser and       *)
(* DeleteUser is enough.                                                   *)
THEOREM LastAdmin == StoreSpec => []LastUsableAdmin
<1>1. StoreInit => LastUsableAdmin
  <2> SUFFICES ASSUME StoreInit PROVE LastUsableAdmin
    OBVIOUS
  <2>1. PICK a : a \in Admins
    BY StoreAssumption
  <2>2. a \in Names /\ users[a].role = "admin" /\ users[a].status = "active"
    BY <2>1, StoreAssumption DEF StoreInit
  <2>3. users \in [Names -> Row \union {NoRow}] /\ users[a] # NoRow
    <3>1. ASSUME users[a] = NoRow PROVE FALSE
      <4>1. PICK ids \in [Admins -> 1 .. MaxId] :
              users[a] = [id |-> ids[a], role |-> "admin", status |-> "active", ban |-> 0,
                          fails |-> 0, locked |-> 0, created |-> 1]
        BY <2>1, <2>2 DEF StoreInit
      <4>2. ids[a] \in 1 .. MaxId /\ 0 \in 0 .. Never /\ 0 \in 0 .. MaxFails
            /\ 0 \in 0 .. (Horizon + LockTicks) /\ 1 \in Times
        BY <2>1, Bounds DEF Never, Times
      <4>3. users[a] \in Row
        BY <4>1, <4>2 DEF Row
      <4> QED
        BY <3>1, <4>3, NoRowAssumption
    <3> QED
      BY <3>1, StoreTypingInit DEF StoreTypeOK
  <2> QED
    BY <2>2, <2>3 DEF LastUsableAdmin, UsableAdmins, UsableAdmin, Used
<1>2. StoreTypeOK /\ LastUsableAdmin /\ [StoreNext]_storeVars => LastUsableAdmin'
  <2> SUFFICES ASSUME StoreTypeOK, LastUsableAdmin, [StoreNext]_storeVars
               PROVE  LastUsableAdmin'
    OBVIOUS
  <2>1. PICK a \in UsableAdmins : TRUE
    BY DEF LastUsableAdmin
  <2>2. a \in Names /\ UsableAdmin(a) /\ now \in Nat /\ users[a] \in Row /\ users[a] # NoRow
    BY <2>1, UsedRow DEF UsableAdmins, UsableAdmin, Used, StoreTypeOK, Times
  <2>3. a \notin Pending
    BY <2>2 DEF UsableAdmin, Lapsed, Pending
  <2>4. ASSUME now' = now, users'[a] # NoRow, users'[a].role = users[a].role,
               users'[a].status = "active" \/ users'[a] = users[a]
        PROVE  LastUsableAdmin'
    <3>1. UsableAdmin(a)'
      BY <2>2, <2>4, StaysUsable
    <3> QED
      BY <2>2, <3>1 DEF LastUsableAdmin, UsableAdmins
  <2>5. ASSUME NEW n \in Names, NEW role, NEW status, Insert(n, role, status)
        PROVE  LastUsableAdmin'
    <3>1. a # n
      BY <2>2, <2>5 DEF Insert, Used
    <3> QED
      BY <2>2, <2>4, <2>5, <3>1 DEF Insert
  <2>6. ASSUME NEW n \in Names, FreeName(n) \/ RejectPendingAccount(n)
        PROVE  LastUsableAdmin'
    BY <2>1, <2>3, <2>6, SparesOne DEF FreeName, RejectPendingAccount, Expired
  <2>7. CASE PurgeExpiredPendingAccounts
    BY <2>1, <2>3, <2>7, SparesOne DEF PurgeExpiredPendingAccounts, Expired
  <2>8. ASSUME NEW n \in Names, ApprovePendingAccount(n) PROVE LastUsableAdmin'
    <3>1. users' = [users EXCEPT ![n].status = "active"] /\ now' = now /\ n # a
      BY <2>3, <2>8 DEF ApprovePendingAccount, ActivateAccount
    <3> QED
      BY <2>2, <2>4, <3>1
  <2>9. ASSUME NEW n \in Names, NEW until \in 1 .. Never, BanUser(n, until)
        PROVE  LastUsableAdmin'
    <3>1. PICK m \in UsableAdmins : m # n
      BY <2>9, OneIsLeft DEF BanUser
    <3>2. m \in Names /\ UsableAdmin(m) /\ users[m] # NoRow
      BY <3>1 DEF UsableAdmins, UsableAdmin, Used
    <3>3. users'[m] = users[m] /\ now' = now
      <4>1. users' = [users EXCEPT ![n] = [users[n] EXCEPT !.status = "suspended", !.ban = until]]
            /\ now' = now
        BY <2>9 DEF BanUser
      <4> QED
        BY <3>1, <3>2, <4>1 DEF StoreTypeOK
    <3>4. UsableAdmin(m)'
      BY <2>2, <3>2, <3>3, StaysUsable
    <3> QED
      BY <3>2, <3>4 DEF LastUsableAdmin, UsableAdmins
  <2>10. ASSUME NEW n \in Names, UnbanUser(n) PROVE LastUsableAdmin'
    <3>1. users' = [users EXCEPT ![n] = [users[n] EXCEPT !.status = "active", !.ban = 0]]
          /\ now' = now
      BY <2>10 DEF UnbanUser
    <3>2. CASE n = a
      <4>1. users'[a] = [users[a] EXCEPT !.status = "active", !.ban = 0]
        BY <2>2, <3>1, <3>2 DEF StoreTypeOK
      <4>2. users'[a] \in Row
        BY <2>2, <4>1, Rewritten
      <4>3. users'[a].role = users[a].role /\ users'[a].status = "active"
        BY <2>2, <4>1 DEF Row
      <4> QED
        BY <2>4, <3>1, <4>2, <4>3, NoRowAssumption
    <3>3. CASE n # a
      BY <2>2, <2>4, <3>1, <3>3
    <3> QED
      BY <3>2, <3>3
  <2>11. ASSUME NEW n \in Names, DeleteUser(n) PROVE LastUsableAdmin'
    <3>1. PICK m \in UsableAdmins : m # n
      BY <2>11, OneIsLeft DEF DeleteUser
    <3> QED
      BY <2>11, <3>1, SparesOne DEF DeleteUser
  <2>12. ASSUME NEW i \in 1 .. MaxId, CheckAndLiftExpiredBan(i) PROVE LastUsableAdmin'
    <3>1. CASE a \in WithId(i) /\ Lapsed(a)
      <4>1. users'[a] = [users[a] EXCEPT !.status = "active", !.ban = 0] /\ now' = now
        BY <2>2, <2>12, <3>1, ZenonT(60) DEF CheckAndLiftExpiredBan
      <4>2. users'[a] \in Row
        BY <2>2, <4>1, Rewritten
      <4>3. users'[a].role = users[a].role /\ users'[a].status = "active"
        BY <2>2, <4>1 DEF Row
      <4> QED
        BY <2>4, <4>1, <4>2, <4>3, NoRowAssumption
    <3>2. CASE ~(a \in WithId(i) /\ Lapsed(a))
      BY <2>2, <2>4, <2>12, <3>2 DEF CheckAndLiftExpiredBan
    <3> QED
      BY <3>1, <3>2
  <2>13. ASSUME NEW n \in Names, now' = now, users'[n] \in Row,
                NEW r \in Row, users'[n] = r, r.role = users[n].role,
                r.status = users[n].status, r.ban = users[n].ban, UsableAdmin(n)
         PROVE  UsableAdmin(n)'
    BY <2>13, NoRowAssumption DEF UsableAdmin, Used, Lapsed
  <2>14. ASSUME NEW i \in 1 .. MaxId, RecordFailedAttempt(i) PROVE LastUsableAdmin'
    <3>1. CASE a \in WithId(i)
      <4>1. users'[a] = Attempted(users[a]) /\ now' = now /\ users[a].fails < MaxFails
        BY <2>2, <2>14, <3>1, SMTT(60) DEF RecordFailedAttempt
      <4>2. Attempted(users[a]) \in Row
        BY <2>2, <4>1, Rewritten DEF StoreTypeOK
      <4>3. /\ Attempted(users[a]).role = users[a].role
            /\ Attempted(users[a]).status = users[a].status
            /\ Attempted(users[a]).ban = users[a].ban
        BY <2>2 DEF Attempted, Row
      <4>4. UsableAdmin(a)'
        BY <2>2, <2>13, <4>1, <4>2, <4>3
      <4> QED
        BY <2>2, <4>4 DEF LastUsableAdmin, UsableAdmins
    <3>2. CASE a \notin WithId(i)
      BY <2>2, <2>4, <2>14, <3>2 DEF RecordFailedAttempt
    <3> QED
      BY <3>1, <3>2
  <2>15. ASSUME NEW i \in 1 .. MaxId, ClearFailedAttempts(i) PROVE LastUsableAdmin'
    <3>1. CASE a \in WithId(i)
      <4> DEFINE r == [users[a] EXCEPT !.fails = 0, !.locked = 0]
      <4>1. users'[a] = r /\ now' = now
        BY <2>2, <2>15, <3>1, ZenonT(60) DEF ClearFailedAttempts
      <4>2. r \in Row
        BY <2>2, Rewritten
      <4>3. r.role = users[a].role /\ r.status = users[a].status /\ r.ban = users[a].ban
        BY <2>2 DEF Row
      <4> HIDE DEF r
      <4>4. UsableAdmin(a)'
        BY <2>2, <2>13, <4>1, <4>2, <4>3
      <4> QED
        BY <2>2, <4>4 DEF LastUsableAdmin, UsableAdmins
    <3>2. CASE a \notin WithId(i)
      BY <2>2, <2>4, <2>15, <3>2 DEF ClearFailedAttempts
    <3> QED
      BY <3>1, <3>2
  <2>16. CASE Tick
    <3>1. UsableAdmin(a)'
      BY <2>2, <2>16, StaysUsable DEF Tick
    <3> QED
      BY <2>2, <3>1 DEF LastUsableAdmin, UsableAdmins
  <2>17. CASE UNCHANGED storeVars
    BY <2>2, <2>4, <2>17 DEF storeVars
  <2> QED
    BY <2>5, <2>6, <2>7, <2>8, <2>9, <2>10, <2>11, <2>12, <2>14, <2>15, <2>16, <2>17
       DEF StoreNext, CreateUser, InsertPending
<1> QED
  BY <1>1, <1>2, StoreTyping, PTL DEF StoreSpec

-----------------------------------------------------------------------------
(* A row that is locked and counted together.                              *)
Agrees(r) == r.fails >= Threshold <=> r.locked # 0

(* The lock is set by the attempt that reaches the threshold, and count    *)
(* and lock are cleared together, whatever else is written to the row.     *)
THEOREM LockWithCount == StoreSpec => []LockGoesWithCount
<1>1. StoreInit => LockGoesWithCount
  <2> SUFFICES ASSUME StoreInit, NEW n \in Used PROVE Agrees(users[n])
    BY DEF LockGoesWithCount, Agrees
  <2>1. users[n].fails = 0 /\ users[n].locked = 0
    BY DEF StoreInit, Used
  <2> QED
    BY <2>1, Bounds DEF Agrees
<1>2. StoreTypeOK /\ LockGoesWithCount /\ [StoreNext]_storeVars => LockGoesWithCount'
  <2> SUFFICES ASSUME StoreTypeOK, LockGoesWithCount, [StoreNext]_storeVars,
                      NEW m \in Used'
               PROVE  Agrees(users'[m])
    BY DEF LockGoesWithCount, Agrees
  <2>1. m \in Names /\ users'[m] # NoRow
    BY DEF Used
  <2>2. m \in Used => Agrees(users[m]) /\ users[m] \in Row
    BY UsedRow DEF LockGoesWithCount, Agrees
  <2>3. ASSUME users'[m] = users[m] PROVE Agrees(users'[m])
    BY <2>1, <2>2, <2>3 DEF Used
  <2>4. ASSUME m \in Used, NEW s, NEW b,
               \/ users'[m] = [users[m] EXCEPT !.status = s]
               \/ users'[m] = [users[m] EXCEPT !.status = s, !.ban = b]
        PROVE  Agrees(users'[m])
    BY <2>2, <2>4 DEF Agrees, Row
  <2>5. ASSUME NEW n \in Names, NEW role, NEW status, Insert(n, role, status)
        PROVE  Agrees(users'[m])
    <3>1. PICK i \in 1 .. MaxId : users' = [users EXCEPT ![n] = NewRow(i, role, status)]
      BY <2>5 DEF Insert
    <3>2. CASE m = n
      <4>1. users'[m].fails = 0 /\ users'[m].locked = 0
        BY <2>1, <3>1, <3>2 DEF NewRow, StoreTypeOK
      <4> QED
        BY <4>1, Bounds DEF Agrees
    <3>3. CASE m # n
      BY <2>1, <2>3, <3>1, <3>3 DEF StoreTypeOK
    <3> QED
      BY <3>2, <3>3
  <2>6. ASSUME NEW S, Delete(S) PROVE Agrees(users'[m])
    BY <2>1, <2>3, <2>6 DEF Delete
  <2>7. ASSUME NEW n \in Names, NEW r,
               users' = [users EXCEPT ![n] = r], n \in Used, n = m => Agrees(r)
        PROVE  Agrees(users'[m])
    BY <2>1, <2>3, <2>7 DEF StoreTypeOK
  <2>8. ASSUME NEW n \in Names, ApprovePendingAccount(n) PROVE Agrees(users'[m])
    <3>1. n \in Used /\ users' = [users EXCEPT ![n] = [users[n] EXCEPT !.status = "active"]]
      BY <2>8 DEF ApprovePendingAccount, ActivateAccount, Pending
    <3>2. n = m => Agrees([users[n] EXCEPT !.status = "active"])
      BY <2>2, <3>1 DEF Agrees, Row
    <3> QED
      BY <2>7, <3>1, <3>2
  <2>9. ASSUME NEW n \in Names, NEW until \in 1 .. Never, BanUser(n, until)
        PROVE  Agrees(users'[m])
    <3> DEFINE r == [users[n] EXCEPT !.status = "suspended", !.ban = until]
    <3>1. n \in Used /\ users' = [users EXCEPT ![n] = r]
      BY <2>9 DEF BanUser
    <3>2. n = m => Agrees(r)
      BY <2>2, <3>1 DEF Agrees, Row
    <3> HIDE DEF r
    <3> QED
      BY <2>7, <3>1, <3>2
  <2>10. ASSUME NEW n \in Names, UnbanUser(n) PROVE Agrees(users'[m])
    <3> DEFINE r == [users[n] EXCEPT !.status = "active", !.ban = 0]
    <3>1. n \in Used /\ users' = [users EXCEPT ![n] = r]
      BY <2>10 DEF UnbanUser
    <3>2. n = m => Agrees(r)
      BY <2>2, <3>1 DEF Agrees, Row
    <3> HIDE DEF r
    <3> QED
      BY <2>7, <3>1, <3>2
  <2>11. ASSUME NEW i \in 1 .. MaxId, CheckAndLiftExpiredBan(i) PROVE Agrees(users'[m])
    <3>1. CASE m \in WithId(i) /\ Lapsed(m)
      <4>1. m \in Used /\ users'[m] = [users[m] EXCEPT !.status = "active", !.ban = 0]
        BY <2>1, <2>11, <3>1 DEF CheckAndLiftExpiredBan, WithId
      <4> QED
        BY <2>4, <4>1
    <3>2. CASE ~(m \in WithId(i) /\ Lapsed(m))
      BY <2>1, <2>3, <2>11, <3>2 DEF CheckAndLiftExpiredBan
    <3> QED
      BY <3>1, <3>2
  <2>12. ASSUME NEW i \in 1 .. MaxId, RecordFailedAttempt(i) PROVE Agrees(users'[m])
    <3>1. CASE m \in WithId(i)
      <4>1. m \in Used /\ users'[m] = Attempted(users[m])
        BY <2>1, <2>12, <3>1 DEF RecordFailedAttempt, WithId
      <4>2. /\ Attempted(users[m]).fails = users[m].fails + 1
            /\ Attempted(users[m]).locked =
                 IF users[m].fails + 1 >= Threshold THEN now + LockTicks ELSE users[m].locked
        BY <2>2, <4>1 DEF Attempted, Row
      <4>3. users[m].fails \in Nat /\ now \in Nat \ {0}
        BY <2>2, <4>1, Bounds DEF Row, StoreTypeOK, Times
      <4> QED
        BY <2>2, <4>1, <4>2, <4>3, Bounds DEF Agrees
    <3>2. CASE m \notin WithId(i)
      BY <2>1, <2>3, <2>12, <3>2 DEF RecordFailedAttempt
    <3> QED
      BY <3>1, <3>2
  <2>13. ASSUME NEW i \in 1 .. MaxId, ClearFailedAttempts(i) PROVE Agrees(users'[m])
    <3>1. CASE m \in WithId(i)
      <4>1. m \in Used /\ users'[m] = [users[m] EXCEPT !.fails = 0, !.locked = 0]
        BY <2>1, <2>13, <3>1 DEF ClearFailedAttempts, WithId
      <4>2. users'[m].fails = 0 /\ users'[m].locked = 0
        BY <2>2, <4>1 DEF Row
      <4> QED
        BY <4>2, Bounds DEF Agrees
    <3>2. CASE m \notin WithId(i)
      BY <2>1, <2>3, <2>13, <3>2 DEF ClearFailedAttempts
    <3> QED
      BY <3>1, <3>2
  <2>14. CASE Tick \/ UNCHANGED storeVars
    BY <2>3, <2>14 DEF Tick, storeVars
  <2> QED
    BY <2>5, <2>6, <2>8, <2>9, <2>10, <2>11, <2>12, <2>13, <2>14
       DEF StoreNext, CreateUser, InsertPending, FreeName, RejectPendingAccount,
           PurgeExpiredPendingAccounts, DeleteUser
<1> QED
  BY <1>1, <1>2, StoreTyping, PTL DEF StoreSpec

=============================================================================

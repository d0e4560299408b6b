---------------------------- MODULE Logins_proofs ----------------------------
(***************************************************************************)
(* Theorems about logins: they run the statements of the users table and   *)
(* nothing else, so that what the table keeps to holds of every order of   *)
(* logins, wrong passwords and commands; and a ban and a lock last.        *)
(***************************************************************************)
EXTENDS Logins, Accounts_proofs

(* A statement that names an identifier out of range matches no row.       *)
LEMMA NoSuchId ==
  ASSUME StoreTypeOK, NEW i, i \notin 1 .. MaxId
  PROVE  WithId(i) = {}
  BY UsedRow DEF WithId, Row

LEMMA ById ==
  ASSUME StoreTypeOK, NEW i,
         CheckAndLiftExpiredBan(i) \/ RecordFailedAttempt(i) \/ ClearFailedAttempts(i)
  PROVE  [StoreNext]_storeVars
<1>1. CASE i \in 1 .. MaxId
  BY <1>1 DEF StoreNext
<1>2. CASE i \notin 1 .. MaxId
  <2>1. users' = [n \in Names |-> users[n]] /\ now' = now
    BY <1>2, NoSuchId DEF CheckAndLiftExpiredBan, RecordFailedAttempt, ClearFailedAttempts
  <2> QED
    BY <2>1 DEF StoreTypeOK, storeVars
<1> QED
  BY <1>1, <1>2

LEMMA StepRunsTheStore ==
  ASSUME StoreTypeOK, [Next]_vars
  PROVE  [StoreNext]_storeVars
<1>1. ASSUME NEW c \in Conns, Judge(c) PROVE [StoreNext]_storeVars
  BY <1>1, ById DEF Judge, LiftIfOver, storeVars
<1>2. ASSUME NEW c \in Conns, Accept(c) \/ Refuse(c) \/ CheckCurrent(c) \/ Unlock(c)
      PROVE  [StoreNext]_storeVars
  BY <1>2, ById DEF Accept, Refuse, CheckCurrent, Unlock
<1>3. ASSUME NEW c \in Conns,
             Find(c) \/ Register(c) \/ SetKick(c) \/ Close(c) \/ TypeCurrent(c)
      PROVE  [StoreNext]_storeVars
  BY <1>3 DEF Find, Register, SetKick, Close, TypeCurrent
<1>4. ASSUME NEW c \in Conns, NEW n \in Names,
             Knock(c, n) \/ KickCommand(c, n) \/ FindLocked(c, n)
      PROVE  [StoreNext]_storeVars
  BY <1>4 DEF Knock, KickCommand, FindLocked
<1>5. ASSUME NEW c \in Conns, NEW n \in Names, NEW until \in 1 .. Never,
             Ban(c, n, until)
      PROVE  [StoreNext]_storeVars
  BY <1>5 DEF Ban, StoreNext
<1>6. ASSUME NEW c \in Conns, NEW n \in Names, Unban(c, n) \/ Remove(c, n)
      PROVE  [StoreNext]_storeVars
  BY <1>6 DEF Unban, Remove, StoreNext
<1>7. ASSUME NEW c \in Conns, NEW n \in Names, NEW role \in {"user", "admin"},
             Create(c, n, role)
      PROVE  [StoreNext]_storeVars
  BY <1>7 DEF Create, StoreNext
<1>8. ASSUME NEW n \in Names, Kick(n) PROVE [StoreNext]_storeVars
  BY <1>8 DEF Kick
<1>9. CASE Clock
  BY <1>9 DEF Clock, StoreNext
<1>10. CASE UNCHANGED vars
  BY <1>10 DEF vars, storeVars
<1> QED
  BY <1>1, <1>2, <1>3, <1>4, <1>5, <1>6, <1>7, <1>8, <1>9, <1>10 DEF Next

LEMMA TableTyping == Spec => []StoreTypeOK
<1>1. Init => StoreTypeOK
  BY StoreTypingInit DEF Init
<1>2. StoreTypeOK /\ [Next]_vars => StoreTypeOK'
  BY StepRunsTheStore, StoreTypingStep
<1> QED
  BY <1>1, <1>2, PTL DEF Spec

(* Every step of a login, of SET PASSWORD and of a command runs one        *)
(* statement of the table or none: the table sees a behaviour of StoreSpec.*)
THEOREM LoginsRunTheStore == Spec => RunsTheStore
<1>1. Init => StoreInit
  BY DEF Init
<1>2. StoreTypeOK /\ [Next]_vars => [StoreNext]_storeVars
  BY StepRunsTheStore
<1> QED
  BY <1>1, <1>2, TableTyping, PTL DEF Spec, RunsTheStore, StoreSpec

(* The last usable administrator is safe from logins and commands in any   *)
(* order, however stale the rows they decided on.                          *)
THEOREM LoginsKeepAnAdmin == Spec => []LastUsableAdmin
  BY LoginsRunTheStore, LastAdmin, PTL DEF RunsTheStore

-----------------------------------------------------------------------------
(* What the statements leave of a row that they do not remove.             *)
LEMMA KeepsRow ==
  ASSUME StoreTypeOK, NEW n \in Used, n \in Used',
         \/ UNCHANGED users
         \/ \E m \in Names, role \in {"user", "admin"} : CreateUser(m, role)
         \/ \E m \in Names : DeleteUser(m)
  PROVE  users'[n] = users[n]
<1>1. users[n] # NoRow /\ n \in Names /\ users'[n] # NoRow
  BY DEF Used
<1>2. ASSUME NEW m \in Names, NEW role, CreateUser(m, role)
      PROVE  users'[n] = users[n]
  BY <1>1, <1>2 DEF CreateUser, Insert, Used, StoreTypeOK
<1>3. ASSUME NEW m \in Names, DeleteUser(m)
      PROVE  users'[n] = users[n]
  BY <1>1, <1>3 DEF DeleteUser, Delete
<1> QED
  BY <1>2, <1>3

LEMMA KeepsStatus ==
  ASSUME StoreTypeOK, NEW n \in Used, NEW i,
         RecordFailedAttempt(i) \/ ClearFailedAttempts(i)
  PROVE  users'[n].status = users[n].status
<1>1. n \in Names /\ users[n] \in Row
  BY UsedRow DEF Used
<1>2. CASE RecordFailedAttempt(i)
  BY <1>1, <1>2 DEF RecordFailedAttempt, Attempted, Row
<1>3. CASE ClearFailedAttempts(i)
  BY <1>1, <1>3 DEF ClearFailedAttempts, Row
<1> QED
  BY <1>2, <1>3

LEMMA LiftsTheLapsed ==
  ASSUME StoreTypeOK, NEW n \in Used, NEW i, CheckAndLiftExpiredBan(i), ~Lapsed(n)
  PROVE  users'[n] = users[n]
  BY DEF CheckAndLiftExpiredBan, Used

(* A ban lasts until its end or UNBAN: the statement that lifts a ban looks*)
(* at the end again, so a login that read the row under an earlier ban     *)
(* cannot end a later one.                                                 *)
THEOREM BansLast == Spec => BanHolds
<1>1. ASSUME StoreTypeOK, [Next]_vars,
             NEW n \in Used, users[n].status = "suspended", ~Lapsed(n),
             n \in Used', users'[n].status = "active"
      PROVE  \E a \in Conns : Unban(a, n)
  <2>1. users'[n] # users[n] /\ users'[n].status # users[n].status /\ n \in Names
    BY <1>1 DEF Used
  <2>2. ASSUME NEW c \in Conns, Judge(c) PROVE FALSE
    BY <1>1, <2>1, <2>2, LiftsTheLapsed DEF Judge, LiftIfOver, storeVars
  <2>3. ASSUME NEW c \in Conns, Accept(c) \/ Refuse(c) \/ CheckCurrent(c) \/ Unlock(c)
        PROVE  FALSE
    BY <1>1, <2>1, <2>3, KeepsStatus DEF Accept, Refuse, CheckCurrent, Unlock, storeVars
  <2>4. ASSUME NEW c \in Conns, NEW m \in Names, NEW until \in 1 .. Never,
               Ban(c, m, until)
        PROVE  FALSE
    <3>1. users' = [users EXCEPT ![m] = [users[m] EXCEPT !.status = "suspended", !.ban = until]]
          /\ m \in Used /\ users[m] \in Row
      BY <1>1, <2>4, UsedRow DEF Ban, BanUser
    <3> QED
      BY <1>1, <2>1, <3>1 DEF StoreTypeOK, Row
  <2>5. ASSUME NEW c \in Conns, NEW m \in Names, Unban(c, m)
        PROVE  \E a \in Conns : Unban(a, n)
    <3>1. users' = [users EXCEPT ![m] = [users[m] EXCEPT !.status = "active", !.ban = 0]]
      BY <2>5 DEF Unban, UnbanUser
    <3>2. m = n
      BY <1>1, <2>1, <3>1 DEF StoreTypeOK
    <3> QED
      BY <2>5, <3>2
  <2>6. ASSUME NEW c \in Conns, NEW m \in Names,
               Remove(c, m) \/ \E role \in {"user", "admin"} : Create(c, m, role)
        PROVE  FALSE
    BY <1>1, <2>1, <2>6, KeepsRow DEF Remove, Create
  <2>7. ASSUME UNCHANGED users PROVE FALSE
    BY <2>1, <2>7
  <2> QED
    BY <1>1, <2>2, <2>3, <2>4, <2>5, <2>6, <2>7
       DEF Next, vars, storeVars, Find, Register, SetKick, Close, TypeCurrent,
           Knock, KickCommand, FindLocked, Kick, Clock, Tick
<1>2. StoreTypeOK /\ [Next]_vars => [LiftedOnTime]_vars
  BY <1>1 DEF LiftedOnTime
<1> QED
  BY <1>2, TableTyping, PTL DEF Spec, BanHolds

-----------------------------------------------------------------------------
(* What a connection remembers is a row as it was.                         *)
LEMMA CopyTyped ==
  ASSUME TypeOK, NEW c \in Conns, NEW n \in Used, Reads(c, n)
  PROVE  copy' \in [Conns -> Copy \union {NoRow}]
<1>1. users[n] \in Row
  BY UsedRow DEF TypeOK
<1>2. [id |-> users[n].id, status |-> users[n].status, locked |-> users[n].locked] \in Copy
  BY <1>1 DEF Row, Copy
<1> QED
  BY <1>2 DEF TypeOK, Reads

LEMMA EndTyped ==
  ASSUME TypeOK, NEW S, End(S)
  PROVE  /\ stage' \in [Conns -> Stages]
         /\ login' \in [Conns -> Names \union {Nobody}]
         /\ copy' \in [Conns -> Copy \union {NoRow}]
         /\ asRole' \in [Conns -> {"none", "user", "admin"}]
  BY DEF TypeOK, End, Stages

(* The columns, the stages of the logins and what they remember keep in    *)
(* range.                                                                  *)
THEOREM LoginTyping == Spec => []TypeOK
<1>1. Init => TypeOK
  BY StoreTypingInit DEF Init, TypeOK, Stages
<1>2. TypeOK /\ [Next]_vars => TypeOK'
  <2> SUFFICES ASSUME TypeOK, [Next]_vars PROVE TypeOK'
    OBVIOUS
  <2>1. StoreTypeOK'
    BY StepRunsTheStore, StoreTypingStep DEF TypeOK
  <2> USE DEF Stages
  <2>2. ASSUME NEW c \in Conns, Judge(c) PROVE TypeOK'
    BY <2>1, <2>2, EndTyped DEF Judge, Goes, TypeOK
  <2>3. ASSUME NEW c \in Conns, Accept(c) \/ CheckCurrent(c) \/ Unlock(c) PROVE TypeOK'
    BY <2>1, <2>3 DEF Accept, CheckCurrent, Unlock, Goes, Forgets, TypeOK
  <2>4. ASSUME NEW c \in Conns, Refuse(c) \/ Close(c) PROVE TypeOK'
    BY <2>1, <2>4, EndTyped DEF Refuse, Close, TypeOK
  <2>5. ASSUME NEW c \in Conns, Find(c) PROVE TypeOK'
    <3>1. CASE login[c] \in Used /\ Goes(c, "accepted", "found")
      <4>1. users[login[c]].role \in {"user", "admin"}
        BY <3>1, UsedRow DEF TypeOK, Row
      <4> QED
        BY <2>1, <2>5, <3>1, <4>1 DEF Find, Goes, TypeOK, End
    <3>2. CASE End({c}) /\ UNCHANGED kicking
      BY <2>1, <3>2, EndTyped DEF TypeOK
    <3> QED
      BY <2>5, <3>1, <3>2 DEF Find
  <2>6. ASSUME NEW c \in Conns, Register(c) \/ SetKick(c) PROVE TypeOK'
    BY <2>1, <2>6 DEF Register, SetKick, Goes, TypeOK
  <2>7. ASSUME NEW c \in Conns, TypeCurrent(c) PROVE TypeOK'
    BY <2>1, <2>7, CopyTyped DEF TypeCurrent, Goes, TypeOK
  <2>8. ASSUME NEW c \in Conns, NEW n \in Names, Knock(c, n) \/ FindLocked(c, n)
        PROVE  TypeOK'
    BY <2>1, <2>8, CopyTyped DEF Knock, FindLocked, Goes, TypeOK
  <2>9. ASSUME NEW c \in Conns, NEW n \in Names,
               \/ \E until \in 1 .. Never : Ban(c, n, until)
               \/ Unban(c, n) \/ Remove(c, n) \/ KickCommand(c, n)
               \/ \E role \in {"user", "admin"} : Create(c, n, role)
        PROVE  TypeOK'
    BY <2>1, <2>9
       DEF Ban, Unban, Remove, KickCommand, Create, Commands, connVars, TypeOK
  <2>10. ASSUME NEW n \in Names, Kick(n) PROVE TypeOK'
    BY <2>1, <2>10, EndTyped DEF Kick, TypeOK
  <2>11. CASE Clock \/ UNCHANGED vars
    BY <2>1, <2>11 DEF Clock, vars, connVars, TypeOK
  <2> QED
    BY <2>2, <2>3, <2>4, <2>5, <2>6, <2>7, <2>8, <2>9, <2>10, <2>11 DEF Next
<1> QED
  BY <1>1, <1>2, PTL DEF Spec

-----------------------------------------------------------------------------
LEMMA ClockGoesOn ==
  ASSUME TypeOK, [Next]_vars
  PROVE  now \in Nat /\ now' \in Nat /\ now <= now'
<1>1. [StoreNext]_storeVars
  BY StepRunsTheStore DEF TypeOK
<1>2. now \in Nat
  BY DEF TypeOK, StoreTypeOK, Times
<1>3. UNCHANGED now \/ Tick
  BY <1>1
     DEF StoreNext, storeVars, Tick, CreateUser, Insert, FreeName, InsertPending,
         ApprovePendingAccount, ActivateAccount, RejectPendingAccount, BanUser,
         UnbanUser, DeleteUser, Delete, CheckAndLiftExpiredBan, RecordFailedAttempt,
         ClearFailedAttempts, PurgeExpiredPendingAccounts
<1> QED
  BY <1>2, <1>3 DEF Tick

(* Who is checking a password remembers a row that was not locked when it  *)
(* was looked at; with the types, the inductive invariant behind LockHolds.*)
Let(c) ==
  /\ stage[c] \in {"read", "verifying", "typed"} => copy[c] \in Copy
  /\ stage[c] \in {"verifying", "typed"} => copy[c].locked <= now

LetTry == \A c \in Conns : Let(c)

LEMMA LetTryStep ==
  ASSUME TypeOK, LetTry, [Next]_vars
  PROVE  LetTry'
<1>1. SUFFICES ASSUME NEW d \in Conns PROVE Let(d)'
  BY DEF LetTry
<1>2. Let(d)
  BY DEF LetTry
<1> USE DEF Let
<1>3. ASSUME stage'[d] = stage[d], copy'[d] = copy[d] PROVE Let(d)'
  <2>1. CASE copy[d] \in Copy
    <3>1. copy[d].locked \in Nat
      BY <2>1, Bounds DEF Copy
    <3> QED
      BY <1>2, <1>3, <2>1, <3>1, ClockGoesOn
  <2>2. CASE copy[d] \notin Copy
    BY <1>2, <1>3, <2>2
  <2> QED
    BY <2>1, <2>2
<1>4. ASSUME stage'[d] \notin {"read", "verifying", "typed"} PROVE Let(d)'
  BY <1>4
<1>5. ASSUME NEW S, End(S) PROVE Let(d)'
  <2>1. CASE d \in S
    BY <1>4, <1>5, <2>1 DEF End
  <2>2. CASE d \notin S
    BY <1>3, <1>5, <2>2 DEF End
  <2> QED
    BY <2>1, <2>2
<1>6. ASSUME NEW c \in Conns, NEW from, NEW to, Goes(c, from, to), copy' = copy, c # d
      PROVE  Let(d)'
  BY <1>3, <1>6 DEF Goes, TypeOK
<1>7. ASSUME NEW c \in Conns, Judge(c) PROVE Let(d)'
  <2>1. CASE /\ MayTry(c) /\ Goes(c, "read", "verifying") /\ copy' = copy /\ c = d
    <3>1. copy'[d] = copy[d] /\ copy[d] \in Copy /\ copy[d].locked <= now
      BY <1>2, <2>1 DEF MayTry, Goes
    <3>2. copy[d].locked \in Nat
      BY <3>1, Bounds DEF Copy
    <3> QED
      BY <3>1, <3>2, ClockGoesOn
  <2> QED
    BY <1>5, <1>6, <1>7, <2>1 DEF Judge
<1>8. ASSUME NEW c \in Conns, Refuse(c) \/ Close(c) PROVE Let(d)'
  BY <1>5, <1>8 DEF Refuse, Close
<1>9. ASSUME NEW c \in Conns, Find(c) PROVE Let(d)'
  <2>1. CASE Goes(c, "accepted", "found") /\ copy' = copy /\ c = d
    BY <1>4, <2>1 DEF Goes, TypeOK
  <2> QED
    BY <1>5, <1>6, <1>9, <2>1 DEF Find
<1>10. ASSUME NEW c \in Conns, Register(c) \/ SetKick(c) PROVE Let(d)'
  <2>1. CASE c = d
    BY <1>4, <1>10, <2>1 DEF Register, SetKick, Goes, TypeOK
  <2> QED
    BY <1>6, <1>10, <2>1 DEF Register, SetKick
<1>11. ASSUME NEW c \in Conns, Accept(c) \/ CheckCurrent(c) \/ Unlock(c) PROVE Let(d)'
  <2>1. CASE c = d
    BY <1>4, <1>11, <2>1 DEF Accept, CheckCurrent, Unlock, Goes, TypeOK
  <2>2. CASE c # d
    BY <1>3, <1>11, <2>2 DEF Accept, CheckCurrent, Unlock, Goes, Forgets, TypeOK
  <2> QED
    BY <2>1, <2>2
<1>12. ASSUME NEW c \in Conns, NEW n \in Used, NEW from, NEW to,
              Goes(c, from, to), Reads(c, n), to = "read" \/ (to = "typed" /\ ~Locked(n))
       PROVE  Let(d)'
  <2>1. CASE c = d
    <3>1. users[n] \in Row
      BY UsedRow DEF TypeOK
    <3>2. /\ copy'[d].locked = users[n].locked
          /\ copy'[d] = [id |-> users[n].id, status |-> users[n].status,
                         locked |-> users[n].locked]
      BY <1>12, <2>1 DEF Reads, TypeOK
    <3>3. copy'[d] \in Copy /\ users[n].locked \in Nat
      BY <3>1, <3>2, Bounds DEF Row, Copy
    <3>4. stage'[d] = to
      BY <1>12, <2>1 DEF Goes, TypeOK
    <3> QED
      BY <1>12, <3>2, <3>3, <3>4, ClockGoesOn DEF Locked
  <2>2. CASE c # d
    BY <1>3, <1>12, <2>2 DEF Goes, Reads, TypeOK
  <2> QED
    BY <2>1, <2>2
<1> HIDE DEF Let
<1>13. ASSUME NEW c \in Conns, TypeCurrent(c) PROVE Let(d)'
  BY <1>12, <1>13 DEF TypeCurrent
<1>14. ASSUME NEW c \in Conns, NEW n \in Names, Knock(c, n) PROVE Let(d)'
  <2>1. n \in Used /\ Goes(c, "idle", "read") /\ Reads(c, n)
    BY <1>14 DEF Knock
  <2> QED
    BY <1>12, <2>1
<1>15. ASSUME NEW c \in Conns, NEW n \in Names, FindLocked(c, n) PROVE Let(d)'
  <2>1. CASE c = d
    BY <1>4, <1>15, <2>1 DEF FindLocked, Goes, TypeOK
  <2>2. CASE c # d
    BY <1>3, <1>15, <2>2 DEF FindLocked, Goes, Reads, TypeOK
  <2> QED
    BY <2>1, <2>2
<1>16. ASSUME UNCHANGED connVars PROVE Let(d)'
  BY <1>3, <1>16 DEF connVars
<1>17. ASSUME NEW n \in Names, Kick(n) PROVE Let(d)'
  BY <1>5, <1>17 DEF Kick
<1> QED
  BY <1>7, <1>8, <1>9, <1>10, <1>11, <1>13, <1>14, <1>15, <1>16, <1>17
     DEF Next, vars, Clock, Ban, Unban, Remove, KickCommand, Create, Commands

(* The statements that do not touch the lock of a row.                     *)
LEMMA KeepsLock ==
  ASSUME StoreTypeOK, NEW n \in Used, n \in Used',
         \/ UNCHANGED users
         \/ \E m \in Names, role \in {"user", "admin"} : CreateUser(m, role)
         \/ \E m \in Names : DeleteUser(m) \/ UnbanUser(m)
         \/ \E m \in Names, until \in 1 .. Never : BanUser(m, until)
         \/ \E i : CheckAndLiftExpiredBan(i)
  PROVE  users'[n].locked = users[n].locked
<1>1. n \in Names /\ users[n] \in Row
  BY UsedRow DEF Used
<1>2. CASE users'[n] = users[n]
  BY <1>2
<1>3. ASSUME NEW m \in Names, NEW s, NEW b,
             users' = [users EXCEPT ![m] = [users[m] EXCEPT !.status = s, !.ban = b]]
      PROVE  users'[n].locked = users[n].locked
  <2>1. CASE m = n
    <3>1. users'[n] = [users[n] EXCEPT !.status = s, !.ban = b]
      BY <1>1, <1>3, <2>1 DEF StoreTypeOK
    <3> QED
      BY <1>1, <3>1 DEF Row
  <2>2. CASE m # n
    BY <1>1, <1>2, <1>3, <2>2 DEF StoreTypeOK
  <2> QED
    BY <2>1, <2>2
<1>4. ASSUME NEW m \in Names, UnbanUser(m) PROVE users'[n].locked = users[n].locked
  BY <1>3, <1>4 DEF UnbanUser
<1>5. ASSUME NEW m \in Names, NEW until \in 1 .. Never, BanUser(m, until)
      PROVE  users'[n].locked = users[n].locked
  BY <1>3, <1>5 DEF BanUser
<1>6. ASSUME NEW i, CheckAndLiftExpiredBan(i) PROVE users'[n].locked = users[n].locked
  <2>1. \/ users'[n] = users[n]
        \/ users'[n] = [users[n] EXCEPT !.status = "active", !.ban = 0]
    BY <1>1, <1>6 DEF CheckAndLiftExpiredBan
  <2> QED
    BY <1>1, <2>1 DEF Row
<1> QED
  BY <1>2, <1>4, <1>5, <1>6, KeepsRow

(* A lock is changed only by UNLOCK or by somebody who was let try a       *)
(* password while it was not in force: no ban, lifted ban or later guess   *)
(* moves or ends it (completeAuth, SET PASSWORD, UNLOCK).                  *)
THEOREM LocksLast == Spec => LockHolds
<1>1. ASSUME TypeOK, LetTry, [Next]_vars,
             NEW n \in Used, n \in Used', users'[n].locked # users[n].locked
      PROVE  \E c \in Conns :
               /\ \/ Unlock(c)
                  \/ stage[c] \in {"verifying", "typed"} /\ copy[c].locked <= now
               /\ copy[c].id = users[n].id
  <2>1. StoreTypeOK /\ n \in Names
    BY <1>1 DEF TypeOK, Used
  <2>2. ASSUME NEW i, ClearFailedAttempts(i) \/ RecordFailedAttempt(i)
        PROVE  users[n].id = i
    BY <1>1, <2>1, <2>2 DEF ClearFailedAttempts, RecordFailedAttempt, WithId
  <2>3. ASSUME NEW c \in Conns, Unlock(c) PROVE copy[c].id = users[n].id
    BY <1>1, <2>2, <2>3 DEF Unlock, storeVars
  <2>4. ASSUME NEW c \in Conns, Accept(c) \/ Refuse(c) \/ CheckCurrent(c)
        PROVE  /\ stage[c] \in {"verifying", "typed"}
               /\ copy[c].id = users[n].id
               /\ copy[c].locked <= now
    <3>1. stage[c] \in {"verifying", "typed"}
      BY <2>4 DEF Accept, Refuse, CheckCurrent, Goes
    <3>2. copy[c].locked <= now
      BY <1>1, <3>1 DEF LetTry, Let
    <3>3. ClearFailedAttempts(copy[c].id) \/ RecordFailedAttempt(copy[c].id)
      BY <1>1, <2>4 DEF Accept, Refuse, CheckCurrent, storeVars
    <3> QED
      BY <2>2, <3>1, <3>2, <3>3
  <2>5. ASSUME NEW c \in Conns, Judge(c) PROVE FALSE
    BY <1>1, <2>1, <2>5, KeepsLock DEF Judge, LiftIfOver, storeVars
  <2>6. ASSUME NEW c \in Conns, NEW m \in Names, NEW until \in 1 .. Never,
               Ban(c, m, until)
        PROVE  FALSE
    BY <1>1, <2>1, <2>6, KeepsLock DEF Ban
  <2>7. ASSUME NEW c \in Conns, NEW m \in Names,
               \/ Unban(c, m) \/ Remove(c, m)
               \/ \E role \in {"user", "admin"} : Create(c, m, role)
        PROVE  FALSE
    BY <1>1, <2>1, <2>7, KeepsLock DEF Unban, Remove, Create
  <2>8. ASSUME UNCHANGED users PROVE FALSE
    BY <1>1, <2>1, <2>8
  <2> QED
    BY <1>1, <2>3, <2>4, <2>5, <2>6, <2>7, <2>8
       DEF Next, vars, storeVars, Find, Register, SetKick, Close, TypeCurrent,
           Knock, KickCommand, FindLocked, Kick, Clock, Tick
<1>2. TypeOK /\ LetTry /\ [Next]_vars => [UnlockedRightly]_vars
  BY <1>1 DEF UnlockedRightly
<1>3. Init => LetTry
  BY DEF Init, LetTry, Let
<1>4. TypeOK /\ LetTry /\ [Next]_vars => LetTry'
  BY LetTryStep
<1> QED
  BY <1>2, <1>3, <1>4, LoginTyping, PTL DEF Spec, LockHolds

=============================================================================

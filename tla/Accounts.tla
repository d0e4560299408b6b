------------------------------ MODULE Accounts ------------------------------
(***************************************************************************)
(* The users table (internal/store/store.go).                              *)
(*                                                                         *)
(* Every exported method that writes is one SQL statement, which SQLite    *)
(* runs alone, so each is one action here; a statement that matches no row *)
(* changes nothing.  StoreSpec runs them in any order, whoever calls them. *)
(* The modules that extend this one run them as the program does, several  *)
(* of them per operation, with other sessions in between.                  *)
(*                                                                         *)
(* A row keeps the columns that decide who may log in.  Times are ticks of *)
(* a clock that never goes back; 0 stands for NULL.                        *)
(***************************************************************************)
EXTENDS Naturals, FiniteSets

CONSTANTS
  Names,          \* the usernames
  Admins,         \* the administrators when the server starts
  NoRow,          \* what the table holds for a name that it lacks
  MaxId,          \* bound: the largest identifier
  Horizon,        \* bound: the last tick of the clock
  MaxFails,       \* bound: failed attempts that are counted
  Threshold,      \* lockoutThreshold
  LockTicks,      \* lockoutDuration
  ExpiryTicks     \* PENDING_EXPIRY_DAYS

ASSUME StoreAssumption ==
  /\ IsFiniteSet(Names)
  /\ Admins \subseteq Names
  /\ Admins # {}
  /\ {MaxId, Horizon, MaxFails, Threshold, LockTicks, ExpiryTicks} \subseteq Nat \ {0}

Times == 1 .. Horizon

(* NeverExpires: the year 2099, which stands for a ban without an end.     *)
Never == Horizon + 1

Row == [id : 1 .. MaxId,
        role : {"user", "admin"},
        status : {"pending", "active", "suspended"},
        ban : 0 .. Never,                   \* banned_until
        fails : 0 .. MaxFails,              \* failed_attempts
        locked : 0 .. (Horizon + LockTicks),  \* locked_until
        created : Times]                    \* created_at

ASSUME NoRowAssumption == NoRow \notin Row

VARIABLES
  users,      \* the row of each username
  now         \* the clock

storeVars == <<users, now>>

Used == {n \in Names : users[n] # NoRow}

(* The columns are in range and the primary key is one.                    *)
StoreTypeOK ==
  /\ users \in [Names -> Row \union {NoRow}]
  /\ now \in Times
  /\ \A m, n \in Used : users[m].id = users[n].id => m = n

-----------------------------------------------------------------------------
(* Mutant of IsNextId: the number of rows, and one more.                   *)
IsCountedId(i) == i = Cardinality(Used) + 1

(* id INTEGER PRIMARY KEY, without AUTOINCREMENT: the largest in use and   *)
(* one more, so that the identifier of a deleted row can come back.        *)
IsNextId(i) ==
  /\ \A n \in Used : users[n].id < i
  /\ i = 1 \/ \E n \in Used : users[n].id + 1 = i

NewRow(i, role, status) ==
  [id |-> i, role |-> role, status |-> status, ban |-> 0,
   fails |-> 0, locked |-> 0, created |-> now]

Insert(n, role, status) ==
  /\ n \notin Used
  /\ \E i \in 1 .. MaxId :
       IsNextId(i) /\ users' = [users EXCEPT ![n] = NewRow(i, role, status)]
  /\ UNCHANGED now

Delete(S) ==
  /\ users' = [n \in Names |-> IF n \in S THEN NoRow ELSE users[n]]
  /\ UNCHANGED now

Pending == {n \in Used : users[n].status = "pending"}

(* created_at < datetime('now', -PENDING_EXPIRY_DAYS)                      *)
Expired == {n \in Pending : users[n].created + ExpiryTicks < now}

(* The end of a timed ban is past; the sentinel never is.                  *)
Lapsed(n) ==
  /\ users[n].status = "suspended"
  /\ users[n].ban \in 1 .. (now - 1)
  /\ users[n].ban # Never

Locked(n) == users[n].locked > now

(* usableAdminPredicate                                                    *)
UsableAdmin(n) ==
  /\ n \in Used
  /\ users[n].role = "admin"
  /\ users[n].status = "active" \/ Lapsed(n)

UsableAdmins == {n \in Names : UsableAdmin(n)}

(* Mutant of MayRemove: one usable admin is enough.                        *)
MayRemoveOnly(n) == ~UsableAdmin(n) \/ Cardinality(UsableAdmins) >= 1

(* The guard in the WHERE clause of BanUser and DeleteUser.                *)
MayRemove(n) == ~UsableAdmin(n) \/ Cardinality(UsableAdmins) > 1

-----------------------------------------------------------------------------
CreateUser(n, role) == Insert(n, role, "active")

(* CreatePendingAccount is two statements.  The first frees the name of a  *)
(* pending account that has expired; the second inserts the new one, which *)
(* fails if the name is taken by now.                                      *)
FreeName(n) == Delete({n} \intersect Expired)

(* Mutant of InsertPending: the account is active from the start.          *)
InsertActive(n) == Insert(n, "user", "active")

InsertPending(n) == Insert(n, "user", "pending")

PurgeExpiredPendingAccounts == Delete(Expired)

(* ActivateAccount is content to match no row; ApprovePendingAccount, the  *)
(* same statement, reports it.                                             *)
ActivateAccount(n) ==
  /\ \/ n \in Pending /\ users' = [users EXCEPT ![n].status = "active"]
     \/ n \notin Pending /\ UNCHANGED users
  /\ UNCHANGED now

ApprovePendingAccount(n) == n \in Pending /\ ActivateAccount(n)

(* Mutant of RejectPendingAccount: whatever the status.                    *)
RejectAnyAccount(n) == Delete({n} \intersect Used)

RejectPendingAccount(n) == Delete({n} \intersect Pending)

(* BanUser: any status, and any end: the duration may have overflowed.     *)
BanUser(n, until) ==
  /\ n \in Used
  /\ MayRemove(n)
  /\ users' = [users EXCEPT ![n].status = "suspended", ![n].ban = until]
  /\ UNCHANGED now

UnbanUser(n) ==
  /\ n \in Used
  /\ users[n].status = "suspended"
  /\ users' = [users EXCEPT ![n].status = "active", ![n].ban = 0]
  /\ UNCHANGED now

DeleteUser(n) ==
  /\ n \in Used
  /\ MayRemove(n)
  /\ Delete({n})

(* The statements of the login path name the row by its identifier.        *)
WithId(i) == {n \in Used : users[n].id = i}

CheckAndLiftExpiredBan(i) ==
  /\ users' = [n \in Names |->
       IF n \in WithId(i) /\ Lapsed(n)
       THEN [users[n] EXCEPT !.status = "active", !.ban = 0] ELSE users[n]]
  /\ UNCHANGED now

(* Mutant of Attempted: the lock comes one attempt late.                   *)
AttemptedLate(r) ==
  [r EXCEPT !.fails = @ + 1,
            !.locked = IF r.fails + 1 > Threshold THEN now + LockTicks ELSE @]

(* The counter and the lock are written by one statement.                  *)
Attempted(r) ==
  [r EXCEPT !.fails = @ + 1,
            !.locked = IF r.fails + 1 >= Threshold THEN now + LockTicks ELSE @]

RecordFailedAttempt(i) ==
  /\ \A n \in WithId(i) : users[n].fails < MaxFails
  /\ users' = [n \in Names |->
       IF n \in WithId(i) THEN Attempted(users[n]) ELSE users[n]]
  /\ UNCHANGED now

ClearFailedAttempts(i) ==
  /\ users' = [n \in Names |->
       IF n \in WithId(i) THEN [users[n] EXCEPT !.fails = 0, !.locked = 0]
       ELSE users[n]]
  /\ UNCHANGED now

Tick ==
  /\ now < Horizon
  /\ now' = now + 1
  /\ UNCHANGED users

-----------------------------------------------------------------------------
(* bootstrapAdminAccount and adduser see to an administrator before the    *)
(* first session.                                                          *)
StoreInit ==
  /\ now = 1
  /\ \E ids \in [Admins -> 1 .. MaxId] :
       /\ \A m, n \in Admins : ids[m] = ids[n] => m = n
       /\ users = [n \in Names |->
            IF n \in Admins
            THEN [id |-> ids[n], role |-> "admin", status |-> "active", ban |-> 0,
                  fails |-> 0, locked |-> 0, created |-> 1]
            ELSE NoRow]

StoreNext ==
  \/ \E n \in Names :
       \/ CreateUser(n, "user") \/ CreateUser(n, "admin")
       \/ FreeName(n) \/ InsertPending(n)
       \/ ApprovePendingAccount(n) \/ RejectPendingAccount(n)
       \/ \E until \in 1 .. Never : BanUser(n, until)
       \/ UnbanUser(n) \/ DeleteUser(n)
  \/ \E i \in 1 .. MaxId :
       CheckAndLiftExpiredBan(i) \/ RecordFailedAttempt(i) \/ ClearFailedAttempts(i)
  \/ PurgeExpiredPendingAccounts
  \/ Tick

StoreSpec == StoreInit /\ [][StoreNext]_storeVars

-----------------------------------------------------------------------------
(* However bans, deletions, lifted bans and the passing of time follow one *)
(* another, one administrator can log in (the guard of BanUser and         *)
(* DeleteUser counts a suspended one whose ban has run out).               *)
LastUsableAdmin == UsableAdmins # {}

(* No window where the counter is at the threshold but the lock has not    *)
(* been written (RecordFailedAttempt), and no lock without its attempts:   *)
(* they are cleared together.                                              *)
LockGoesWithCount ==
  \A n \in Used : users[n].fails >= Threshold <=> users[n].locked # 0

=============================================================================

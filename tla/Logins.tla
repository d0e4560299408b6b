------------------------------- MODULE Logins -------------------------------
(***************************************************************************)
(* From a password to a session: the password handlers, completeAuth and   *)
(* sessionMiddleware (cmd/server/main.go), the check of the current        *)
(* password by SET PASSWORD (internal/setpassword/setpassword.go), and the *)
(* administrators' BAN, UNBAN, DELETE USER, CREATE USER, KICK and UNLOCK   *)
(* (internal/lobby/commands.go), over the users table and the kick hooks   *)
(* of the registry.                                                        *)
(*                                                                         *)
(* A login reads the row once, decides on that copy, spends a long time on *)
(* the password hash, and reads the row again before it registers.  Any    *)
(* command may come in between any two of these steps.                     *)
(***************************************************************************)
EXTENDS Accounts

CONSTANTS
  Conns,      \* the SSH connections
  Nobody      \* who logs in on a connection that is not there

ASSUME NobodyAssumption == Nobody \notin Names

VARIABLES
  stage,      \* how far each connection has come
  login,      \* the username it logs in as
  copy,       \* what it remembers of the row while it checks a password
  asRole,     \* the role of its session, as the middleware read it
  kicking     \* the names whose Kick has yet to run in a BAN or DELETE

connVars == <<stage, login, copy, asRole>>
vars == <<storeVars, connVars, kicking>>

(***************************************************************************)
(* "idle": nobody there; "read": the row was read; "verifying": it may log *)
(* in, if the password is right; "accepted": it was; "found": the          *)
(* middleware has read the row; "unhooked": registered; "hooked": with its *)
(* kick function; "typed": in SET PASSWORD, its current password typed;    *)
(* "unlocking": in UNLOCK, the row found.                                  *)
(***************************************************************************)
Stages == {"idle", "read", "verifying", "accepted", "found", "unhooked",
           "hooked", "typed", "unlocking"}

Copy == [id : 1 .. MaxId, status : {"pending", "active", "suspended"},
         locked : 0 .. (Horizon + LockTicks)]

(* The table and the connections are in range, and identifiers are keys    *)
(* although the one of a deleted row comes back (CreateUser).              *)
TypeOK ==
  /\ StoreTypeOK
  /\ stage \in [Conns -> Stages]
  /\ login \in [Conns -> Names \union {Nobody}]
  /\ copy \in [Conns -> Copy \union {NoRow}]
  /\ asRole \in [Conns -> {"none", "user", "admin"}]
  /\ kicking \subseteq Names

Init ==
  /\ StoreInit
  /\ stage = [c \in Conns |-> "idle"]
  /\ login = [c \in Conns |-> Nobody]
  /\ copy = [c \in Conns |-> NoRow]
  /\ asRole = [c \in Conns |-> "none"]
  /\ kicking = {}

Goes(c, from, to) ==
  /\ stage[c] = from
  /\ stage' = [stage EXCEPT ![c] = to]
  /\ UNCHANGED kicking

Reads(c, n) ==
  copy' = [copy EXCEPT ![c] = [id |-> users[n].id, status |-> users[n].status,
                               locked |-> users[n].locked]]

Forgets(c) == copy' = [copy EXCEPT ![c] = NoRow]

(* The connections in S end.                                               *)
End(S) ==
  /\ stage' = [c \in Conns |-> IF c \in S THEN "idle" ELSE stage[c]]
  /\ login' = [c \in Conns |-> IF c \in S THEN Nobody ELSE login[c]]
  /\ copy' = [c \in Conns |-> IF c \in S THEN NoRow ELSE copy[c]]
  /\ asRole' = [c \in Conns |-> IF c \in S THEN "none" ELSE asRole[c]]

-----------------------------------------------------------------------------
(* The password handler reads the row of a username that it knows.         *)
Knock(c, n) ==
  /\ n \in Used
  /\ Goes(c, "idle", "read")
  /\ login' = [login EXCEPT ![c] = n]
  /\ Reads(c, n)
  /\ UNCHANGED <<storeVars, asRole>>

(* completeAuth, up to the password.  A copy that shows a ban has the      *)
(* statement look whether it is over; the copy is then taken as active.    *)
IsLifted(c) ==
  copy[c].status = "suspended" /\ \E n \in WithId(copy[c].id) : Lapsed(n)

(* Mutant of LiftIfOver: the statement does not look at the end again.     *)
LiftAnyway(c) ==
  IF copy[c].status = "suspended" /\ login[c] \in Used
  THEN users' = [users EXCEPT ![login[c]].status = "active"] /\ UNCHANGED now
  ELSE UNCHANGED storeVars

LiftIfOver(c) ==
  IF copy[c].status = "suspended" THEN CheckAndLiftExpiredBan(copy[c].id)
  ELSE UNCHANGED storeVars

(* Mutant of MayTry: a locked account may try.                             *)
MayTryLocked(c) == copy[c].status = "active" \/ IsLifted(c)

MayTry(c) ==
  /\ copy[c].status = "active" \/ IsLifted(c)
  /\ copy[c].locked <= now

(* Refused before the look at the ban: an account of the role that the     *)
(* other listener is for.  After it: one that may not try, or that has no  *)
(* password.                                                               *)
Judge(c) ==
  /\ stage[c] = "read"
  /\ \/ /\ LiftIfOver(c)
        /\ MayTry(c)
        /\ Goes(c, "read", "verifying")
        /\ UNCHANGED <<login, copy, asRole>>
     \/ /\ LiftIfOver(c) \/ UNCHANGED storeVars
        /\ End({c})
        /\ UNCHANGED kicking

(* The password was right, or it was not.  That a statement failed is only *)
(* logged.                                                                 *)
Accept(c) ==
  /\ Goes(c, "verifying", "accepted")
  /\ ClearFailedAttempts(copy[c].id) \/ UNCHANGED storeVars
  /\ Forgets(c)
  /\ UNCHANGED <<login, asRole>>

Refuse(c) ==
  /\ stage[c] = "verifying"
  /\ RecordFailedAttempt(copy[c].id) \/ UNCHANGED storeVars
  /\ End({c})
  /\ UNCHANGED kicking

(* sessionMiddleware.  Without a row the handler refuses the session.      *)
Find(c) ==
  /\ stage[c] = "accepted"
  /\ \/ /\ login[c] \in Used
        /\ Goes(c, "accepted", "found")
        /\ asRole' = [asRole EXCEPT ![c] = users[login[c]].role]
        /\ UNCHANGED <<login, copy>>
     \/ login[c] \notin Used /\ End({c}) /\ UNCHANGED kicking
  /\ UNCHANGED storeVars

Register(c) ==
  Goes(c, "found", "unhooked") /\ UNCHANGED <<storeVars, login, copy, asRole>>

SetKick(c) ==
  Goes(c, "unhooked", "hooked") /\ UNCHANGED <<storeVars, login, copy, asRole>>

(* The connection ends.                                                    *)
Close(c) == stage[c] # "idle" /\ End({c}) /\ UNCHANGED <<storeVars, kicking>>

(* SET PASSWORD: the lock is looked at, then the password, then the count. *)
TypeCurrent(c) ==
  /\ login[c] \in Used
  /\ ~Locked(login[c])
  /\ Goes(c, "hooked", "typed")
  /\ Reads(c, login[c])
  /\ UNCHANGED <<storeVars, login, asRole>>

CheckCurrent(c) ==
  /\ Goes(c, "typed", "hooked")
  /\ \/ RecordFailedAttempt(copy[c].id)
     \/ ClearFailedAttempts(copy[c].id)
     \/ UNCHANGED storeVars
  /\ Forgets(c)
  /\ UNCHANGED <<login, asRole>>

-----------------------------------------------------------------------------
(* The middleware sets the hook before it starts the lobby.                *)
InLobby(c) == stage[c] \in {"hooked", "typed", "unlocking"}

(* An administrator's session, by the role that the middleware read.       *)
Commands(a) == stage[a] = "hooked" /\ asRole[a] = "admin" /\ UNCHANGED connVars

(* Mutant of Ban: the administrators are counted in an earlier statement.  *)
BanChecked(a, n, until) ==
  /\ Commands(a)
  /\ n \in Used
  /\ users' = [users EXCEPT ![n].status = "suspended", ![n].ban = until]
  /\ kicking' = kicking \union {n}
  /\ UNCHANGED now

Ban(a, n, until) ==
  /\ Commands(a)
  /\ BanUser(n, until)
  /\ kicking' = kicking \union {n}

Unban(a, n) == Commands(a) /\ UnbanUser(n) /\ UNCHANGED kicking

Remove(a, n) ==
  /\ Commands(a)
  /\ n # login[a]
  /\ DeleteUser(n)
  /\ kicking' = kicking \union {n}

Create(a, n, role) == Commands(a) /\ CreateUser(n, role) /\ UNCHANGED kicking

(* UNLOCK finds the row by its name and clears it by its identifier.       *)
FindLocked(a, n) ==
  /\ asRole[a] = "admin"
  /\ n \in Used
  /\ Goes(a, "hooked", "unlocking")
  /\ Reads(a, n)
  /\ UNCHANGED <<storeVars, login, asRole>>

Unlock(a) ==
  /\ Goes(a, "unlocking", "hooked")
  /\ ClearFailedAttempts(copy[a].id) \/ UNCHANGED storeVars
  /\ Forgets(a)
  /\ UNCHANGED <<login, asRole>>

KickCommand(a, n) ==
  /\ Commands(a)
  /\ kicking' = kicking \union {n}
  /\ UNCHANGED storeVars

(* Kick closes the sessions of an account that have their hook.            *)
Kick(n) ==
  /\ n \in kicking
  /\ kicking' = kicking \ {n}
  /\ End({c \in Conns : login[c] = n /\ InLobby(c)})
  /\ UNCHANGED storeVars

Clock == Tick /\ UNCHANGED <<connVars, kicking>>

Next ==
  \/ \E c \in Conns :
       \/ Judge(c) \/ Accept(c) \/ Refuse(c)
       \/ Find(c) \/ Register(c) \/ SetKick(c) \/ Close(c)
       \/ TypeCurrent(c) \/ CheckCurrent(c) \/ Unlock(c)
       \/ \E n \in Names :
            \/ Knock(c, n)
            \/ \E until \in 1 .. Never : Ban(c, n, until)
            \/ Unban(c, n) \/ Remove(c, n) \/ KickCommand(c, n) \/ FindLocked(c, n)
            \/ \E role \in {"user", "admin"} : Create(c, n, role)
  \/ \E n \in Names : Kick(n)
  \/ Clock

Spec == Init /\ [][Next]_vars

-----------------------------------------------------------------------------
(* Whatever the order of logins and commands, the table goes through what  *)
(* the store allows, so LastUsableAdmin and LockGoesWithCount hold of it.  *)
RunsTheStore == StoreSpec

(* A ban is not lifted before its end, except by UNBAN: not by a login     *)
(* that read the row while an earlier ban had run out                      *)
(* (CheckAndLiftExpiredBan looks again).                                   *)
LiftedOnTime ==
  \A n \in Used :
    /\ users[n].status = "suspended" /\ ~Lapsed(n)
    /\ n \in Used' /\ users'[n].status = "active"
    => \E a \in Conns : Unban(a, n)

(* LiftedOnTime of every step.                                             *)
BanHolds == [][LiftedOnTime]_vars

(* A lock is ended by UNLOCK, and set, moved or ended by somebody who was  *)
(* let try while it was not in force: no guess is let in to push it        *)
(* forward (setpassword.go, submit), and no other statement touches it.    *)
UnlockedRightly ==
  \A n \in Used :
    n \in Used' /\ users'[n].locked # users[n].locked
    => \E c \in Conns :
         /\ \/ Unlock(c)
            \/ stage[c] \in {"verifying", "typed"} /\ copy[c].locked <= now
         /\ copy[c].id = users[n].id

(* UnlockedRightly of every step.                                          *)
LockHolds == [][UnlockedRightly]_vars

(* BAN disconnects the user immediately (HELP BAN): once its Kick has run, *)
(* a banned account has no session in the lobby.                           *)
BanEndsSessions ==
  \A n \in Used : \A c \in Conns :
    users[n].status = "suspended" /\ ~Lapsed(n) /\ n \notin kicking =>
      ~(login[c] = n /\ InLobby(c))

=============================================================================

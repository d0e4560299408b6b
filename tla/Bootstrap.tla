----------------------------- MODULE Bootstrap ------------------------------
(***************************************************************************)
(* The start of the server (cmd/server/main.go, main) as far as it decides *)
(* who can administrate it: bootstrapAdminAccount creates the first        *)
(* administrator, or recovers the last one, from two environment variables,*)
(* before the listeners open.  It is a sequence of SQL statements without  *)
(* a transaction; the server may be killed between any two and is then     *)
(* started again.  adduser (cmd/adduser/main.go), a program of its own,    *)
(* may insert accounts meanwhile.                                          *)
(*                                                                         *)
(* Of the users table the columns that matter here: role, status, the end  *)
(* of a ban, the password and must_change_password.                        *)
(***************************************************************************)
EXTENDS Naturals, FiniteSets

CONSTANTS
  Names,        \* usernames
  Fold,         \* each username in lower case (COLLATE NOCASE)
  Nobody,       \* no username: BOOTSTRAP_ADMIN_USERNAME is not set
  NoRow,        \* the absent row
  Tables,       \* the tables that the first start may find
  Added,        \* bound: the usernames that adduser may be told
  MaxCrashes    \* bound: how often a starting server is killed before one serves

VARIABLES
  users,        \* the row of each username
  proc,         \* where the server process is
  wanted,       \* BOOTSTRAP_ADMIN_USERNAME
  crashes       \* (bound) how often it was killed since it last served

bootVars == <<users, proc, wanted, crashes>>

(***************************************************************************)
(* ban is the end of a ban: "timed" lies ahead, "over" behind, "forever"   *)
(* is the sentinel.  pw tells the password of the environment from the     *)
(* ones that people chose.                                                 *)
(***************************************************************************)
Row == [role : {"user", "admin"},
        status : {"pending", "active", "suspended"},
        ban : {"none", "timed", "over", "forever"},
        pw : {"own", "env"},
        must : BOOLEAN]

ASSUME BootAssumption ==
  /\ Nobody \notin Names
  /\ NoRow \notin Row
  /\ DOMAIN Fold = Names
  /\ Tables \subseteq [Names -> Row \union {NoRow}]
  /\ Added \subseteq Names
  /\ MaxCrashes \in Nat

(***************************************************************************)
(* "down"; then, while it starts, "counting" the usable administrators,    *)
(* "looking" for the wanted account, "creating" it, or on the first or the *)
(* second statement of its recovery; then "serving".                       *)
(***************************************************************************)
Starting == {"counting", "looking", "creating", "first", "second"}

BootTypeOK ==
  /\ users \in [Names -> Row \union {NoRow}]
  /\ proc \in Starting \union {"down", "serving"}
  /\ wanted \in Names \union {Nobody}
  /\ crashes \in 0 .. MaxCrashes

BootInit ==
  /\ users \in Tables
  /\ proc = "down"
  /\ wanted \in Names \union {Nobody}
  /\ crashes = 0

-----------------------------------------------------------------------------
Used == {n \in Names : users[n] # NoRow}

(* usableAdminPredicate                                                    *)
UsableAdmin(n) ==
  /\ n \in Used
  /\ users[n].role = "admin"
  /\ \/ users[n].status = "active"
     \/ users[n].status = "suspended" /\ users[n].ban = "over"

UsableAdmins == {n \in Names : UsableAdmin(n)}

(* Mutant of Counted: every administrator's account counts.                *)
CountedAll == {n \in Used : users[n].role = "admin"}

(* CountUsableAdmins                                                       *)
Counted == UsableAdmins

Insert(n, role, pw) ==
  /\ n \notin Used
  /\ users' = [users EXCEPT ![n] =
       [role |-> role, status |-> "active", ban |-> "none", pw |-> pw, must |-> FALSE]]

SetPassword(n, pw) ==
  users' = [users EXCEPT ![n].pw = pw, ![n].must = FALSE]

UnbanUser(n) ==
  /\ users[n].status = "suspended"
  /\ users' = [users EXCEPT ![n].status = "active", ![n].ban = "none"]

(* GetUserByUsernameCI finds an account under another case.                *)
Alike(n) == \E m \in Used : Fold[m] = Fold[n]

-----------------------------------------------------------------------------
Moves(from, to) ==
  /\ proc = from
  /\ proc' = to
  /\ crashes' = IF to = "serving" THEN 0 ELSE crashes

Start == Moves("down", "counting") /\ UNCHANGED <<users, wanted>>

Count ==
  /\ Moves("counting", IF wanted = Nobody \/ Counted # {} THEN "serving" ELSE "looking")
  /\ UNCHANGED <<users, wanted>>

(* The account of the wanted name, by its exact spelling: recovered only   *)
(* if it is a suspended administrator, created only if nothing like it     *)
(* exists; else log.Fatal ends the process.                                *)
Recoverable(n) ==
  n \in Used /\ users[n].role = "admin" /\ users[n].status = "suspended"

Creatable(n) == n \in Names \ Used /\ ~Alike(n)

(* The two reads are one step: an account that adduser makes between them  *)
(* ends the process as it would have before them, or as CreateUser will.   *)
Look ==
  /\ proc = "looking"
  /\ Moves("looking", CASE Recoverable(wanted) -> "first"
                        [] Creatable(wanted) -> "creating"
                        [] OTHER -> "down")
  /\ UNCHANGED <<users, wanted>>

(* CreateUser, which fails if adduser was faster.                          *)
Create ==
  /\ \/ Insert(wanted, "admin", "env") /\ Moves("creating", "serving")
     \/ wanted \in Used /\ Moves("creating", "down") /\ UNCHANGED users
  /\ UNCHANGED wanted

(* Mutant of Recovery: the ban is lifted first.                            *)
RecoveryUnbansFirst == <<"unban", "password">>

(* The two statements of a recovery, in their order.                       *)
Recovery == <<"password", "unban">>

Recover ==
  /\ \E i \in 1 .. 2 :
       /\ Moves(<<"first", "second">>[i], <<"second", "serving">>[i])
       /\ \/ Recovery[i] = "password" /\ SetPassword(wanted, "env")
          \/ Recovery[i] = "unban" /\ UnbanUser(wanted)
  /\ UNCHANGED wanted

(* The server is killed, or stopped.                                       *)
Crash ==
  /\ proc # "down"
  /\ proc' = "down"
  /\ \/ proc = "serving" /\ UNCHANGED crashes
     \/ proc # "serving" /\ crashes < MaxCrashes /\ crashes' = crashes + 1
  /\ UNCHANGED <<users, wanted>>

(* adduser, before the listeners open (afterwards it is like CREATE USER). *)
AddUser(n, role) ==
  /\ proc # "serving"
  /\ n \in Added
  /\ Insert(n, role, "own")
  /\ UNCHANGED <<proc, wanted, crashes>>

(* The time of a ban runs out.                                             *)
Lapse(n) ==
  /\ n \in Used
  /\ users[n].ban = "timed"
  /\ users' = [users EXCEPT ![n].ban = "over"]
  /\ UNCHANGED <<proc, wanted, crashes>>

Boot == Count \/ Look \/ Create \/ Recover

-----------------------------------------------------------------------------
(* A server that was told of an administrator does not serve without one   *)
(* who can log in (bootstrapAdminAccount).                                 *)
ServesWithAdmin == proc = "serving" /\ wanted # Nobody => UsableAdmins # {}

(* No recovered account is active again with a password that was lost:     *)
(* wherever the server is killed, the next start goes on                   *)
(* (bootstrapAdminAccount: SetPassword, then UnbanUser).                   *)
BackWithPassword ==
  \A n \in Used :
    /\ proc # "serving"
    /\ users[n].status = "suspended"
    /\ users'[n].status = "active"
    => users'[n].pw = "env"

(* BackWithPassword of every step.                                         *)
RecoveredWithPassword == [][BackWithPassword]_bootVars

(* No administrator can log in, and the operator names an account that is  *)
(* banned for good (B), or a free name.                                    *)
Helpless(B) ==
  /\ UsableAdmins = {}
  /\ wanted # Nobody
  /\ IF B THEN Recoverable(wanted) /\ users[wanted].ban = "forever"
     ELSE Creatable(wanted)

(* The operator can then log in with the password of the environment       *)
(* (bootstrapAdminAccount), however often the server is killed on the way, *)
(* unless adduser makes an administrator or takes the free name meanwhile. *)
OperatorGetsIn ==
  /\ Helpless(TRUE) ~>
       \/ UsableAdmin(wanted) /\ users[wanted].pw = "env"
       \/ UsableAdmins \ {wanted} # {}
  /\ Helpless(FALSE) ~> UsableAdmins # {} \/ ~Creatable(wanted)

=============================================================================

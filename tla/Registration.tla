---------------------------- MODULE Registration ----------------------------
(***************************************************************************)
(* Self-registration: the form of user "new" (internal/registration/app.go)*)
(* over the users and invites tables, with the commands an administrator   *)
(* may run meanwhile (internal/lobby/commands.go), the purge of expired    *)
(* requests and crashes of the server (cmd/server/main.go).                *)
(*                                                                         *)
(* finalise is a sequence of SQL statements without a transaction around   *)
(* it.  It names the account by its username, never by its identifier, so  *)
(* what happens to the name between two statements happens to it.          *)
(***************************************************************************)
EXTENDS Accounts

CONSTANTS
  Applicants,     \* the sessions of user "new"
  Nothing,        \* what was not entered; who made what no applicant made
  Codes,          \* the invite codes an administrator may mint
  MaxUses,        \* bound: uses of a code
  Ruled,          \* bound: the names that DENY, DELETE USER or BAN are used on
  Modes,          \* the values of REGISTRATION_MODE to look at
  AdminDoes       \* the commands that administrators run in this instance

ASSUME RegistrationAssumption ==
  /\ IsFiniteSet(Applicants)
  /\ Nothing \notin Applicants \union Names \union Codes
  /\ MaxUses \in Nat \ {0}
  /\ Ruled \subseteq Names
  /\ Modes \subseteq {"closed", "invite-only", "open-with-approval"}
  /\ AdminDoes \subseteq {"create", "approve", "deny", "delete", "ban"}

VARIABLES
  up,         \* whether the server runs
  mode,       \* REGISTRATION_MODE
  uses,       \* uses_remaining of each code
  expires,    \* expires_at of each code; 0 if there is no such code
  step,       \* where each applicant is
  name,       \* the username each applicant asks for
  code,       \* the code each applicant gave, once it gave one
  maker,      \* (history) the applicant at work who inserted the row of each name
  granted,    \* (history) the names that an admin or an invite let in
  minted,     \* (history) the uses each code was created with
  ruled       \* (history) the names that DENY, DELETE USER or BAN was used on

formVars == <<step, name, code>>
history == <<maker, granted, minted, ruled>>
serverVars == <<up, mode>>
vars == <<storeVars, serverVars, uses, expires, formVars, history>>

(***************************************************************************)
(* The form takes a username ("form") and a code or an email ("named"),    *)
(* then a password, twice ("ready").  finalise frees the name ("freed"),   *)
(* inserts the account ("made"), spends the invite ("paid") or fails to    *)
(* ("unpaid"), and tells the applicant the account is active ("told") or   *)
(* requested ("asked").  An applicant may leave, or the server crash       *)
(* ("gone").                                                               *)
(***************************************************************************)
Steps == {"form", "named", "ready", "freed", "made", "paid", "unpaid",
          "told", "asked", "gone"}

Finalising == {"freed", "made", "paid", "unpaid"}

(* The tables and the forms are in range; no code has a negative number of *)
(* uses left (ValidateAndConsumeInvite).                                   *)
TypeOK ==
  /\ StoreTypeOK
  /\ up \in BOOLEAN
  /\ mode \in Modes
  /\ uses \in [Codes -> 0 .. MaxUses]
  /\ expires \in [Codes -> 0 .. Never]
  /\ step \in [Applicants -> Steps]
  /\ name \in [Applicants -> Names \union {Nothing}]
  /\ code \in [Applicants -> Codes \union {Nothing}]
  /\ maker \in [Names -> Applicants \union {Nothing}]
  /\ granted \subseteq Names
  /\ minted \in [Codes -> 0 .. MaxUses]
  /\ ruled \subseteq Names

Init ==
  /\ StoreInit
  /\ up = TRUE
  /\ mode \in Modes
  /\ uses = [c \in Codes |-> 0]
  /\ expires = [c \in Codes |-> 0]
  /\ step = [a \in Applicants |-> "form"]
  /\ name = [a \in Applicants |-> Nothing]
  /\ code = [a \in Applicants |-> Nothing]
  /\ minted = [c \in Codes |-> 0]
  /\ maker = [n \in Names |-> Nothing]
  /\ granted = Admins
  /\ ruled = {}

-----------------------------------------------------------------------------
(* ValidateInvite, and the check inside ValidateAndConsumeInvite; the year *)
(* of NeverExpires is never past.                                          *)
Valid(c) ==
  /\ expires[c] # 0
  /\ uses[c] > 0
  /\ expires[c] = Never \/ now <= expires[c]

Goes(a, from, to) ==
  /\ up
  /\ step[a] = from
  /\ step' = [step EXCEPT ![a] = to]

(* submit.                                                                 *)
EnterUsername(a) ==
  /\ mode # "closed"
  /\ Goes(a, "form", "named")
  /\ \E n \in Names \ (Used \union Admins) : name' = [name EXCEPT ![a] = n]
  /\ UNCHANGED <<storeVars, serverVars, uses, expires, code, history>>

EnterCode(a) ==
  /\ mode = "invite-only"
  /\ Goes(a, "named", "ready")
  /\ \E c \in Codes : Valid(c) /\ code' = [code EXCEPT ![a] = c]
  /\ UNCHANGED <<storeVars, serverVars, uses, expires, name, history>>

EnterEmail(a) ==
  /\ mode = "open-with-approval"
  /\ Goes(a, "named", "ready")
  /\ UNCHANGED <<storeVars, serverVars, uses, expires, name, code, history>>

(* What these applicants entered is of no use any more.                    *)
Forgets(A) ==
  /\ name' = [a \in Applicants |-> IF a \in A THEN Nothing ELSE name[a]]
  /\ code' = [a \in Applicants |-> IF a \in A THEN Nothing ELSE code[a]]
  /\ maker' = [n \in Names |-> IF maker[n] \in A THEN Nothing ELSE maker[n]]

(* The sessions of these applicants end, and their forms with them.        *)
Gone(A) ==
  /\ step' = [a \in Applicants |-> IF a \in A THEN "gone" ELSE step[a]]
  /\ Forgets(A)

(* Back to stateUsername, where everything is entered anew.                *)
Restarts(a, from) ==
  /\ Goes(a, from, "form")
  /\ Forgets({a})

(* The applicant disconnects; what finalise has begun it finishes.         *)
Leave(a) ==
  /\ up
  /\ step[a] \in {"form", "named", "ready"}
  /\ Gone({a})
  /\ UNCHANGED <<storeVars, serverVars, uses, expires, granted, minted, ruled>>

(* finalise: CreatePendingAccount, in its two statements.  Any statement   *)
(* of finalise may fail, and then changes nothing; whether the name could  *)
(* be freed is not looked at.                                              *)
FreeTheName(a) ==
  /\ Goes(a, "ready", "freed")
  /\ FreeName(name[a]) \/ UNCHANGED storeVars
  /\ UNCHANGED <<serverVars, uses, expires, name, code, history>>

(* Mutant of MakeAccount: the error of the insertion is not looked at.     *)
MakeAccountAnyhow(a) ==
  \/ /\ Goes(a, "freed", "made")
     /\ InsertPending(name[a])
     /\ maker' = [maker EXCEPT ![name[a]] = a]
     /\ granted' = granted \ {name[a]}
     /\ UNCHANGED <<serverVars, uses, expires, name, code, minted, ruled>>
  \/ /\ Goes(a, "freed", "made")
     /\ UNCHANGED <<storeVars, serverVars, uses, expires, name, code, history>>

(* The new row is read back; if that fails, the row stays where it is and  *)
(* the applicant starts again, as after a failed insertion.                *)
MakeAccount(a) ==
  /\ \/ /\ InsertPending(name[a])
        /\ granted' = granted \ {name[a]}
        /\ \/ /\ Goes(a, "freed", "made")
              /\ maker' = [maker EXCEPT ![name[a]] = a]
              /\ UNCHANGED <<name, code>>
           \/ Restarts(a, "freed")
     \/ /\ Restarts(a, "freed")
        /\ UNCHANGED <<storeVars, granted>>
  /\ UNCHANGED <<serverVars, uses, expires, minted, ruled>>

(* Mutant of SpendInvite: what was validated at the form is believed.      *)
SpendNothing(a) ==
  /\ mode = "invite-only"
  /\ Goes(a, "made", "paid")
  /\ UNCHANGED <<storeVars, serverVars, uses, expires, name, code, history>>

(* Mutant of SpendInvite: what was validated at the form is spent.         *)
SpendUnchecked(a) ==
  /\ mode = "invite-only"
  /\ Goes(a, "made", "paid")
  /\ uses' = [uses EXCEPT ![code[a]] = @ - 1]
  /\ UNCHANGED <<storeVars, serverVars, expires, name, code, history>>

(* ValidateAndConsumeInvite, one transaction.  It fails if the code is not *)
(* valid any more, or another one wants to write meanwhile.                *)
SpendInvite(a) ==
  /\ mode = "invite-only"
  /\ \/ /\ Goes(a, "made", "paid")
        /\ Valid(code[a])
        /\ uses' = [uses EXCEPT ![code[a]] = @ - 1]
     \/ /\ Goes(a, "made", "unpaid")
        /\ UNCHANGED uses
  /\ UNCHANGED <<storeVars, serverVars, expires, name, code, history>>

(* Whether the row could be deleted is not looked at either.               *)
RollBack(a) ==
  /\ Restarts(a, "unpaid")
  /\ RejectPendingAccount(name[a]) \/ UNCHANGED storeVars
  /\ UNCHANGED <<serverVars, uses, expires, granted, minted, ruled>>

(* Or the applicant is told that the activation failed, and may only leave.*)
Activate(a) ==
  /\ \/ /\ Goes(a, "paid", "told")
        /\ ActivateAccount(name[a])
        /\ granted' = granted \union {name[a]}
        /\ UNCHANGED <<name, code, maker>>
     \/ /\ up
        /\ step[a] = "paid"
        /\ Gone({a})
        /\ UNCHANGED <<storeVars, granted>>
  /\ UNCHANGED <<serverVars, uses, expires, minted, ruled>>

(* NotifyAdmins changes nothing here: an administrator who misses it finds *)
(* the request by LIST PENDING.                                            *)
AskAdmins(a) ==
  /\ mode = "open-with-approval"
  /\ Goes(a, "made", "asked")
  /\ UNCHANGED <<storeVars, serverVars, uses, expires, name, code, history>>

Register(a) ==
  \/ EnterUsername(a) \/ EnterCode(a) \/ EnterEmail(a) \/ Leave(a)
  \/ FreeTheName(a) \/ MakeAccount(a)
  \/ SpendInvite(a) \/ RollBack(a) \/ Activate(a) \/ AskAdmins(a)

-----------------------------------------------------------------------------
(* What administrators do meanwhile.                                       *)
(* Bound: an invite or a ban lasts until the next tick or has no end.      *)
Ends == {now + 1, Never}

Command(kind) ==
  /\ up
  /\ kind \in AdminDoes
  /\ UNCHANGED <<serverVars, formVars>>

(* Bound: invites are minted only where somebody asks for one.             *)
InviteCreate(c) ==
  /\ up
  /\ mode = "invite-only"
  /\ expires[c] = 0
  /\ \E k \in 1 .. MaxUses :
       uses' = [uses EXCEPT ![c] = k] /\ minted' = [minted EXCEPT ![c] = k]
  /\ \E t \in Ends : expires' = [expires EXCEPT ![c] = t]
  /\ UNCHANGED <<storeVars, serverVars, formVars, maker, granted, ruled>>

Create(n) ==
  /\ Command("create")
  /\ CreateUser(n, "user")
  /\ maker' = [maker EXCEPT ![n] = Nothing]
  /\ granted' = granted \union {n}
  /\ UNCHANGED <<uses, expires, minted, ruled>>

Approve(n) ==
  /\ Command("approve")
  /\ ApprovePendingAccount(n)
  /\ granted' = granted \union {n}
  /\ UNCHANGED <<uses, expires, maker, minted, ruled>>

Rules(n) ==
  /\ n \in Ruled
  /\ ruled' = ruled \union {n}
  /\ UNCHANGED <<maker, minted>>

Deny(n) ==
  /\ Command("deny")
  /\ n \in Pending
  /\ RejectPendingAccount(n)
  /\ Rules(n)
  /\ UNCHANGED <<uses, expires, granted>>

Remove(n) ==
  /\ Command("delete")
  /\ DeleteUser(n)
  /\ Rules(n)
  /\ UNCHANGED <<uses, expires, granted>>

(* BAN does not look at the status; a login attempt lifts a ban that has   *)
(* run out.  A request that is banned becomes an account when the ban ends:*)
(* BAN counts as letting it in.                                            *)
Ban(n) ==
  /\ Command("ban")
  /\ \E until \in Ends : BanUser(n, until)
  /\ Rules(n)
  /\ granted' = granted \union {n}
  /\ UNCHANGED <<uses, expires>>

Unban(n) ==
  /\ Command("ban")
  /\ \/ UnbanUser(n)
     \/ n \in Used /\ Lapsed(n) /\ CheckAndLiftExpiredBan(users[n].id)
  /\ UNCHANGED <<uses, expires, history>>

-----------------------------------------------------------------------------
(* The server's own doing.                                                 *)
Purge ==
  /\ up
  /\ Expired # {}
  /\ PurgeExpiredPendingAccounts
  /\ UNCHANGED <<serverVars, uses, expires, formVars, history>>

(* Whoever is at the form goes; whoever has not come yet may come later.   *)
Crash ==
  /\ up
  /\ up' = FALSE
  /\ Gone({a \in Applicants : step[a] \notin {"told", "asked"} /\ name[a] # Nothing})
  /\ UNCHANGED <<storeVars, mode, uses, expires, granted, minted, ruled>>

(* Mutant of Start: the purge is left to the ticker.                       *)
StartUnswept ==
  /\ ~up
  /\ up' = TRUE
  /\ UNCHANGED <<storeVars, mode, uses, expires, formVars, history>>

(* main purges before it listens.  The mode is the same in every life of   *)
(* the server.                                                             *)
Start ==
  /\ ~up
  /\ up' = TRUE
  /\ PurgeExpiredPendingAccounts
  /\ UNCHANGED <<mode, uses, expires, formVars, history>>

(* Assumption: finalise does not take as long as a request may stay        *)
(* pending (days): the clock does not expire what is being made.           *)
Clock ==
  /\ Tick
  /\ \A a \in Applicants :
       step[a] \in Finalising /\ name[a] \in Pending /\ maker[name[a]] = a =>
         users[name[a]].created + ExpiryTicks > now
  /\ UNCHANGED <<serverVars, uses, expires, formVars, history>>

Next ==
  \/ \E a \in Applicants : Register(a)
  \/ \E c \in Codes : InviteCreate(c)
  \/ \E n \in Names \ Admins :
       Create(n) \/ Approve(n) \/ Deny(n) \/ Remove(n) \/ Ban(n) \/ Unban(n)
  \/ Purge
  \/ Crash
  \/ Start
  \/ Clock

Spec == Init /\ [][Next]_vars

(* The ticker of main goes on while the server runs, and the operator      *)
(* starts it again.                                                        *)
FairSpec == Spec /\ WF_vars(Purge) /\ WF_vars(Start)

-----------------------------------------------------------------------------
(* A use is spent once: what is left of a code and the applicants who got  *)
(* in on it never exceed what was minted, however many validated it while  *)
(* it had a use left (ValidateAndConsumeInvite).                           *)
UsesAreSpentOnce ==
  \A c \in Codes :
    uses[c] + Cardinality({a \in Applicants : step[a] \in {"paid", "told"} /\ code[a] = c})
      <= minted[c]

(* An applicant who was told that the account is active can log in with    *)
(* the password it chose, unless an administrator denied, deleted or banned*)
(* it: the row is its own, and active (finalise).                          *)
ToldIsTrue ==
  \A a \in Applicants :
    step[a] = "told" /\ name[a] \notin ruled =>
      /\ name[a] \in Used
      /\ users[name[a]].status = "active"
      /\ maker[name[a]] = a

(* Rolling back, freeing a name, purging and denying never remove an       *)
(* account that is active: between the statements of finalise an account   *)
(* may have been approved, and its name may belong to somebody else.       *)
ActiveSurvives ==
  [][\A n \in Used :
       users[n].status = "active" /\ ~(\E m \in Names : Remove(m)) =>
         n \in Used' /\ users'[n].id = users[n].id]_vars

(* Nobody is let in whom neither an administrator's command nor an invite  *)
(* let in.                                                                 *)
NobodyUninvited == \A n \in Used : users[n].status = "active" => n \in granted

(* A request nobody decides on does not keep its name for ever, across any *)
(* number of crashes: purged at startup, then by the ticker.               *)
NamesAreFreed == \A n \in Names : n \in Expired ~> n \notin Expired

=============================================================================

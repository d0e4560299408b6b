---------------------------- MODULE Connections -----------------------------
(***************************************************************************)
(* The life of an SSH connection (cmd/server/main.go): the timer that      *)
(* closes those who do not authenticate, the password handlers,            *)
(* sessionMiddleware and teaHandler, with the password change that is      *)
(* forced after EXPIRE PASSWORD (setpassword/forced.go) and the commands   *)
(* that change passwords (lobby/commands.go), composed with the start of   *)
(* the server.                                                             *)
(*                                                                         *)
(* Whether a password is right is left open: it was typed by a person.     *)
(* Lockouts, bans and KICK are in Logins, calls in CallService.            *)
(***************************************************************************)
EXTENDS Bootstrap

CONSTANTS
  Conns,        \* connections
  New           \* the user name "new" of self-registration

ASSUME ConnectionAssumption == New \notin Names \union {Nobody}

VARIABLES
  stage,      \* where each connection is
  who,        \* the user name it gave
  copy,       \* what its handlers have read of the row: role and must
  timer,      \* the goroutine of preAuthTimeout
  target,     \* the account whose password a session is about to store
  owes,       \* (history) the accounts expired and not changed since
  owed        \* (history) whether its account owed a change, when the
              \* middleware of a connection read the row

connVars == <<stage, who, copy, timer, target, owed>>
vars == <<bootVars, connVars, owes>>

(***************************************************************************)
(* "none"; "open": connected; "checking": the password handler has read    *)
(* the row; "accepted": authenticated; "form": authenticated as New;       *)
(* "found": sessionMiddleware has read the row; "lobby"; "storing": in SET *)
(* PASSWORD or RESET PASSWORD, everything typed; "forced": in the forced   *)
(* change; "changed": told to reconnect.                                   *)
(***************************************************************************)
Accepted == {"accepted", "form", "found", "lobby", "storing", "forced", "changed"}
Stages == {"none", "open", "checking"} \union Accepted

Copy == [role : {"none", "user", "admin"}, must : BOOLEAN]
NoCopy == [role |-> "none", must |-> FALSE]

(***************************************************************************)
(* A goroutine that waits ("armed") is woken by what happens first: the    *)
(* signal of completeAuth ("stopped") or the timer ("expired"), on which   *)
(* it closes the connection when it runs.                                  *)
(***************************************************************************)
Timers == {"off", "armed", "stopped", "expired"}

(* The table, the server and the connections are in range, and nobody is   *)
(* connected while it does not serve (main).                               *)
TypeOK ==
  /\ BootTypeOK
  /\ stage \in [Conns -> Stages]
  /\ who \in [Conns -> Names \union {New, Nobody}]
  /\ copy \in [Conns -> Copy]
  /\ timer \in [Conns -> Timers]
  /\ target \in [Conns -> Names \union {Nobody}]
  /\ owed \in [Conns -> BOOLEAN]
  /\ owes \subseteq Names
  /\ \A k \in Conns : stage[k] # "none" => proc = "serving"

Init ==
  /\ BootInit
  /\ stage = [k \in Conns |-> "none"]
  /\ who = [k \in Conns |-> Nobody]
  /\ copy = [k \in Conns |-> NoCopy]
  /\ timer = [k \in Conns |-> "off"]
  /\ target = [k \in Conns |-> Nobody]
  /\ owed = [k \in Conns |-> FALSE]
  /\ owes = {}

-----------------------------------------------------------------------------
Goes(k, from, to) ==
  /\ stage[k] = from
  /\ stage' = [stage EXCEPT ![k] = to]

Reads(k, n) ==
  copy' = [copy EXCEPT ![k] = [role |-> users[n].role, must |-> users[n].must]]

(* The connections in K end, and their goroutines with them (ctx.Done).    *)
End(K) ==
  /\ stage' = [k \in Conns |-> IF k \in K THEN "none" ELSE stage[k]]
  /\ who' = [k \in Conns |-> IF k \in K THEN Nobody ELSE who[k]]
  /\ copy' = [k \in Conns |-> IF k \in K THEN NoCopy ELSE copy[k]]
  /\ timer' = [k \in Conns |-> IF k \in K THEN "off" ELSE timer[k]]
  /\ target' = [k \in Conns |-> IF k \in K THEN Nobody ELSE target[k]]
  /\ owed' = [k \in Conns |-> IF k \in K THEN FALSE ELSE owed[k]]

(* ConnCallback, before the handshake.                                     *)
Connect(k) ==
  /\ proc = "serving"
  /\ Goes(k, "none", "open")
  /\ timer' = [timer EXCEPT ![k] = "armed"]
  /\ UNCHANGED <<bootVars, who, copy, target, owed, owes>>

(* The password handlers, up to the password.  An account that is not      *)
(* active is refused; a ban that has run out is lifted first.              *)
Knock(k, n) ==
  /\ n \in Used
  /\ Goes(k, "open", "checking")
  /\ \/ users[n].status = "active" /\ UNCHANGED users
     \/ users[n].ban = "over" /\ UnbanUser(n)
  /\ who' = [who EXCEPT ![k] = n]
  /\ Reads(k, n)
  /\ UNCHANGED <<proc, wanted, crashes, timer, target, owed, owes>>

(* close(authDone), if the goroutine still waits.                          *)
StopTimer(k) ==
  timer' = [timer EXCEPT ![k] = IF @ = "armed" THEN "stopped" ELSE @]

(* Mutant of Wrong: the signal is given whatever the verdict.              *)
WrongStops(k) ==
  /\ Goes(k, "checking", "open")
  /\ StopTimer(k)
  /\ UNCHANGED <<bootVars, who, copy, target, owed, owes>>

(* A wrong password; ssh lets the client try again.                        *)
Wrong(k) ==
  /\ Goes(k, "checking", "open")
  /\ UNCHANGED <<bootVars, who, copy, timer, target, owed, owes>>

(* Mutant of Accept: no signal for the goroutine.                          *)
AcceptSilently(k) ==
  /\ Goes(k, "checking", "accepted")
  /\ UNCHANGED <<bootVars, who, copy, timer, target, owed, owes>>

(* completeAuth with the right password.                                   *)
Accept(k) ==
  /\ Goes(k, "checking", "accepted")
  /\ StopTimer(k)
  /\ UNCHANGED <<bootVars, who, copy, target, owed, owes>>

(* User "new" is accepted without completeAuth.                            *)
AcceptNew(k) ==
  /\ Goes(k, "open", "form")
  /\ who' = [who EXCEPT ![k] = New]
  /\ UNCHANGED <<bootVars, copy, timer, target, owed, owes>>

(* Mutant of Find: the flag is the one that the password handler read.     *)
FindStale(k) ==
  /\ Goes(k, "accepted", "found")
  /\ owed' = [owed EXCEPT ![k] = who[k] \in owes]
  /\ UNCHANGED <<bootVars, who, copy, timer, target, owes>>

(* sessionMiddleware reads the row anew.                                   *)
Find(k) ==
  /\ Goes(k, "accepted", "found")
  /\ Reads(k, who[k])
  /\ owed' = [owed EXCEPT ![k] = who[k] \in owes]
  /\ UNCHANGED <<bootVars, who, timer, target, owes>>

(* teaHandler, the last to look at the flag.                               *)
Enter(k) ==
  /\ Goes(k, "found", IF copy[k].must THEN "forced" ELSE "lobby")
  /\ copy' = [copy EXCEPT ![k].must = FALSE]
  /\ UNCHANGED <<bootVars, who, timer, target, owed, owes>>

(* The client goes, or the session ends.                                   *)
Disconnect(k) ==
  /\ stage[k] # "none"
  /\ End({k})
  /\ UNCHANGED <<bootVars, owes>>

TimerExpires(k) ==
  /\ timer[k] = "armed"
  /\ timer' = [timer EXCEPT ![k] = "expired"]
  /\ UNCHANGED <<bootVars, stage, who, copy, target, owed, owes>>

TimerCloses(k) ==
  /\ timer[k] = "expired"
  /\ End({k})
  /\ UNCHANGED <<bootVars, owes>>

-----------------------------------------------------------------------------
(* Passwords.                                                              *)
ByAdmin(k) == stage[k] = "lobby" /\ copy[k].role = "admin"

(* SET PASSWORD for oneself, RESET PASSWORD for another.                   *)
OpenPrompt(k, n) ==
  /\ Goes(k, "lobby", "storing")
  /\ n = who[k] \/ ByAdmin(k)
  /\ n \in Used
  /\ target' = [target EXCEPT ![k] = n]
  /\ UNCHANGED <<bootVars, who, copy, timer, owed, owes>>

Stores(n) ==
  /\ SetPassword(n, "own")
  /\ owes' = owes \ {n}
  /\ UNCHANGED <<proc, wanted, crashes>>

(* finalise, or the prompt is left.                                        *)
ClosePrompt(k) ==
  /\ Goes(k, "storing", "lobby")
  /\ Stores(target[k]) \/ UNCHANGED <<bootVars, owes>>
  /\ target' = [target EXCEPT ![k] = Nobody]
  /\ UNCHANGED <<who, copy, timer, owed>>

(* ForcedModel has no way into the lobby.                                  *)
ForcedChange(k) ==
  /\ Goes(k, "forced", "changed")
  /\ Stores(who[k])
  /\ UNCHANGED <<who, copy, timer, target, owed>>

(* EXPIRE PASSWORD                                                         *)
Expire(k, n) ==
  /\ ByAdmin(k)
  /\ n \in Used
  /\ users' = [users EXCEPT ![n].must = TRUE]
  /\ owes' = owes \union {n}
  /\ UNCHANGED <<proc, wanted, crashes, connVars>>

-----------------------------------------------------------------------------
Booting(A) == A /\ UNCHANGED <<connVars, owes>>

Crashing == Crash /\ End(Conns) /\ UNCHANGED owes

Next ==
  \/ Booting(Start)
  \/ Booting(Boot)
  \/ \E n \in Names : Booting(Lapse(n))
  \/ \E n \in Names, r \in {"user", "admin"} : Booting(AddUser(n, r))
  \/ Crashing
  \/ \E k \in Conns :
       \/ Connect(k) \/ Wrong(k) \/ Accept(k) \/ AcceptNew(k) \/ Find(k) \/ Enter(k)
       \/ Disconnect(k) \/ TimerExpires(k) \/ TimerCloses(k)
       \/ ClosePrompt(k) \/ ForcedChange(k)
       \/ \E n \in Names : Knock(k, n) \/ OpenPrompt(k, n) \/ Expire(k, n)

Spec == Init /\ [][Next]_vars

(***************************************************************************)
(* The process goes on and is started again when it ends; timers run out,  *)
(* and the goroutine that one has woken runs.  Clients owe nothing.        *)
(***************************************************************************)
FairSpec ==
  /\ Spec
  /\ WF_vars(Booting(Start))
  /\ WF_vars(Booting(Boot))
  /\ \A k \in Conns : WF_vars(TimerExpires(k)) /\ WF_vars(TimerCloses(k))

-----------------------------------------------------------------------------
(* Who does not authenticate is closed (preAuthTimeout), however many      *)
(* passwords are tried.                                                    *)
IdlersAreClosed ==
  \A k \in Conns : stage[k] \in {"open", "checking"} ~> stage[k] \notin {"open", "checking"}

(* The timer runs out on connections that have not authenticated only      *)
(* (preAuthTimeout: no timeout from there), those of an account at least.  *)
TimerSparesAccounts ==
  [][\A k \in Conns : TimerExpires(k) /\ who[k] # New => stage[k] \notin Accepted]_vars

(* TimerSparesAccounts of everybody who is accepted.                       *)
TimerIsPreAuthOnly ==
  [][\A k \in Conns : TimerExpires(k) => stage[k] \notin Accepted]_vars

(* Nobody gets into the lobby with an account that owes a password change, *)
(* unless EXPIRE PASSWORD came after the middleware had looked: not with a *)
(* login that was accepted before, nor with a prompt that was open.        *)
ExpireHolds ==
  \A k \in Conns : stage[k] \in {"lobby", "storing"} => ~owed[k]

=============================================================================

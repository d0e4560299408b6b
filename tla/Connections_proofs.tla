------------------------- MODULE Connections_proofs -------------------------
(***************************************************************************)
(* Theorems about the start of the server and about connections, for any   *)
(* accounts, first tables and number of connections.                       *)
(***************************************************************************)
EXTENDS Connections, TLAPS

-----------------------------------------------------------------------------
(* The statements on the users table.                                      *)
LEMMA UsedIsRow ==
  ASSUME BootTypeOK, NEW n \in Used
  PROVE  n \in Names /\ users[n] \in Row
BY BootAssumption DEF BootTypeOK, Used

LEMMA InsertKeeps ==
  ASSUME BootTypeOK, NEW n \in Names, NEW role \in {"user", "admin"},
         NEW pw \in {"own", "env"}, Insert(n, role, pw)
  PROVE  /\ users' \in [Names -> Row \union {NoRow}]
         /\ n \notin Used
         /\ users'[n] = [role |-> role, status |-> "active", ban |-> "none",
                         pw |-> pw, must |-> FALSE]
         /\ users'[n] # NoRow
         /\ \A m \in Names \ {n} : users'[m] = users[m]
<1> DEFINE row == [role |-> role, status |-> "active", ban |-> "none", pw |-> pw, must |-> FALSE]
<1>1. n \notin Used /\ users' = [users EXCEPT ![n] = row]
  BY DEF Insert
<1>2. row \in Row
  BY DEF Row
<1>3. row # NoRow
  BY <1>2, BootAssumption
<1> HIDE DEF row
<1>4. /\ users' \in [Names -> Row \union {NoRow}]
      /\ users'[n] = row
      /\ \A m \in Names \ {n} : users'[m] = users[m]
  BY <1>1, <1>2 DEF BootTypeOK
<1> QED BY <1>1, <1>3, <1>4 DEF row

LEMMA SetPasswordKeeps ==
  ASSUME BootTypeOK, NEW n \in Used, NEW pw \in {"own", "env"}, SetPassword(n, pw)
  PROVE  /\ users' \in [Names -> Row \union {NoRow}]
         /\ users'[n] = [users[n] EXCEPT !.pw = pw, !.must = FALSE]
         /\ users'[n] \in Row
         /\ \A m \in Names \ {n} : users'[m] = users[m]
<1>1. n \in Names /\ users[n] \in Row
  BY UsedIsRow
<1>2. users' = [users EXCEPT ![n] = [users[n] EXCEPT !.pw = pw, !.must = FALSE]]
  BY <1>1 DEF SetPassword, BootTypeOK
<1>3. [users[n] EXCEPT !.pw = pw, !.must = FALSE] \in Row
  BY <1>1 DEF Row
<1> QED BY <1>1, <1>2, <1>3 DEF BootTypeOK

LEMMA UnbanKeeps ==
  ASSUME BootTypeOK, NEW n \in Used, UnbanUser(n)
  PROVE  /\ users' \in [Names -> Row \union {NoRow}]
         /\ users'[n] = [users[n] EXCEPT !.status = "active", !.ban = "none"]
         /\ users'[n] \in Row
         /\ \A m \in Names \ {n} : users'[m] = users[m]
<1>1. n \in Names /\ users[n] \in Row
  BY UsedIsRow
<1>2. users' = [users EXCEPT ![n] = [users[n] EXCEPT !.status = "active", !.ban = "none"]]
  BY <1>1 DEF UnbanUser, BootTypeOK
<1>3. [users[n] EXCEPT !.status = "active", !.ban = "none"] \in Row
  BY <1>1 DEF Row
<1> QED BY <1>1, <1>2, <1>3 DEF BootTypeOK

(* What no step undoes: an account keeps its role, is not suspended, and   *)
(* its ban does not begin anew.                                            *)
Kept ==
  \A n \in Used :
    /\ users'[n] \in Row
    /\ users'[n].role = users[n].role
    /\ users[n].status = "active" => users'[n].status = "active"
    /\ users[n].ban = "over" => users'[n].ban = "over" \/ users'[n].status = "active"
    /\ users'[n].status \in {users[n].status, "active"}

LEMMA AdminsStay ==
  ASSUME BootTypeOK, Kept, UsableAdmins # {}
  PROVE  (UsableAdmins # {})'
<1> PICK n \in UsableAdmins : TRUE
  OBVIOUS
<1>1. n \in Used /\ n \in Names /\ users[n] \in Row
  BY UsedIsRow DEF UsableAdmins, UsableAdmin
<1>2. users'[n] # NoRow
  BY <1>1, BootAssumption DEF Kept
<1>3. UsableAdmin(n)'
  BY <1>1, <1>2 DEF UsableAdmins, UsableAdmin, Kept, Used, Row
<1> QED BY <1>1, <1>3 DEF UsableAdmins

(* A new row for an account that keeps to that.                            *)
LEMMA RowKept ==
  ASSUME BootTypeOK, NEW n \in Used, NEW row \in Row, users' = [users EXCEPT ![n] = row],
         row.role = users[n].role, row.status \in {users[n].status, "active"},
         users[n].ban = "over" => row.ban = "over" \/ row.status = "active"
  PROVE  users' \in [Names -> Row \union {NoRow}] /\ Kept
<1>1. n \in Names
  BY UsedIsRow
<1>2. users' \in [Names -> Row \union {NoRow}]
  BY <1>1 DEF BootTypeOK
<1>3. users'[n] = row /\ \A m \in Names \ {n} : users'[m] = users[m]
  BY <1>1 DEF BootTypeOK
<1>4. \A m \in Used : m # n => m \in Names /\ users[m] \in Row /\ users'[m] = users[m]
  BY <1>3, UsedIsRow
<1> QED BY <1>2, <1>3, <1>4 DEF Kept

(* A step of the table.                                                    *)
TableStep ==
  \/ UNCHANGED users
  \/ \E n \in Names, r \in {"user", "admin"}, pw \in {"own", "env"} : Insert(n, r, pw)
  \/ \E n \in Used, pw \in {"own", "env"} : SetPassword(n, pw)
  \/ \E n \in Used : UnbanUser(n)
  \/ \E n \in Used : users[n].ban = "timed" /\ users' = [users EXCEPT ![n].ban = "over"]
  \/ \E n \in Used : users' = [users EXCEPT ![n].must = TRUE]

LEMMA TableSteps ==
  ASSUME BootTypeOK, TableStep
  PROVE  /\ users' \in [Names -> Row \union {NoRow}]
         /\ Kept
         /\ Used \subseteq Used'
<1> SUFFICES users' \in [Names -> Row \union {NoRow}] /\ Kept
  BY UsedIsRow, BootAssumption DEF Kept, Used
<1>1. CASE UNCHANGED users
  BY <1>1, UsedIsRow DEF BootTypeOK, Kept
<1>2. ASSUME NEW n \in Names, NEW r \in {"user", "admin"}, NEW pw \in {"own", "env"},
             Insert(n, r, pw)
      PROVE  users' \in [Names -> Row \union {NoRow}] /\ Kept
  BY <1>2, InsertKeeps, UsedIsRow DEF Kept
<1>3. ASSUME NEW n \in Used, NEW pw \in {"own", "env"}, SetPassword(n, pw)
      PROVE  users' \in [Names -> Row \union {NoRow}] /\ Kept
  <2> DEFINE row == [users[n] EXCEPT !.pw = pw, !.must = FALSE]
  <2>1. n \in Names /\ users[n] \in Row BY UsedIsRow
  <2>2. users' = [users EXCEPT ![n] = row] BY <1>3, <2>1 DEF SetPassword, BootTypeOK
  <2>3. /\ row \in Row /\ row.role = users[n].role
        /\ row.status = users[n].status /\ row.ban = users[n].ban
    BY <2>1 DEF Row
  <2> HIDE DEF row
  <2> QED BY <2>2, <2>3, RowKept
<1>4. ASSUME NEW n \in Used, UnbanUser(n)
      PROVE  users' \in [Names -> Row \union {NoRow}] /\ Kept
  <2> DEFINE row == [users[n] EXCEPT !.status = "active", !.ban = "none"]
  <2>1. n \in Names /\ users[n] \in Row BY UsedIsRow
  <2>2. users' = [users EXCEPT ![n] = row] BY <1>4, <2>1 DEF UnbanUser, BootTypeOK
  <2>3. row \in Row /\ row.role = users[n].role /\ row.status = "active"
    BY <2>1 DEF Row
  <2> HIDE DEF row
  <2> QED BY <2>2, <2>3, RowKept
<1>5. ASSUME NEW n \in Used, users[n].ban = "timed",
             users' = [users EXCEPT ![n].ban = "over"]
      PROVE  users' \in [Names -> Row \union {NoRow}] /\ Kept
  <2> DEFINE row == [users[n] EXCEPT !.ban = "over"]
  <2>1. n \in Names /\ users[n] \in Row BY UsedIsRow
  <2>2. users' = [users EXCEPT ![n] = row] BY <1>5, <2>1 DEF BootTypeOK
  <2>3. row \in Row /\ row.role = users[n].role /\ row.status = users[n].status /\ row.ban = "over"
    BY <2>1 DEF Row
  <2> HIDE DEF row
  <2> QED BY <2>2, <2>3, RowKept
<1>6. ASSUME NEW n \in Used, users' = [users EXCEPT ![n].must = TRUE]
      PROVE  users' \in [Names -> Row \union {NoRow}] /\ Kept
  <2> DEFINE row == [users[n] EXCEPT !.must = TRUE]
  <2>1. n \in Names /\ users[n] \in Row BY UsedIsRow
  <2>2. users' = [users EXCEPT ![n] = row] BY <1>6, <2>1 DEF BootTypeOK
  <2>3. /\ row \in Row /\ row.role = users[n].role
        /\ row.status = users[n].status /\ row.ban = users[n].ban
    BY <2>1 DEF Row
  <2> HIDE DEF row
  <2> QED BY <2>2, <2>3, RowKept
<1> QED BY <1>1, <1>2, <1>3, <1>4, <1>5, <1>6 DEF TableStep

-----------------------------------------------------------------------------
(* The inductive invariant.  While the server starts for want of an        *)
(* administrator nobody owes a change; the account being recovered is an   *)
(* administrator's and has the password of the environment before its ban  *)
(* is lifted; and whoever owes a change has the flag set.                  *)
BootInv ==
  /\ proc \in {"looking", "creating", "first", "second"} => wanted \in Names /\ owes = {}
  /\ proc \in {"first", "second"} => wanted \in Used /\ users[wanted].role = "admin"
  /\ proc = "second" => users[wanted].pw = "env"
  /\ ServesWithAdmin
  /\ owes # {} /\ wanted # Nobody => UsableAdmins # {}

OwesInv == owes \subseteq Used /\ \A n \in owes : users[n].must

(* A connection past the password has an account; what the middleware read *)
(* tells it of a change that is owed; and only a registration still has    *)
(* its timer.                                                              *)
ConnInv ==
  \A k \in Conns :
    /\ stage[k] \in (Accepted \ {"form"}) \union {"checking"} => who[k] \in Used
    /\ stage[k] = "storing" => target[k] \in Used
    /\ stage[k] = "found" /\ owed[k] => copy[k].must
    /\ stage[k] \in {"lobby", "storing"} => ~owed[k]
    /\ stage[k] \in Accepted /\ timer[k] = "armed" => who[k] = New

Inv == TypeOK /\ BootInv /\ OwesInv /\ ConnInv

LEMMA InitInv == ASSUME Init PROVE Inv
BY BootAssumption, ConnectionAssumption
   DEF Init, BootInit, Inv, TypeOK, BootTypeOK, BootInv, OwesInv, ConnInv, ServesWithAdmin,
       Starting, Stages, Accepted, Copy, NoCopy, Timers

-----------------------------------------------------------------------------
(* Steps of connections that leave the table alone.                        *)
LEMMA TableUntouched ==
  ASSUME Inv, UNCHANGED <<bootVars, owes>>
  PROVE  BootTypeOK' /\ BootInv' /\ OwesInv'
BY DEF Inv, TypeOK, bootVars, BootTypeOK, BootInv, OwesInv, ServesWithAdmin,
       UsableAdmins, UsableAdmin, Used

LEMMA EndKeeps ==
  ASSUME Inv, NEW K \in SUBSET Conns, End(K), Used \subseteq Used', UNCHANGED owes,
         BootTypeOK', proc' = proc \/ K = Conns
  PROVE  TypeOK' /\ ConnInv'
<1> USE DEF Inv, TypeOK
<1>1. /\ stage' \in [Conns -> Stages]
      /\ who' \in [Conns -> Names \union {New, Nobody}]
      /\ copy' \in [Conns -> Copy]
      /\ timer' \in [Conns -> Timers]
      /\ target' \in [Conns -> Names \union {Nobody}]
      /\ owed' \in [Conns -> BOOLEAN]
  BY DEF End, Stages, Timers, Copy, NoCopy
<1>2. \A k \in Conns : stage'[k] # "none" => k \notin K /\ stage[k] # "none"
  BY DEF End
<1>3. \A k \in Conns : stage'[k] # "none" => proc' = "serving"
  BY <1>2
<1>4. ASSUME NEW k \in Conns, stage'[k] # "none"
      PROVE  /\ stage'[k] = stage[k] /\ who'[k] = who[k] /\ copy'[k] = copy[k]
             /\ timer'[k] = timer[k] /\ target'[k] = target[k] /\ owed'[k] = owed[k]
  BY <1>2, <1>4 DEF End
<1>5. ConnInv'
  BY <1>4 DEF ConnInv, Accepted
<1> QED BY <1>1, <1>3, <1>5

LEMMA ConnectionSteps ==
  ASSUME Inv, NEW k \in Conns,
         \/ Connect(k) \/ Wrong(k) \/ Accept(k) \/ AcceptNew(k) \/ Find(k) \/ Enter(k)
         \/ TimerExpires(k) \/ \E n \in Names : OpenPrompt(k, n)
  PROVE  Inv'
<1>1. UNCHANGED <<bootVars, owes>>
  BY DEF Connect, Wrong, Accept, AcceptNew, Find, Enter, TimerExpires, OpenPrompt
<1>2. BootTypeOK' /\ BootInv' /\ OwesInv' /\ Used' = Used /\ proc' = proc
  BY <1>1, TableUntouched DEF bootVars, Used
<1> USE ConnectionAssumption DEF Inv, TypeOK, ConnInv, Goes
<1>3. SUFFICES TypeOK' /\ ConnInv'
  BY <1>2
<1>4. CASE Connect(k)
  BY <1>1, <1>2, <1>4 DEF Connect, Stages, Accepted, Timers, bootVars
<1>5. CASE Wrong(k)
  BY <1>1, <1>2, <1>5 DEF Wrong, Stages, Accepted
<1>6. CASE Accept(k)
  BY <1>1, <1>2, <1>6 DEF Accept, StopTimer, Stages, Accepted, Timers
<1>7. CASE AcceptNew(k)
  BY <1>1, <1>2, <1>7 DEF AcceptNew, Stages, Accepted
<1>8. CASE Find(k)
  BY <1>1, <1>2, <1>8, UsedIsRow DEF Find, Reads, Stages, Accepted, Copy, Row, OwesInv
<1>9. CASE Enter(k)
  BY <1>1, <1>2, <1>9, ZenonT(60) DEF Enter, Stages, Accepted, Copy
<1>10. CASE TimerExpires(k)
  BY <1>1, <1>2, <1>10 DEF TimerExpires, Stages, Accepted, Timers
<1>11. ASSUME NEW n \in Names, OpenPrompt(k, n) PROVE TypeOK' /\ ConnInv'
  BY <1>1, <1>2, <1>11 DEF OpenPrompt, Stages, Accepted
<1> QED BY <1>4, <1>5, <1>6, <1>7, <1>8, <1>9, <1>10, <1>11

LEMMA EndSteps ==
  ASSUME Inv, NEW k \in Conns, Disconnect(k) \/ TimerCloses(k)
  PROVE  Inv'
<1>1. End({k}) /\ UNCHANGED <<bootVars, owes>>
  BY DEF Disconnect, TimerCloses
<1>2. BootTypeOK' /\ BootInv' /\ OwesInv' /\ Used' = Used /\ proc' = proc
  BY <1>1, TableUntouched DEF bootVars, Used
<1> QED BY <1>1, <1>2, EndKeeps DEF Inv

-----------------------------------------------------------------------------
(* Steps of the server that serves: they write the table.                  *)
LEMMA ServingKeeps ==
  ASSUME Inv, proc = "serving", UNCHANGED <<proc, wanted, crashes>>, TableStep
  PROVE  BootTypeOK' /\ BootInv' /\ Used \subseteq Used'
<1>1. BootTypeOK' /\ Kept /\ Used \subseteq Used'
  BY TableSteps DEF Inv, TypeOK, BootTypeOK
<1>2. wanted # Nobody => (UsableAdmins # {})'
  BY <1>1, AdminsStay DEF Inv, TypeOK, BootInv, ServesWithAdmin
<1> QED BY <1>1, <1>2 DEF Inv, BootInv, ServesWithAdmin

LEMMA StoreSteps ==
  ASSUME Inv, NEW k \in Conns, NEW n \in Used, Stores(n), stage[k] # "none"
  PROVE  BootTypeOK' /\ BootInv' /\ OwesInv' /\ Used \subseteq Used'
<1>1. SetPassword(n, "own") /\ owes' = owes \ {n} /\ UNCHANGED <<proc, wanted, crashes>>
  BY DEF Stores
<1>2. BootTypeOK' /\ BootInv' /\ Used \subseteq Used'
  BY <1>1, ServingKeeps DEF TableStep, Inv, TypeOK
<1>3. \A m \in Names \ {n} : users'[m] = users[m]
  BY <1>1, SetPasswordKeeps DEF Inv, TypeOK
<1>4. OwesInv'
  BY <1>1, <1>2, <1>3 DEF Inv, TypeOK, OwesInv, Used
<1> QED BY <1>2, <1>4

LEMMA PromptSteps ==
  ASSUME Inv, NEW k \in Conns, ClosePrompt(k) \/ ForcedChange(k)
  PROVE  Inv'
<1> USE DEF Inv, TypeOK, ConnInv, Goes
<1>1. CASE ClosePrompt(k)
  <2>1. stage[k] = "storing" /\ target[k] \in Used
    BY <1>1 DEF ClosePrompt
  <2>2. BootTypeOK' /\ BootInv' /\ OwesInv' /\ Used \subseteq Used' /\ proc' = proc
    BY <1>1, <2>1, StoreSteps, TableUntouched DEF ClosePrompt, Stores, bootVars, Used
  <2>3. /\ stage' = [stage EXCEPT ![k] = "lobby"]
        /\ target' = [target EXCEPT ![k] = Nobody]
        /\ UNCHANGED <<who, copy, timer, owed>>
    BY <1>1 DEF ClosePrompt
  <2>4. ConnInv'
    BY <2>1, <2>2, <2>3 DEF Accepted
  <2>5. TypeOK'
    BY <2>1, <2>2, <2>3, UsedIsRow DEF OwesInv, Stages, Accepted, Used
  <2> QED BY <2>2, <2>4, <2>5
<1>2. CASE ForcedChange(k)
  <2>1. stage[k] = "forced" /\ who[k] \in Used
    BY <1>2 DEF ForcedChange, Accepted
  <2>2. BootTypeOK' /\ BootInv' /\ OwesInv' /\ Used \subseteq Used' /\ proc' = proc
    BY <1>2, <2>1, StoreSteps DEF ForcedChange, Stores
  <2>3. /\ stage' = [stage EXCEPT ![k] = "changed"]
        /\ UNCHANGED <<who, copy, timer, target, owed>>
    BY <1>2 DEF ForcedChange
  <2>4. ConnInv'
    BY <2>1, <2>2, <2>3 DEF Accepted
  <2>5. TypeOK'
    BY <2>1, <2>2, <2>3 DEF OwesInv, Stages, Accepted, Used
  <2> QED BY <2>2, <2>4, <2>5
<1> QED BY <1>1, <1>2

LEMMA KnockSteps ==
  ASSUME Inv, NEW k \in Conns, NEW n \in Names, Knock(k, n)
  PROVE  Inv'
<1> USE DEF Inv, TypeOK
<1>1. n \in Used /\ stage[k] = "open" /\ proc = "serving" /\ users[n] \in Row
  BY UsedIsRow DEF Knock, Goes
<1>2. TableStep
  BY <1>1 DEF Knock, TableStep
<1>3. BootTypeOK' /\ BootInv' /\ Used \subseteq Used' /\ proc' = proc
  BY <1>1, <1>2, ServingKeeps DEF Knock
<1>4. \A m \in Used : users'[m].must = users[m].must
  <2>1. CASE UNCHANGED users BY <2>1
  <2>2. CASE UnbanUser(n)
    <3>1. users'[n] = [users[n] EXCEPT !.status = "active", !.ban = "none"]
          /\ \A m \in Names \ {n} : users'[m] = users[m]
      BY <1>1, <2>2, UnbanKeeps
    <3>2. users'[n].must = users[n].must
      BY <1>1, <3>1 DEF Row
    <3> QED BY <3>1, <3>2, UsedIsRow
  <2> QED BY <2>1, <2>2 DEF Knock
<1>5. OwesInv'
  BY <1>3, <1>4 DEF OwesInv, Knock
<1>6. copy' \in [Conns -> Copy]
  BY <1>1 DEF Knock, Reads, Copy, Row
<1>7. /\ stage' = [stage EXCEPT ![k] = "checking"]
      /\ who' = [who EXCEPT ![k] = n]
      /\ \A l \in Conns \ {k} : copy'[l] = copy[l]
      /\ UNCHANGED <<timer, target, owed, owes>>
  BY DEF Knock, Goes, Reads
<1>8. ConnInv'
  BY <1>1, <1>3, <1>7 DEF ConnInv, Accepted
<1>9. TypeOK'
  BY <1>1, <1>3, <1>6, <1>7 DEF Stages
<1> QED BY <1>3, <1>5, <1>8, <1>9

LEMMA ExpireSteps ==
  ASSUME Inv, NEW k \in Conns, NEW n \in Names, Expire(k, n)
  PROVE  Inv'
<1> USE DEF Inv, TypeOK
<1>1. n \in Used /\ proc = "serving" /\ users[n] \in Row
  BY UsedIsRow DEF Expire, ByAdmin
<1>2. TableStep
  BY <1>1 DEF Expire, TableStep
<1>3. BootTypeOK' /\ BootInv' /\ Used \subseteq Used' /\ proc' = proc
  BY <1>1, <1>2, ServingKeeps DEF Expire
<1>4. users' = [users EXCEPT ![n] = [users[n] EXCEPT !.must = TRUE]]
  BY <1>1 DEF Expire, BootTypeOK
<1>5. users'[n].must /\ \A m \in Names \ {n} : users'[m] = users[m]
  BY <1>1, <1>4 DEF BootTypeOK, Row
<1>6. OwesInv' /\ owes' \subseteq Names
  BY <1>1, <1>3, <1>5, UsedIsRow DEF OwesInv, Expire
<1> QED BY <1>3, <1>6 DEF Expire, connVars, ConnInv

-----------------------------------------------------------------------------
(* Steps of the start.                                                     *)
LEMMA StartKeeps ==
  ASSUME Inv, UNCHANGED <<connVars, owes>>, TableStep, proc' = proc \/ proc # "serving",
         proc' \in Starting \union {"down", "serving"}, wanted' = wanted,
         crashes' \in 0 .. MaxCrashes
  PROVE  /\ TypeOK' /\ ConnInv'
         /\ Kept /\ Used \subseteq Used'
<1> USE DEF Inv, TypeOK
<1>1. BootTypeOK' /\ Kept /\ Used \subseteq Used'
  BY TableSteps DEF BootTypeOK
<1>2. TypeOK'
  BY <1>1 DEF connVars
<1>3. ConnInv'
  BY <1>1 DEF connVars, ConnInv
<1> QED BY <1>1, <1>2, <1>3

LEMMA BootSteps ==
  ASSUME Inv, Booting(Start \/ Boot)
  PROVE  Inv' /\ BackWithPassword
<1> USE DEF Inv, Moves
<1>1. UNCHANGED <<connVars, owes>> /\ wanted' = wanted
  BY DEF Booting, Start, Boot, Count, Look, Create, Recover
<1>2. crashes \in 0 .. MaxCrashes /\ 0 \in 0 .. MaxCrashes
  BY BootAssumption DEF TypeOK, BootTypeOK
<1>3. CASE Start \/ Count \/ Look
  <2>1. UNCHANGED users
    BY <1>3 DEF Start, Count, Look
  <2>2. /\ proc # "serving" /\ proc' \in Starting \union {"down", "serving"}
        /\ crashes' \in 0 .. MaxCrashes
    BY <1>2, <1>3 DEF Start, Count, Look, Starting
  <2>3. TypeOK' /\ ConnInv'
    BY <1>1, <2>1, <2>2, StartKeeps DEF TableStep
  <2>4. UsableAdmins' = UsableAdmins /\ Used' = Used
    BY <2>1 DEF UsableAdmins, UsableAdmin, Used
  <2>5. OwesInv'
    BY <1>1, <2>1, <2>4 DEF OwesInv
  <2>6. BootInv'
    <3>1. CASE Start
      BY <1>1, <2>1, <2>4, <3>1 DEF Start, BootInv, ServesWithAdmin
    <3>2. CASE Count
      BY <1>1, <2>1, <2>4, <3>2 DEF Count, Counted, BootInv, ServesWithAdmin, TypeOK, BootTypeOK
    <3>3. CASE Look
      BY <1>1, <2>1, <2>4, <3>3 DEF Look, Recoverable, BootInv, ServesWithAdmin
    <3> QED BY <1>3, <3>1, <3>2, <3>3
  <2>7. BackWithPassword
    BY <2>1 DEF BackWithPassword
  <2> QED BY <2>3, <2>5, <2>6, <2>7
<1>4. CASE Create
  <2>1. CASE UNCHANGED users
    <3>1. proc = "creating" /\ proc' = "down" /\ crashes' = crashes
      <4>1. ~Insert(wanted, "admin", "env")
        BY <1>4, <2>1, InsertKeeps DEF Create, Used, BootInv, TypeOK
      <4> QED BY <1>4, <4>1 DEF Create
    <3>2. TypeOK' /\ ConnInv'
      BY <1>1, <1>2, <2>1, <3>1, StartKeeps DEF TableStep, Starting
    <3>3. UsableAdmins' = UsableAdmins /\ Used' = Used
      BY <2>1 DEF UsableAdmins, UsableAdmin, Used
    <3> QED BY <1>1, <2>1, <3>1, <3>2, <3>3
            DEF BootInv, OwesInv, ServesWithAdmin, BackWithPassword
  <2>2. CASE Insert(wanted, "admin", "env") /\ proc' = "serving" /\ crashes' = 0
    <3>1. proc = "creating" /\ wanted \in Names /\ owes = {}
      BY <1>4 DEF Create, BootInv
    <3>2. TypeOK' /\ ConnInv'
      BY <1>1, <1>2, <2>2, <3>1, StartKeeps DEF TableStep
    <3>3. /\ wanted \notin Used
          /\ users'[wanted] = [role |-> "admin", status |-> "active", ban |-> "none",
                              pw |-> "env", must |-> FALSE]
          /\ users'[wanted] # NoRow
          /\ \A m \in Names \ {wanted} : users'[m] = users[m]
      BY <2>2, <3>1, InsertKeeps DEF TypeOK
    <3>4. (UsableAdmins # {})'
      BY <1>1, <3>1, <3>3 DEF UsableAdmins, UsableAdmin, Used
    <3>5. BackWithPassword
      BY <3>3, UsedIsRow DEF BackWithPassword, TypeOK
    <3> QED BY <1>1, <2>2, <3>1, <3>2, <3>4, <3>5 DEF BootInv, OwesInv, ServesWithAdmin
  <2> QED BY <1>4, <2>1, <2>2 DEF Create
<1>5. ASSUME proc = "first", proc' = "second", crashes' = crashes, SetPassword(wanted, "env")
      PROVE  Inv' /\ BackWithPassword
  <2>1. wanted \in Names /\ owes = {} /\ wanted \in Used /\ users[wanted].role = "admin"
    BY <1>5 DEF BootInv
  <2>2. TypeOK' /\ ConnInv' /\ Kept /\ Used \subseteq Used'
    BY <1>1, <1>2, <1>5, <2>1, StartKeeps, SMTT(60) DEF TableStep, Starting
  <2>3. /\ users'[wanted] = [users[wanted] EXCEPT !.pw = "env", !.must = FALSE]
        /\ \A m \in Names \ {wanted} : users'[m] = users[m]
    BY <1>5, <2>1, SetPasswordKeeps DEF TypeOK
  <2>4. users'[wanted].pw = "env" /\ users'[wanted].role = "admin"
    BY <2>1, <2>3, UsedIsRow DEF TypeOK, Row
  <2>5. BackWithPassword
    BY <2>3, <2>4, UsedIsRow DEF BackWithPassword, TypeOK
  <2> QED BY <1>1, <1>5, <2>1, <2>2, <2>4, <2>5 DEF BootInv, OwesInv, ServesWithAdmin
<1>6. ASSUME proc = "second", proc' = "serving", crashes' = 0, UnbanUser(wanted)
      PROVE  Inv' /\ BackWithPassword
  <2>1. /\ wanted \in Names /\ owes = {} /\ wanted \in Used
        /\ users[wanted].role = "admin" /\ users[wanted].pw = "env"
    BY <1>6 DEF BootInv
  <2>2. TypeOK' /\ ConnInv' /\ Kept /\ Used \subseteq Used'
    BY <1>1, <1>2, <1>6, <2>1, StartKeeps DEF TableStep
  <2>3. /\ users'[wanted] = [users[wanted] EXCEPT !.status = "active", !.ban = "none"]
        /\ \A m \in Names \ {wanted} : users'[m] = users[m]
    BY <1>6, <2>1, UnbanKeeps DEF TypeOK
  <2>4. /\ users'[wanted].pw = "env" /\ users'[wanted].role = "admin"
        /\ users'[wanted].status = "active"
    BY <2>1, <2>3, UsedIsRow DEF TypeOK, Row
  <2>5. BackWithPassword
    BY <2>3, <2>4, UsedIsRow DEF BackWithPassword, TypeOK
  <2>6. (UsableAdmins # {})'
    BY <1>1, <2>1, <2>2, <2>4 DEF UsableAdmins, UsableAdmin
  <2> QED BY <1>1, <1>6, <2>1, <2>2, <2>5, <2>6 DEF BootInv, OwesInv, ServesWithAdmin
<1>7. CASE Recover
  <2>1. PICK i \in 1 .. 2 :
          /\ Moves(<<"first", "second">>[i], <<"second", "serving">>[i])
          /\ \/ Recovery[i] = "password" /\ SetPassword(wanted, "env")
             \/ Recovery[i] = "unban" /\ UnbanUser(wanted)
    BY <1>7 DEF Recover
  <2>2. CASE i = 1
    BY <1>5, <2>1, <2>2 DEF Recovery
  <2>3. CASE i = 2
    BY <1>6, <2>1, <2>3 DEF Recovery
  <2> QED BY <2>2, <2>3
<1> QED BY <1>3, <1>4, <1>7 DEF Booting, Boot

LEMMA OtherSteps ==
  ASSUME Inv,
         \/ Crashing
         \/ \E n \in Names : Booting(Lapse(n))
         \/ \E n \in Names, r \in {"user", "admin"} : Booting(AddUser(n, r))
  PROVE  Inv' /\ BackWithPassword
<1> USE DEF Inv
<1>1. CASE Crashing
  <2>1. /\ UNCHANGED <<users, wanted, owes>> /\ proc' = "down" /\ End(Conns)
        /\ crashes' \in 0 .. MaxCrashes
    BY <1>1, BootAssumption DEF Crashing, Crash, TypeOK, BootTypeOK
  <2>2. BootTypeOK' /\ Used' = Used /\ UsableAdmins' = UsableAdmins
    BY <2>1 DEF TypeOK, BootTypeOK, Used, UsableAdmins, UsableAdmin
  <2>3. TypeOK' /\ ConnInv'
    BY <2>1, <2>2, EndKeeps
  <2> QED BY <2>1, <2>2, <2>3 DEF BootInv, OwesInv, ServesWithAdmin, BackWithPassword
<1>2. ASSUME NEW n \in Names, Booting(Lapse(n))
      PROVE  Inv' /\ BackWithPassword
  <2>1. /\ n \in Used /\ users[n].ban = "timed" /\ users' = [users EXCEPT ![n].ban = "over"]
        /\ UNCHANGED <<proc, wanted, crashes, connVars, owes>>
    BY <1>2 DEF Booting, Lapse
  <2>2. TypeOK' /\ ConnInv' /\ Kept /\ Used \subseteq Used'
    BY <2>1, StartKeeps DEF TableStep, TypeOK, BootTypeOK
  <2>3. \A m \in Used : /\ users'[m].must = users[m].must /\ users'[m].pw = users[m].pw
                        /\ users'[m].role = users[m].role /\ users'[m].status = users[m].status
    <3>1. users[n] \in Row /\ users' = [users EXCEPT ![n] = [users[n] EXCEPT !.ban = "over"]]
      BY <2>1, UsedIsRow DEF TypeOK, BootTypeOK
    <3>2. /\ users'[n] = [users[n] EXCEPT !.ban = "over"]
          /\ \A m \in Names \ {n} : users'[m] = users[m]
      BY <3>1 DEF TypeOK, BootTypeOK
    <3> QED BY <3>1, <3>2, UsedIsRow DEF TypeOK, Row
  <2>4. UsableAdmins # {} => (UsableAdmins # {})'
    BY <2>2, AdminsStay DEF TypeOK
  <2>5. BootInv' /\ OwesInv'
    BY <2>1, <2>2, <2>3, <2>4 DEF BootInv, OwesInv, ServesWithAdmin
  <2>6. BackWithPassword
    BY <2>3 DEF BackWithPassword
  <2> QED BY <2>2, <2>5, <2>6
<1>3. ASSUME NEW n \in Names, NEW r \in {"user", "admin"}, Booting(AddUser(n, r))
      PROVE  Inv' /\ BackWithPassword
  <2>1. Insert(n, r, "own") /\ UNCHANGED <<proc, wanted, crashes, connVars, owes>>
    BY <1>3 DEF Booting, AddUser
  <2>2. TypeOK' /\ ConnInv' /\ Kept /\ Used \subseteq Used'
    BY <2>1, StartKeeps DEF TableStep, TypeOK, BootTypeOK
  <2>3. \A m \in Used : users'[m] = users[m]
    BY <2>1, InsertKeeps, UsedIsRow DEF TypeOK
  <2>4. UsableAdmins # {} => (UsableAdmins # {})'
    BY <2>2, AdminsStay DEF TypeOK
  <2>5. BootInv' /\ OwesInv'
    BY <2>1, <2>2, <2>3, <2>4 DEF BootInv, OwesInv, ServesWithAdmin
  <2>6. BackWithPassword
    BY <2>3 DEF BackWithPassword
  <2> QED BY <2>2, <2>5, <2>6
<1> QED BY <1>1, <1>2, <1>3

-----------------------------------------------------------------------------
LEMMA NextInv == ASSUME Inv, [Next]_vars PROVE Inv'
<1>1. CASE Booting(Start) \/ Booting(Boot)
  BY <1>1, BootSteps DEF Booting
<1>2. ASSUME NEW k \in Conns,
             \/ Connect(k) \/ Wrong(k) \/ Accept(k) \/ AcceptNew(k) \/ Find(k) \/ Enter(k)
             \/ Disconnect(k) \/ TimerExpires(k) \/ TimerCloses(k)
             \/ ClosePrompt(k) \/ ForcedChange(k)
             \/ \E n \in Names : Knock(k, n) \/ OpenPrompt(k, n) \/ Expire(k, n)
      PROVE  Inv'
  BY <1>2, ConnectionSteps, EndSteps, PromptSteps, KnockSteps, ExpireSteps
<1>3. CASE UNCHANGED vars
  BY <1>3 DEF vars, bootVars, connVars, Inv, TypeOK, BootTypeOK, BootInv, OwesInv, ConnInv,
              ServesWithAdmin, UsableAdmins, UsableAdmin, Used
<1> QED BY <1>1, <1>2, <1>3, OtherSteps DEF Next

LEMMA Invariant == Spec => []Inv
BY InitInv, NextInv, PTL DEF Spec

(* The types of the server, and that nobody is connected before it serves. *)
THEOREM TypesHold == Spec => []TypeOK
<1>1. Inv => TypeOK BY DEF Inv
<1> QED BY <1>1, Invariant, PTL

(* A server that was told of an administrator serves with one, however it  *)
(* was killed before, and whatever adduser did meanwhile.                  *)
THEOREM AdminHolds == Spec => []ServesWithAdmin
<1>1. Inv => ServesWithAdmin BY DEF Inv, BootInv
<1> QED BY <1>1, Invariant, PTL

(* EXPIRE PASSWORD holds against logins that had passed the password.      *)
THEOREM ExpiryHolds == Spec => []ExpireHolds
<1>1. Inv => ExpireHolds BY DEF Inv, ConnInv, ExpireHolds
<1> QED BY <1>1, Invariant, PTL

(* The timer never runs out on a connection that has an account.           *)
THEOREM AccountsSpared == Spec => TimerSparesAccounts
<1>1. ASSUME Inv, NEW k \in Conns, TimerExpires(k), who[k] # New
      PROVE  stage[k] \notin Accepted
  BY <1>1 DEF Inv, ConnInv, TimerExpires
<1>2. Inv /\ [Next]_vars
        => [\A k \in Conns : TimerExpires(k) /\ who[k] # New => stage[k] \notin Accepted]_vars
  BY <1>1
<1> QED BY <1>2, Invariant, PTL DEF Spec, TimerSparesAccounts

(* No step of the start gives an account back without its password.        *)
LEMMA ComesBack == ASSUME Inv, [Next]_vars PROVE [BackWithPassword]_bootVars
<1>1. CASE Booting(Start) \/ Booting(Boot)
  BY <1>1, BootSteps DEF Booting
<1>2. ASSUME NEW k \in Conns,
             \/ Connect(k) \/ Wrong(k) \/ Accept(k) \/ AcceptNew(k) \/ Find(k) \/ Enter(k)
             \/ Disconnect(k) \/ TimerExpires(k) \/ TimerCloses(k)
             \/ \E n \in Names : OpenPrompt(k, n)
      PROVE  UNCHANGED bootVars
  BY <1>2 DEF Connect, Wrong, Accept, AcceptNew, Find, Enter, Disconnect, TimerExpires,
              TimerCloses, OpenPrompt
<1>3. ASSUME NEW k \in Conns,
             \/ ClosePrompt(k) \/ ForcedChange(k)
             \/ \E n \in Names : Knock(k, n) \/ Expire(k, n)
      PROVE  BackWithPassword
  <2>1. proc = "serving"
    BY <1>3 DEF ClosePrompt, ForcedChange, Knock, Expire, ByAdmin, Goes, Inv, TypeOK
  <2> QED BY <2>1 DEF BackWithPassword
<1>4. CASE UNCHANGED vars
  BY <1>4 DEF vars
<1> QED BY <1>1, <1>2, <1>3, <1>4, OtherSteps DEF Next

(* A recovered account has the password of the environment before its ban  *)
(* is lifted.                                                              *)
THEOREM RecoveryHolds == Spec => RecoveredWithPassword
BY ComesBack, Invariant, PTL DEF Spec, RecoveredWithPassword

=============================================================================

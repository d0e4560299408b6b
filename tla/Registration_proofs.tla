------------------------- MODULE Registration_proofs -------------------------
(***************************************************************************)
(* Theorems about self-registration: it runs the statements of the users   *)
(* table and nothing else; nobody is let in uninvited; whoever was told    *)
(* that the account is active has it; a use of an invite is spent once; no *)
(* step of a form removes an active account.  They hold for every number   *)
(* of applicants, codes and uses, and any order of their statements with   *)
(* an administrator's, the purge and crashes.                              *)
(***************************************************************************)
EXTENDS Registration, Accounts_proofs

(* An applicant past the first question has a name.                        *)
Named == \A a \in Applicants : step[a] \notin {"form", "gone"} => name[a] \in Names

(* A row leaves "pending" only by what lets it in.                         *)
LetIn == \A n \in Used : users[n].status # "pending" => n \in granted

Inside(c) == {a \in Applicants : step[a] \in {"paid", "told"} /\ code[a] = c}

(* A code that does not exist has let nobody in.                           *)
CodesStay == \A c \in Codes : expires[c] = 0 => Inside(c) = {}

(* From the insertion of its row to the end, the row of an applicant is    *)
(* its own unless an administrator ruled on it, and does not expire before *)
(* it is active.                                                           *)
Owned(a) ==
  LET n == name[a]
  IN  /\ n \in Used
      /\ maker[n] = a
      /\ \/ users[n].status = "active"
         \/ /\ users[n].status = "pending"
            /\ step[a] # "told"
            /\ users[n].created + ExpiryTicks >= now

RowsAreOwn ==
  \A a \in Applicants :
    step[a] \in {"made", "paid", "unpaid", "told"} /\ name[a] \notin ruled => Owned(a)

-----------------------------------------------------------------------------
LEMMA RowOf ==
  ASSUME StoreTypeOK, NEW n \in Names, users[n] # NoRow
  PROVE  users[n] \in Row /\ n \in Used
  BY DEF StoreTypeOK, Used

LEMMA ForgetsTyping ==
  ASSUME TypeOK, NEW A, Forgets(A)
  PROVE  /\ name' \in [Applicants -> Names \union {Nothing}]
         /\ code' \in [Applicants -> Codes \union {Nothing}]
         /\ maker' \in [Names -> Applicants \union {Nothing}]
  BY DEF Forgets, TypeOK

(* The others keep what they entered, and the rows they inserted.          *)
LEMMA ForgetsOthers ==
  ASSUME TypeOK, NEW A, Forgets(A), NEW b \in Applicants \ A
  PROVE  /\ name'[b] = name[b]
         /\ code'[b] = code[b]
         /\ \A n \in Names : maker[n] = b => maker'[n] = b
  BY DEF Forgets, TypeOK

(* Every step of the forms and of what goes on around them runs one        *)
(* statement of the table, or none.                                        *)
LEMMA StepRunsTheStore ==
  ASSUME TypeOK, Named, [Next]_vars
  PROVE  [StoreNext]_storeVars
<1>1. ASSUME NEW a \in Applicants,
             EnterUsername(a) \/ EnterCode(a) \/ EnterEmail(a) \/ Leave(a)
               \/ SpendInvite(a) \/ AskAdmins(a)
      PROVE  [StoreNext]_storeVars
  BY <1>1 DEF EnterUsername, EnterCode, EnterEmail, Leave, SpendInvite, AskAdmins
<1>2. ASSUME NEW a \in Applicants, FreeTheName(a) PROVE [StoreNext]_storeVars
  BY <1>2 DEF FreeTheName, Goes, Named, StoreNext
<1>3. ASSUME NEW a \in Applicants, MakeAccount(a) PROVE [StoreNext]_storeVars
  <2>1. name[a] \in Names
    BY <1>3 DEF MakeAccount, Restarts, Goes, Named
  <2>2. InsertPending(name[a]) \/ UNCHANGED storeVars
    BY <1>3 DEF MakeAccount
  <2> QED
    BY <2>1, <2>2 DEF StoreNext
<1>4. ASSUME NEW a \in Applicants, RollBack(a) PROVE [StoreNext]_storeVars
  BY <1>4 DEF RollBack, Restarts, Goes, Named, StoreNext
<1>5. ASSUME NEW a \in Applicants, Activate(a) PROVE [StoreNext]_storeVars
  <2>1. name[a] \in Names
    BY <1>5 DEF Activate, Goes, Named
  <2>2. CASE ActivateAccount(name[a]) /\ name[a] \in Pending
    BY <2>1, <2>2 DEF ApprovePendingAccount, StoreNext
  <2>3. CASE ActivateAccount(name[a]) /\ name[a] \notin Pending
    BY <2>3 DEF ActivateAccount, storeVars
  <2> QED
    BY <1>5, <2>2, <2>3 DEF Activate
<1>6. ASSUME NEW c \in Codes, InviteCreate(c) PROVE [StoreNext]_storeVars
  BY <1>6 DEF InviteCreate
<1>7. ASSUME NEW n \in Names, Create(n) \/ Approve(n) \/ Deny(n) \/ Remove(n)
      PROVE  [StoreNext]_storeVars
  BY <1>7 DEF Create, Approve, Deny, Remove, StoreNext
<1>8. ASSUME NEW n \in Names, Ban(n) PROVE [StoreNext]_storeVars
  <2>1. PICK until \in Ends : BanUser(n, until)
    BY <1>8 DEF Ban
  <2>2. until \in 1 .. Never
    BY Bounds DEF TypeOK, StoreTypeOK, Times, Never, Ends
  <2> QED
    BY <2>1, <2>2 DEF StoreNext
<1>9. ASSUME NEW n \in Names, Unban(n) PROVE [StoreNext]_storeVars
  <2>1. CASE UnbanUser(n)
    BY <2>1 DEF StoreNext
  <2>2. CASE n \in Used /\ CheckAndLiftExpiredBan(users[n].id)
    <3>1. users[n].id \in 1 .. MaxId
      BY <2>2, UsedRow DEF TypeOK, Row
    <3> QED
      BY <2>2, <3>1 DEF StoreNext
  <2> QED
    BY <1>9, <2>1, <2>2 DEF Unban
<1>10. CASE Purge
  BY <1>10 DEF Purge, StoreNext
<1>11. CASE Crash
  BY <1>11 DEF Crash
<1>12. CASE Start
  BY <1>12 DEF Start, StoreNext
<1>13. CASE Clock
  BY <1>13 DEF Clock, StoreNext
<1>14. CASE UNCHANGED vars
  BY <1>14 DEF vars
<1> QED
  BY <1>1, <1>2, <1>3, <1>4, <1>5, <1>6, <1>7, <1>8, <1>9, <1>10, <1>11, <1>12,
     <1>13, <1>14 DEF Next, Register

-----------------------------------------------------------------------------
(* Forms only move on, and take their names from the table's.              *)
LEMMA NamedStep ==
  ASSUME TypeOK, Named, [Next]_vars
  PROVE  Named'
<1>1. ASSUME NEW a \in Applicants, EnterUsername(a) PROVE Named'
  BY <1>1 DEF EnterUsername, Goes, Named, TypeOK
<1>2. ASSUME NEW a \in Applicants,
             EnterCode(a) \/ EnterEmail(a) \/ FreeTheName(a) \/ SpendInvite(a)
               \/ AskAdmins(a)
      PROVE  Named'
  BY <1>2 DEF EnterCode, EnterEmail, FreeTheName, SpendInvite, AskAdmins, Goes, Named, TypeOK
<1>3. ASSUME NEW A, Gone(A) PROVE Named'
  BY <1>3 DEF Gone, Forgets, Named
<1>4. ASSUME NEW a \in Applicants, NEW from, Restarts(a, from) PROVE Named'
  BY <1>4 DEF Restarts, Forgets, Goes, Named, TypeOK
<1>5. ASSUME NEW a \in Applicants, NEW from, NEW to, Goes(a, from, to), name' = name,
              from \notin {"form", "gone"}
      PROVE  Named'
  BY <1>5 DEF Goes, Named, TypeOK
<1>6. ASSUME NEW a \in Applicants, MakeAccount(a) PROVE Named'
  BY <1>4, <1>5, <1>6 DEF MakeAccount
<1>7. ASSUME NEW a \in Applicants, Leave(a) \/ RollBack(a) \/ Activate(a)
      PROVE  Named'
  BY <1>3, <1>7, <1>4, <1>5 DEF Leave, RollBack, Activate
<1>8. CASE Crash
  BY <1>3, <1>8 DEF Crash
<1>9. ASSUME UNCHANGED formVars PROVE Named'
  BY <1>9 DEF formVars, Named
<1>10. ASSUME NEW c \in Codes, InviteCreate(c) PROVE Named'
  BY <1>9, <1>10 DEF InviteCreate
<1>11. ASSUME NEW n \in Names,
             Create(n) \/ Approve(n) \/ Deny(n) \/ Remove(n) \/ Ban(n) \/ Unban(n)
      PROVE  Named'
  BY <1>9, <1>11 DEF Create, Approve, Deny, Remove, Ban, Unban, Command
<1>12. CASE Purge \/ Start \/ Clock \/ UNCHANGED vars
  BY <1>9, <1>12 DEF Purge, Start, Clock, vars
<1> QED
  BY <1>1, <1>2, <1>7, <1>10, <1>11, <1>12, <1>6, <1>8 DEF Next, Register

LEMMA EndsInRange ==
  ASSUME TypeOK
  PROVE  Ends \subseteq (0 .. Never) \ {0}
  BY Bounds DEF TypeOK, StoreTypeOK, Times, Never, Ends

LEMMA TypingStep ==
  ASSUME TypeOK, Named, [Next]_vars
  PROVE  TypeOK'
<1> DEFINE FormsOK == /\ step \in [Applicants -> Steps]
                      /\ name \in [Applicants -> Names \union {Nothing}]
                      /\ code \in [Applicants -> Codes \union {Nothing}]
           InvitesOK == /\ uses \in [Codes -> 0 .. MaxUses]
                        /\ expires \in [Codes -> 0 .. Never]
                        /\ minted \in [Codes -> 0 .. MaxUses]
           HistoryOK == /\ maker \in [Names -> Applicants \union {Nothing}]
                        /\ granted \subseteq Names
                        /\ ruled \subseteq Names
           ServerOK == up \in BOOLEAN /\ mode \in Modes
<1>1. StoreTypeOK'
  BY StepRunsTheStore, StoreTypingStep DEF TypeOK
<1>2. FormsOK /\ InvitesOK /\ HistoryOK /\ ServerOK
  BY DEF TypeOK
<1>3. ASSUME FormsOK', InvitesOK', HistoryOK', ServerOK' PROVE TypeOK'
  BY <1>1, <1>3 DEF TypeOK
<1>4. ASSUME NEW a \in Applicants,
             EnterUsername(a) \/ EnterCode(a) \/ EnterEmail(a) \/ FreeTheName(a)
               \/ AskAdmins(a)
      PROVE  TypeOK'
  <2>1. FormsOK'
    BY <1>2, <1>4 DEF EnterUsername, EnterCode, EnterEmail, FreeTheName, AskAdmins, Goes,
       Steps
  <2>2. InvitesOK' /\ HistoryOK' /\ ServerOK'
    BY <1>2, <1>4 DEF EnterUsername, EnterCode, EnterEmail, FreeTheName, AskAdmins, Goes,
       history, serverVars
  <2> QED
    BY <1>3, <2>1, <2>2
<1>5. ASSUME NEW A, Gone(A), UNCHANGED <<uses, expires, minted, ruled, mode>>,
             granted' \subseteq Names, ServerOK'
      PROVE  TypeOK'
  <2>1. FormsOK' /\ maker' \in [Names -> Applicants \union {Nothing}]
    BY <1>2, <1>5, ForgetsTyping DEF Gone, Steps
  <2> QED
    BY <1>2, <1>3, <1>5, <2>1
<1>6. ASSUME NEW a \in Applicants, NEW from, Restarts(a, from),
             UNCHANGED <<uses, expires, minted, ruled, mode, up>>, granted' \subseteq Names
      PROVE  TypeOK'
  <2>1. FormsOK' /\ ServerOK' /\ maker' \in [Names -> Applicants \union {Nothing}]
    <3>1. Forgets({a}) /\ Goes(a, from, "form")
      BY <1>6 DEF Restarts
    <3>2. ServerOK' /\ step' \in [Applicants -> Steps]
      BY <1>2, <1>6, <3>1 DEF Goes, Steps
    <3> QED
      BY <3>1, <3>2, ForgetsTyping
  <2> QED
    BY <1>2, <1>3, <1>6, <2>1
<1>7. ASSUME NEW a \in Applicants, MakeAccount(a) PROVE TypeOK'
  <2>1. UNCHANGED <<uses, expires, minted, ruled, mode, up>> /\ granted' \subseteq Names
    BY <1>2, <1>7 DEF MakeAccount, serverVars
  <2>2. CASE Restarts(a, "freed")
    BY <1>6, <2>1, <2>2
  <2>3. CASE /\ Goes(a, "freed", "made")
             /\ maker' = [maker EXCEPT ![name[a]] = a]
             /\ UNCHANGED <<name, code>>
    <3>1. FormsOK' /\ ServerOK' /\ maker' \in [Names -> Applicants \union {Nothing}]
      BY <1>2, <2>1, <2>3 DEF Goes, Steps
    <3> QED
      BY <1>2, <1>3, <2>1, <3>1
  <2> QED
    BY <1>7, <2>2, <2>3 DEF MakeAccount
<1>8. ASSUME NEW a \in Applicants, SpendInvite(a) PROVE TypeOK'
  <2>1. FormsOK' /\ HistoryOK' /\ ServerOK' /\ expires' = expires /\ minted' = minted
    BY <1>2, <1>8 DEF SpendInvite, Goes, Steps, history, serverVars
  <2>2. uses' \in [Codes -> 0 .. MaxUses]
    <3>1. CASE UNCHANGED uses
      BY <1>2, <3>1
    <3>2. CASE Valid(code[a]) /\ uses' = [uses EXCEPT ![code[a]] = @ - 1]
      <4>1. code[a] \in Codes => uses[code[a]] - 1 \in 0 .. MaxUses
        BY <1>2, <3>2, RegistrationAssumption DEF Valid
      <4> QED
        BY <1>2, <3>2, <4>1
    <3> QED
      BY <1>8, <3>1, <3>2 DEF SpendInvite
  <2> QED
    BY <1>2, <1>3, <2>1, <2>2
<1>9. ASSUME NEW a \in Applicants, Activate(a) PROVE TypeOK'
  <2>1. name[a] \in Names
    BY <1>9 DEF Activate, Goes, Named
  <2>2. UNCHANGED <<uses, expires, minted, ruled, mode, up>> /\ granted' \subseteq Names
    BY <1>2, <1>9, <2>1 DEF Activate, serverVars
  <2>3. CASE Gone({a})
    BY <1>2, <1>5, <2>2, <2>3
  <2>4. CASE Goes(a, "paid", "told") /\ UNCHANGED <<name, code, maker>>
    <3>1. FormsOK' /\ ServerOK' /\ maker' \in [Names -> Applicants \union {Nothing}]
      BY <1>2, <2>2, <2>4 DEF Goes, Steps
    <3> QED
      BY <1>2, <1>3, <2>2, <3>1
  <2> QED
    BY <1>9, <2>3, <2>4 DEF Activate
<1>10. ASSUME NEW a \in Applicants, Leave(a) \/ RollBack(a) PROVE TypeOK'
  <2>1. UNCHANGED <<uses, expires, minted, ruled, mode, up>> /\ granted' \subseteq Names
    BY <1>2, <1>10 DEF Leave, RollBack, serverVars
  <2> QED
    BY <1>2, <1>10, <1>5, <1>6, <2>1 DEF Leave, RollBack
<1>11. ASSUME NEW c \in Codes, InviteCreate(c) PROVE TypeOK'
  <2>1. PICK k \in 1 .. MaxUses :
          uses' = [uses EXCEPT ![c] = k] /\ minted' = [minted EXCEPT ![c] = k]
    BY <1>11 DEF InviteCreate
  <2>2. PICK t \in Ends : expires' = [expires EXCEPT ![c] = t]
    BY <1>11 DEF InviteCreate
  <2>3. k \in 0 .. MaxUses /\ t \in 0 .. Never
    BY RegistrationAssumption, EndsInRange
  <2>4. InvitesOK'
    BY <1>2, <2>1, <2>2, <2>3
  <2> QED
    BY <1>2, <1>3, <1>11, <2>4 DEF InviteCreate, formVars, serverVars
<1>12. ASSUME NEW n \in Names,
             Create(n) \/ Approve(n) \/ Deny(n) \/ Remove(n) \/ Ban(n) \/ Unban(n)
      PROVE  TypeOK'
  <2>1. FormsOK' /\ InvitesOK' /\ ServerOK'
    BY <1>2, <1>12 DEF Create, Approve, Deny, Remove, Ban, Unban, Rules, Command,
       formVars, serverVars, history
  <2>2. HistoryOK'
    BY <1>2, <1>12, RegistrationAssumption DEF Create, Approve, Deny, Remove, Ban, Unban, Rules, history
  <2> QED
    BY <1>3, <2>1, <2>2
<1>13. CASE Purge \/ Start \/ Clock \/ UNCHANGED vars
  BY <1>2, <1>3, <1>13 DEF Purge, Start, Clock, vars, formVars, serverVars, history
<1>14. CASE Crash
  <2>1. UNCHANGED <<uses, expires, minted, ruled, mode>> /\ granted' \subseteq Names /\ up' = FALSE
    BY <1>2, <1>14 DEF Crash
  <2> QED
    BY <1>2, <1>14, <1>5, <2>1 DEF Crash
<1> QED
  BY <1>4, <1>7, <1>8, <1>9, <1>10, <1>11, <1>12, <1>13, <1>14 DEF Next, Register

LEMMA Start0 == Init => TypeOK /\ Named
<1> SUFFICES ASSUME Init PROVE TypeOK /\ Named
  OBVIOUS
<1>1. StoreTypeOK
  BY StoreTypingInit DEF Init
<1>2. 0 \in 0 .. MaxUses /\ 0 \in 0 .. Never
  BY Bounds, RegistrationAssumption DEF Never
<1> QED
  BY <1>1, <1>2, StoreAssumption DEF Init, TypeOK, Named, Steps

LEMMA Typing == Spec => [](TypeOK /\ Named)
<1>1. TypeOK /\ Named /\ [Next]_vars => (TypeOK /\ Named)'
  BY TypingStep, NamedStep
<1> QED
  BY Start0, <1>1, PTL DEF Spec

(* The tables and the forms stay in range; a code never has fewer than no  *)
(* uses left (ValidateAndConsumeInvite).                                   *)
THEOREM RegistrationTyping == Spec => []TypeOK
  BY Typing, PTL

(* Self-registration implements the users table: what the table keeps to   *)
(* in any order of statements it keeps to here (StoreTyping, LastAdmin,    *)
(* LockWithCount).                                                         *)
THEOREM RegistrationRunsTheStore == Spec => StoreSpec
<1>1. Init => StoreInit
  BY DEF Init
<1>2. TypeOK /\ Named /\ [Next]_vars => [StoreNext]_storeVars
  BY StepRunsTheStore
<1> QED
  BY <1>1, <1>2, Typing, PTL DEF Spec, StoreSpec

-----------------------------------------------------------------------------
(* What each step does to a row that is there before and after it.  The    *)
(* rest of this module follows from what happens to the rows.              *)
Kept(n) == users'[n] = users[n]

LEMMA DeleteRows ==
  ASSUME NEW S, Delete(S), NEW n \in Names
  PROVE  IF n \in S THEN n \notin Used' ELSE Kept(n) /\ (n \in Used' <=> n \in Used)
  BY DEF Delete, Kept, Used

LEMMA InsertRows ==
  ASSUME StoreTypeOK, NEW m \in Names, NEW role \in {"user", "admin"},
         NEW status \in {"pending", "active"}, Insert(m, role, status), NEW n \in Names
  PROVE  /\ m \notin Used
         /\ n # m => Kept(n) /\ (n \in Used' <=> n \in Used)
         /\ n = m => /\ n \in Used'
                     /\ users'[n].status = status
                     /\ users'[n].created = now
<1>1. PICK i \in 1 .. MaxId : users' = [users EXCEPT ![m] = NewRow(i, role, status)]
  BY DEF Insert
<1>2. m \notin Used /\ (n # m => Kept(n) /\ (n \in Used' <=> n \in Used))
  BY <1>1 DEF Insert, StoreTypeOK, Kept, Used
<1>3. NewRow(i, role, status) \in Row
  BY NewRowType
<1>4. n = m => users'[n] = NewRow(i, role, status)
  BY <1>1 DEF StoreTypeOK
<1>5. n = m => n \in Used'
  BY <1>3, <1>4, NoRowAssumption DEF Used
<1> QED
  BY <1>2, <1>4, <1>5 DEF NewRow

LEMMA StatusRows ==
  ASSUME StoreTypeOK, NEW m \in Used, NEW n \in Names, NEW st \in {"active", "suspended"},
         NEW b \in 0 .. Never,
         \/ users' = [users EXCEPT ![m].status = st]
         \/ users' = [users EXCEPT ![m].status = st, ![m].ban = b]
  PROVE  /\ n \in Used' <=> n \in Used
         /\ n # m => Kept(n)
         /\ n = m => /\ users'[n].status = st
                     /\ users'[n].id = users[n].id
                     /\ users'[n].created = users[n].created
<1>1. users[m] \in Row
  BY UsedRow
<1> DEFINE r == [users[m] EXCEPT !.status = st]
           q == [users[m] EXCEPT !.status = st, !.ban = b]
<1>2. r \in Row /\ r.status = st /\ r.id = users[m].id /\ r.created = users[m].created
  BY <1>1 DEF Row
<1>3. q \in Row /\ q.status = st /\ q.id = users[m].id /\ q.created = users[m].created
  BY <1>1 DEF Row
<1>4. users' = [users EXCEPT ![m] = r] \/ users' = [users EXCEPT ![m] = q]
  OBVIOUS
<1> HIDE DEF r, q
<1>5. ASSUME NEW x \in Row, users' = [users EXCEPT ![m] = x]
      PROVE  /\ n # m => Kept(n)
             /\ n = m => users'[n] = x
             /\ n \in Used' <=> n \in Used
  BY <1>5, NoRowAssumption DEF StoreTypeOK, Kept, Used
<1> QED
  BY <1>2, <1>3, <1>4, <1>5

(* A lifted ban is one row's: the identifier is the primary key.           *)
LEMMA UnbanRows ==
  ASSUME StoreTypeOK, NEW m \in Names, Unban(m)
  PROVE  /\ m \in Used
         /\ users[m].status = "suspended"
         /\ users' = [users EXCEPT ![m].status = "active", ![m].ban = 0]
<1>1. CASE UnbanUser(m)
  BY <1>1 DEF UnbanUser
<1>2. CASE m \in Used /\ Lapsed(m) /\ CheckAndLiftExpiredBan(users[m].id)
  <2>1. \A n \in Names : n \in WithId(users[m].id) <=> n = m
    BY <1>2 DEF WithId, StoreTypeOK, Used
  <2>2. users' = [n \in Names |->
          IF n = m THEN [users[n] EXCEPT !.status = "active", !.ban = 0] ELSE users[n]]
    BY <1>2, <2>1 DEF CheckAndLiftExpiredBan
  <2>3. users' = [users EXCEPT ![m] = [users[m] EXCEPT !.status = "active", !.ban = 0]]
    BY <1>2, <2>2 DEF StoreTypeOK
  <2> QED
    BY <1>2, <2>3 DEF Lapsed
<1> QED
  BY <1>1, <1>2 DEF Unban

LEMMA ApproveRows ==
  ASSUME StoreTypeOK, NEW m \in Names, ActivateAccount(m), NEW n \in Names
  PROVE  /\ n \in Used' <=> n \in Used
         /\ n # m => Kept(n)
         /\ n = m => Kept(n) \/ users'[n].status = "active"
         /\ n = m /\ n \in Pending => users'[n].status = "active"
         /\ n \in Used => users'[n].id = users[n].id
<1>1. CASE m \in Pending
  <2>1. m \in Used /\ users' = [users EXCEPT ![m].status = "active"]
    BY <1>1 DEF ActivateAccount, Pending
  <2>2. 0 \in 0 .. Never
    BY Bounds DEF Never
  <2> QED
    BY <2>1, <2>2, StatusRows, ZenonT(60) DEF Kept
<1>2. CASE m \notin Pending
  BY <1>2 DEF ActivateAccount, Kept, Used
<1> QED
  BY <1>1, <1>2

-----------------------------------------------------------------------------
LEMMA LetInStep ==
  ASSUME TypeOK, Named, LetIn, [Next]_vars
  PROVE  LetIn'
<1>1. StoreTypeOK
  BY DEF TypeOK
<1>2. ASSUME UNCHANGED users, UNCHANGED granted PROVE LetIn'
  BY <1>2 DEF LetIn, Used
<1>3. ASSUME NEW S, Delete(S), UNCHANGED granted PROVE LetIn'
  BY <1>3, DeleteRows DEF LetIn, Kept, Used
<1>4. ASSUME NEW a \in Applicants,
             EnterUsername(a) \/ EnterCode(a) \/ EnterEmail(a) \/ Leave(a)
               \/ SpendInvite(a) \/ AskAdmins(a)
      PROVE  LetIn'
  BY <1>2, <1>4 DEF EnterUsername, EnterCode, EnterEmail, Leave, SpendInvite, AskAdmins,
     storeVars, history
<1>5. ASSUME NEW a \in Applicants, FreeTheName(a) \/ RollBack(a) PROVE LetIn'
  <2>1. UNCHANGED granted
    BY <1>5 DEF FreeTheName, RollBack, history
  <2>2. CASE UNCHANGED storeVars
    BY <1>2, <2>1, <2>2 DEF storeVars
  <2> QED
    BY <1>3, <1>5, <2>1, <2>2 DEF FreeTheName, RollBack, FreeName, RejectPendingAccount
<1>6. ASSUME NEW a \in Applicants, MakeAccount(a) PROVE LetIn'
  <2>1. CASE InsertPending(name[a]) /\ granted' = granted \ {name[a]}
    <3>1. name[a] \in Names
      BY <1>6 DEF MakeAccount, Restarts, Goes, Named
    <3>2. Insert(name[a], "user", "pending")
      BY <2>1 DEF InsertPending
    <3>3. ASSUME NEW n \in Used', users'[n].status # "pending" PROVE n \in granted'
      <4>1. n \in Names /\ n # name[a] /\ Kept(n) /\ n \in Used
        BY <1>1, <3>1, <3>2, <3>3, InsertRows DEF Used
      <4> QED
        BY <2>1, <3>3, <4>1 DEF LetIn, Kept
    <3> QED
      BY <3>3 DEF LetIn
  <2>2. CASE UNCHANGED <<storeVars, granted>>
    BY <1>2, <2>2 DEF storeVars
  <2> QED
    BY <1>6, <2>1, <2>2 DEF MakeAccount
<1>7. ASSUME NEW m \in Names, ActivateAccount(m), granted' = granted \union {m}
      PROVE  LetIn'
  <2>1. ASSUME NEW n \in Used', users'[n].status # "pending" PROVE n \in granted'
    <3>1. n \in Names
      BY DEF Used
    <3> QED
      BY <1>1, <1>7, <2>1, <3>1, ApproveRows DEF LetIn, Kept
  <2> QED
    BY <2>1 DEF LetIn
<1>8. ASSUME NEW a \in Applicants, Activate(a) PROVE LetIn'
  <2>1. CASE UNCHANGED <<storeVars, granted>>
    BY <1>2, <2>1 DEF storeVars
  <2> QED
    BY <1>7, <1>8, <2>1 DEF Activate, Goes, Named
<1>9. ASSUME NEW c \in Codes, InviteCreate(c) PROVE LetIn'
  BY <1>2, <1>9 DEF InviteCreate, storeVars
<1>10. ASSUME NEW m \in Names, Create(m) PROVE LetIn'
  <2>1. Insert(m, "user", "active") /\ granted' = granted \union {m}
    BY <1>10 DEF Create, CreateUser
  <2>2. ASSUME NEW n \in Used', users'[n].status # "pending" PROVE n \in granted'
    <3>1. n \in Names
      BY DEF Used
    <3> QED
      BY <1>1, <2>1, <2>2, <3>1, InsertRows DEF LetIn, Kept
  <2> QED
    BY <2>2 DEF LetIn
<1>11. ASSUME NEW m \in Names, Approve(m) PROVE LetIn'
  BY <1>7, <1>11 DEF Approve, ApprovePendingAccount
<1>12. ASSUME NEW m \in Names, Deny(m) \/ Remove(m) PROVE LetIn'
  BY <1>3, <1>12 DEF Deny, Remove, RejectPendingAccount, DeleteUser
<1>13. ASSUME NEW m \in Names, Ban(m) PROVE LetIn'
  <2>1. PICK until \in Ends : BanUser(m, until)
    BY <1>13 DEF Ban
  <2>2. until \in 0 .. Never
    BY EndsInRange
  <2>3. ASSUME NEW n \in Used', users'[n].status # "pending" PROVE n \in granted'
    <3>1. n \in Names /\ m \in Used
      BY <2>1 DEF Used, BanUser
    <3>2. n # m => Kept(n) /\ n \in Used
      BY <1>1, <2>1, <2>2, <3>1, StatusRows DEF BanUser
    <3> QED
      BY <1>13, <2>3, <3>2 DEF LetIn, Kept, Ban
  <2> QED
    BY <2>3 DEF LetIn
<1>14. ASSUME NEW m \in Names, Unban(m) PROVE LetIn'
  <2>1. m \in Used /\ users[m].status = "suspended"
        /\ users' = [users EXCEPT ![m].status = "active", ![m].ban = 0]
    BY <1>1, <1>14, UnbanRows
  <2>2. 0 \in 0 .. Never
    BY Bounds DEF Never
  <2>3. ASSUME NEW n \in Used', users'[n].status # "pending" PROVE n \in granted'
    <3>1. n \in Used
      BY <1>1, <2>1, <2>2, StatusRows DEF Used
    <3>2. n # m => Kept(n)
      BY <1>1, <2>1, <2>2, <3>1, StatusRows DEF Used
    <3> QED
      BY <1>14, <2>1, <2>3, <3>1, <3>2 DEF LetIn, Kept, Unban, history
  <2> QED
    BY <2>3 DEF LetIn
<1>15. CASE Purge \/ Start
  BY <1>3, <1>15 DEF Purge, Start, PurgeExpiredPendingAccounts, history
<1>16. CASE Crash \/ Clock \/ UNCHANGED vars
  BY <1>2, <1>16 DEF Crash, Clock, Tick, vars, storeVars, history
<1> QED
  BY <1>4, <1>5, <1>6, <1>8, <1>9, <1>10, <1>11, <1>12, <1>13, <1>14, <1>15, <1>16
     DEF Next, Register

(* Nobody is let in whom neither an administrator's command nor an invite  *)
(* let in, however the statements of forms and commands follow one another.*)
THEOREM NobodyGetsInUninvited == Spec => []NobodyUninvited
<1>1. Init => LetIn
  <2>1. ASSUME Init, NEW n \in Used PROVE n \in granted
    BY <2>1 DEF Init, StoreInit, Used
  <2> QED
    BY <2>1 DEF LetIn
<1>2. TypeOK /\ Named /\ LetIn /\ [Next]_vars => LetIn'
  BY LetInStep
<1>3. LetIn => NobodyUninvited
  BY DEF LetIn, NobodyUninvited
<1> QED
  BY <1>1, <1>2, <1>3, Typing, PTL DEF Spec

-----------------------------------------------------------------------------
Survives(n) == n \in Used' /\ users'[n].id = users[n].id

LEMMA SurvivesStep ==
  ASSUME TypeOK, Named, [Next]_vars, NEW n \in Used, users[n].status = "active",
         ~ \E m \in Names : Remove(m)
  PROVE  Survives(n)
<1>1. StoreTypeOK /\ n \in Names /\ n \notin Pending /\ n \notin Expired
  BY DEF TypeOK, Used, Pending, Expired
<1>2. ASSUME UNCHANGED users PROVE Survives(n)
  BY <1>2 DEF Survives, Used
<1>3. ASSUME NEW S, Delete(S), n \notin S PROVE Survives(n)
  BY <1>1, <1>3, DeleteRows DEF Survives, Kept
<1>4. ASSUME NEW m \in Names, NEW role \in {"user", "admin"},
             NEW status \in {"pending", "active"}, Insert(m, role, status)
      PROVE  Survives(n)
  BY <1>1, <1>4, InsertRows DEF Survives, Kept
<1>5. ASSUME NEW m \in Names, ActivateAccount(m) PROVE Survives(n)
  BY <1>1, <1>5, ApproveRows DEF Survives
<1>6. ASSUME NEW m \in Used, NEW st \in {"active", "suspended"}, NEW b \in 0 .. Never,
             users' = [users EXCEPT ![m].status = st, ![m].ban = b]
      PROVE  Survives(n)
  <2>1. /\ n \in Used' <=> n \in Used
        /\ n # m => Kept(n)
        /\ n = m => users'[n].id = users[n].id
    BY <1>1, <1>6, StatusRows
  <2> QED
    BY <2>1 DEF Survives, Kept
<1>7. ASSUME NEW a \in Applicants,
             EnterUsername(a) \/ EnterCode(a) \/ EnterEmail(a) \/ Leave(a)
               \/ SpendInvite(a) \/ AskAdmins(a)
      PROVE  Survives(n)
  BY <1>2, <1>7 DEF EnterUsername, EnterCode, EnterEmail, Leave, SpendInvite, AskAdmins,
     storeVars
<1>8. ASSUME NEW a \in Applicants, FreeTheName(a) \/ RollBack(a) PROVE Survives(n)
  <2>1. CASE UNCHANGED storeVars
    BY <1>2, <2>1 DEF storeVars
  <2> QED
    BY <1>1, <1>3, <1>8, <2>1 DEF FreeTheName, RollBack, FreeName, RejectPendingAccount
<1>9. ASSUME NEW a \in Applicants, MakeAccount(a) PROVE Survives(n)
  <2>1. name[a] \in Names
    BY <1>9 DEF MakeAccount, Restarts, Goes, Named
  <2> QED
    BY <1>2, <1>4, <1>9, <2>1 DEF MakeAccount, InsertPending, storeVars
<1>10. ASSUME NEW a \in Applicants, Activate(a) PROVE Survives(n)
  <2>1. CASE UNCHANGED storeVars
    BY <1>2, <2>1 DEF storeVars
  <2> QED
    BY <1>5, <1>10, <2>1 DEF Activate, Goes, Named
<1>11. ASSUME NEW c \in Codes, InviteCreate(c) PROVE Survives(n)
  BY <1>2, <1>11 DEF InviteCreate, storeVars
<1>12. ASSUME NEW m \in Names, Create(m) PROVE Survives(n)
  BY <1>4, <1>12 DEF Create, CreateUser
<1>13. ASSUME NEW m \in Names, Approve(m) \/ Deny(m) PROVE Survives(n)
  BY <1>1, <1>3, <1>5, <1>13 DEF Approve, ApprovePendingAccount, Deny, RejectPendingAccount
<1>14. ASSUME NEW m \in Names, Ban(m) PROVE Survives(n)
  <2>1. PICK until \in Ends : BanUser(m, until)
    BY <1>14 DEF Ban
  <2> QED
    BY <1>6, <2>1, EndsInRange DEF BanUser
<1>15. ASSUME NEW m \in Names, Unban(m) PROVE Survives(n)
  <2>1. 0 \in 0 .. Never
    BY Bounds DEF Never
  <2> QED
    BY <1>1, <1>6, <1>15, <2>1, UnbanRows
<1>16. CASE Purge \/ Start
  BY <1>1, <1>3, <1>16 DEF Purge, Start, PurgeExpiredPendingAccounts
<1>17. CASE Crash \/ Clock \/ UNCHANGED vars
  BY <1>2, <1>17 DEF Crash, Clock, Tick, vars, storeVars
<1> QED
  BY <1>7, <1>8, <1>9, <1>10, <1>11, <1>12, <1>13, <1>14, <1>15, <1>16, <1>17
     DEF Next, Register

(* No step of a form, no purge, no denial and no restart removes an active *)
(* account, whatever happened between the statements of finalise.          *)
THEOREM ActiveAccountsSurvive == Spec => ActiveSurvives
<1>1. TypeOK /\ Named /\ [Next]_vars =>
        [\A n \in Used :
           users[n].status = "active" /\ ~(\E m \in Names : Remove(m)) =>
             n \in Used' /\ users'[n].id = users[n].id]_vars
  BY SurvivesStep DEF Survives
<1> QED
  BY <1>1, Typing, PTL DEF Spec, ActiveSurvives

-----------------------------------------------------------------------------
Accounted(c) == uses[c] + Cardinality(Inside(c)) <= minted[c]

LEMMA FewerInside ==
  ASSUME NEW c \in Codes, Inside(c)' \subseteq Inside(c)
  PROVE  /\ Cardinality(Inside(c)) \in Nat
         /\ Cardinality(Inside(c)') \in Nat
         /\ Cardinality(Inside(c)') <= Cardinality(Inside(c))
<1>1. IsFiniteSet(Inside(c))
  BY RegistrationAssumption, FS_Subset DEF Inside
<1> QED
  BY <1>1, FS_Subset, FS_CardinalityType

LEMMA InviteStep ==
  ASSUME TypeOK, Named, CodesStay, [Next]_vars, NEW c \in Codes,
         Accounted(c)
  PROVE  Accounted(c)' /\ (expires'[c] = 0 => Inside(c)' = {})
<1> DEFINE Goal == Accounted(c)' /\ (expires'[c] = 0 => Inside(c)' = {})
<1>1. ASSUME UNCHANGED <<uses, expires, minted>>, Inside(c)' \subseteq Inside(c)
      PROVE  Goal
  BY <1>1, FewerInside DEF Accounted, CodesStay, TypeOK
<1>2. ASSUME UNCHANGED formVars PROVE Inside(c)' = Inside(c)
  BY <1>2 DEF formVars, Inside
<1>3. ASSUME NEW a \in Applicants,
             EnterUsername(a) \/ EnterCode(a) \/ EnterEmail(a) \/ FreeTheName(a)
               \/ AskAdmins(a)
      PROVE  Goal
  <2>1. Inside(c)' \subseteq Inside(c)
    BY <1>3 DEF EnterUsername, EnterCode, EnterEmail, FreeTheName, AskAdmins, Goes, Inside,
       TypeOK
  <2>2. UNCHANGED <<uses, expires, minted>>
    BY <1>3 DEF EnterUsername, EnterCode, EnterEmail, FreeTheName, AskAdmins, history
  <2> QED
    BY <1>1, <2>1, <2>2
<1>4. ASSUME NEW A, Gone(A) PROVE Inside(c)' \subseteq Inside(c)
  BY <1>4 DEF Gone, Forgets, Inside, TypeOK
<1>5. ASSUME NEW a \in Applicants, NEW from, Restarts(a, from)
      PROVE  Inside(c)' \subseteq Inside(c)
  BY <1>5 DEF Restarts, Forgets, Goes, Inside, TypeOK
<1>6. ASSUME NEW a \in Applicants, MakeAccount(a) \/ RollBack(a) \/ Leave(a) \/ Activate(a)
      PROVE  Goal
  <2>1. ASSUME Goes(a, "freed", "made"), UNCHANGED code PROVE Inside(c)' \subseteq Inside(c)
    BY <2>1 DEF Goes, Inside, TypeOK
  <2>2. ASSUME Goes(a, "paid", "told"), UNCHANGED code PROVE Inside(c)' \subseteq Inside(c)
    BY <2>2 DEF Goes, Inside, TypeOK
  <2>3. Inside(c)' \subseteq Inside(c)
    BY <1>6, <1>4, <1>5, <2>1, <2>2 DEF MakeAccount, RollBack, Leave, Activate
  <2>4. UNCHANGED <<uses, expires, minted>>
    BY <1>6 DEF MakeAccount, RollBack, Leave, Activate
  <2> QED
    BY <1>1, <2>3, <2>4
<1>7. ASSUME NEW a \in Applicants, SpendInvite(a) PROVE Goal
  <2>1. code' = code /\ expires' = expires /\ minted' = minted
    BY <1>7 DEF SpendInvite, history
  <2>2. CASE Goes(a, "made", "unpaid") /\ UNCHANGED uses
    <3>1. Inside(c)' \subseteq Inside(c)
      BY <2>1, <2>2 DEF Goes, Inside, TypeOK
    <3> QED
      BY <1>1, <2>1, <2>2, <3>1
  <2>3. CASE /\ Goes(a, "made", "paid")
             /\ Valid(code[a])
             /\ uses' = [uses EXCEPT ![code[a]] = @ - 1]
    <3>1. CASE code[a] # c
      <4>1. Inside(c)' \subseteq Inside(c) /\ uses'[c] = uses[c]
        BY <2>1, <2>3, <3>1 DEF Goes, Inside, TypeOK
      <4> QED
        BY <2>1, <4>1, FewerInside DEF Accounted, CodesStay, TypeOK
    <3>2. CASE code[a] = c
      <4>1. Inside(c)' = Inside(c) \union {a} /\ a \notin Inside(c)
        BY <2>1, <2>3, <3>2 DEF Goes, Inside, TypeOK
      <4>2. IsFiniteSet(Inside(c))
        BY RegistrationAssumption, FS_Subset DEF Inside
      <4>3. Cardinality(Inside(c)') = Cardinality(Inside(c)) + 1
            /\ Cardinality(Inside(c)) \in Nat
        BY <4>1, <4>2, FS_AddElement, FS_CardinalityType
      <4>4. uses'[c] = uses[c] - 1 /\ uses[c] \in Nat /\ minted[c] \in Nat
        BY <2>3, <3>2 DEF TypeOK
      <4>5. expires'[c] # 0
        BY <2>1, <2>3, <3>2 DEF Valid
      <4> QED
        BY <2>1, <4>3, <4>4, <4>5 DEF Accounted
    <3> QED
      BY <3>1, <3>2
  <2> QED
    BY <1>7, <2>2, <2>3 DEF SpendInvite
<1>8. ASSUME NEW d \in Codes, InviteCreate(d) PROVE Goal
  <2>1. Inside(c)' = Inside(c)
    BY <1>2, <1>8 DEF InviteCreate
  <2>2. PICK k \in 1 .. MaxUses :
          uses' = [uses EXCEPT ![d] = k] /\ minted' = [minted EXCEPT ![d] = k]
    BY <1>8 DEF InviteCreate
  <2>3. PICK t \in Ends : expires' = [expires EXCEPT ![d] = t]
    BY <1>8 DEF InviteCreate
  <2>4. CASE c = d
    <3>1. Inside(c) = {}
      BY <1>8, <2>4 DEF InviteCreate, CodesStay
    <3>2. uses'[c] = k /\ minted'[c] = k /\ k \in Nat
      BY <2>2, <2>4, RegistrationAssumption DEF TypeOK
    <3> QED
      BY <2>1, <3>1, <3>2, FS_EmptySet DEF Accounted
  <2>5. CASE c # d
    <3>1. uses'[c] = uses[c] /\ minted'[c] = minted[c] /\ expires'[c] = expires[c]
      BY <2>2, <2>3, <2>5 DEF TypeOK
    <3> QED
      BY <2>1, <3>1 DEF Accounted, CodesStay
  <2> QED
    BY <2>4, <2>5
<1>9. ASSUME NEW n \in Names,
             Create(n) \/ Approve(n) \/ Deny(n) \/ Remove(n) \/ Ban(n) \/ Unban(n)
      PROVE  Goal
  <2>1. UNCHANGED formVars /\ UNCHANGED <<uses, expires, minted>>
    BY <1>9 DEF Create, Approve, Deny, Remove, Ban, Unban, Rules, Command, history
  <2> QED
    BY <1>1, <1>2, <2>1
<1>10. CASE Purge \/ Start \/ Clock \/ UNCHANGED vars
  BY <1>1, <1>2, <1>10 DEF Purge, Start, Clock, vars, history
<1>11. CASE Crash
  <2>1. Inside(c)' \subseteq Inside(c)
    BY <1>11, <1>4 DEF Crash
  <2> QED
    BY <1>1, <1>11, <2>1 DEF Crash
<1> QED
  BY <1>3, <1>6, <1>7, <1>8, <1>9, <1>10, <1>11 DEF Next, Register

(* A use is spent once, whatever the number of applicants who validated    *)
(* the code while it had a use left (ValidateAndConsumeInvite).            *)
THEOREM NoUseIsSpentTwice == Spec => []UsesAreSpentOnce
<1> DEFINE IInv == CodesStay /\ \A c \in Codes : Accounted(c)
<1>1. Init => IInv
  <2> SUFFICES ASSUME Init, NEW c \in Codes PROVE Inside(c) = {} /\ Accounted(c)
    BY DEF CodesStay
  <2>1. Inside(c) = {}
    BY DEF Init, Inside
  <2> QED
    BY <2>1, FS_EmptySet DEF Init, Accounted
<1>2. TypeOK /\ Named /\ IInv /\ [Next]_vars => IInv'
  BY InviteStep DEF CodesStay
<1>3. IInv => UsesAreSpentOnce
  BY DEF UsesAreSpentOnce, Accounted, Inside
<1> QED
  BY <1>1, <1>2, <1>3, Typing, PTL DEF Spec

-----------------------------------------------------------------------------
Past(b) == step[b] \in {"made", "paid", "unpaid", "told"} /\ name[b] \notin ruled

(* What leaves the row of an applicant to it.                              *)
LEMMA OwnedStays ==
  ASSUME NEW b \in Applicants, Owned(b), name'[b] = name[b], now' = now,
         maker[name[b]] = b => maker'[name[b]] = b,
         name[b] \in Used',
         Kept(name[b]) \/ users'[name[b]].status = "active",
         step'[b] \in {step[b], "paid", "unpaid"} \/ users'[name[b]].status = "active"
  PROVE  Owned(b)'
  BY DEF Owned, Kept

(* What is still to be activated does not expire.                          *)
LEMMA OwnedIsFresh ==
  ASSUME StoreTypeOK, NEW b \in Applicants, Owned(b)
  PROVE  name[b] \notin Expired
<1>1. name[b] \in Used /\ users[name[b]] \in Row /\ now \in Nat
  BY UsedRow DEF Owned, StoreTypeOK, Times
<1>2. users[name[b]].created + ExpiryTicks \in Nat
  BY <1>1, Bounds DEF Row, Times
<1> QED
  BY <1>1, <1>2 DEF Owned, Expired, Pending

LEMMA OwnedStep ==
  ASSUME TypeOK, Named, RowsAreOwn, [Next]_vars, NEW b \in Applicants, Past(b)'
  PROVE  Owned(b)'
<1>1. StoreTypeOK /\ now \in Nat /\ ruled \subseteq ruled'
  <2>1. ruled \subseteq ruled'
    BY DEF Next, Register, EnterUsername, EnterCode, EnterEmail, Leave, FreeTheName,
       MakeAccount, SpendInvite, RollBack, Activate, AskAdmins, InviteCreate, Create,
       Approve, Deny, Remove, Ban, Unban, Rules, Purge, Crash, Start, Clock, history, vars
  <2> QED
    BY <2>1 DEF TypeOK, StoreTypeOK, Times
<1>2. ASSUME step'[b] = step[b], name'[b] = name[b]
      PROVE  Past(b) /\ Owned(b) /\ name[b] \in Names /\ name[b] \in Used
  BY <1>1, <1>2 DEF Past, RowsAreOwn, Owned, Used
<1>3. ASSUME step'[b] = step[b], name'[b] = name[b], UNCHANGED <<users, now>>,
             \A n \in Names : maker[n] = b => maker'[n] = b
      PROVE  Owned(b)'
  BY <1>2, <1>3, OwnedStays DEF Kept, Used
<1>4. ASSUME step'[b] = step[b], name'[b] = name[b],
             \A n \in Names : maker[n] = b => maker'[n] = b,
             NEW S, Delete(S), name[b] \notin S
      PROVE  Owned(b)'
  <2>1. Kept(name[b]) /\ name[b] \in Used' /\ now' = now
    BY <1>2, <1>4, DeleteRows DEF Delete
  <2> QED
    BY <1>2, <1>4, <2>1, OwnedStays
<1>5. ASSUME NEW a \in Applicants,
             EnterUsername(a) \/ EnterCode(a) \/ EnterEmail(a) \/ AskAdmins(a)
      PROVE  Owned(b)'
  <2>1. b # a
    BY <1>5 DEF EnterUsername, EnterCode, EnterEmail, AskAdmins, Goes, Past, TypeOK
  <2> QED
    BY <1>3, <1>5, <2>1 DEF EnterUsername, EnterCode, EnterEmail, AskAdmins, Goes, TypeOK,
       storeVars, history
<1>6. ASSUME NEW A, Gone(A)
      PROVE  /\ step'[b] = step[b] /\ name'[b] = name[b]
             /\ \A n \in Names : maker[n] = b => maker'[n] = b
  <2>1. b \notin A
    BY <1>6 DEF Gone, Past
  <2> QED
    BY <1>6, <2>1, ForgetsOthers DEF Gone
<1>7. ASSUME NEW a \in Applicants, NEW from, Restarts(a, from)
      PROVE  /\ step'[b] = step[b] /\ name'[b] = name[b] /\ b # a
             /\ \A n \in Names : maker[n] = b => maker'[n] = b
  <2>1. b # a
    BY <1>7 DEF Restarts, Goes, Past, TypeOK
  <2> QED
    BY <1>7, <2>1, ForgetsOthers DEF Restarts, Goes, TypeOK
<1>8. ASSUME NEW a \in Applicants, Leave(a) PROVE Owned(b)'
  BY <1>3, <1>8, <1>6 DEF Leave, storeVars
<1>9. ASSUME NEW a \in Applicants, FreeTheName(a) PROVE Owned(b)'
  <2>1. b # a
    BY <1>9 DEF FreeTheName, Goes, Past, TypeOK
  <2>2. step'[b] = step[b] /\ name'[b] = name[b]
    BY <1>9, <2>1 DEF FreeTheName, Goes, TypeOK
  <2>3. name[b] \notin Expired
    BY <1>1, <1>2, <2>2, OwnedIsFresh
  <2>4. UNCHANGED maker
    BY <1>9 DEF FreeTheName, history
  <2>5. CASE UNCHANGED storeVars
    BY <1>3, <2>2, <2>4, <2>5 DEF storeVars
  <2> QED
    BY <1>4, <1>9, <2>2, <2>3, <2>4, <2>5 DEF FreeTheName, FreeName
<1>10. ASSUME NEW a \in Applicants, MakeAccount(a) PROVE Owned(b)'
  <2>1. name[a] \in Names
    BY <1>10 DEF MakeAccount, Restarts, Goes, Named
  <2>2. CASE UNCHANGED storeVars /\ Restarts(a, "freed")
    BY <1>3, <1>7, <2>2 DEF storeVars
  <2>3. CASE InsertPending(name[a])
    <3>1. Insert(name[a], "user", "pending") /\ now' = now
      BY <2>3 DEF InsertPending, Insert
    <3>2. ASSUME step'[b] = step[b], name'[b] = name[b],
                 \A n \in Names \ {name[a]} : maker[n] = b => maker'[n] = b
          PROVE  Owned(b)'
      <4>1. name[b] \in Used /\ name[b] \in Names /\ Owned(b)
        BY <1>2, <3>2
      <4>2. name[b] # name[a] /\ Kept(name[b]) /\ name[b] \in Used'
        BY <1>1, <2>1, <3>1, <4>1, InsertRows
      <4> QED
        BY <3>1, <3>2, <4>1, <4>2, OwnedStays
    <3>3. CASE Restarts(a, "freed")
      BY <1>7, <3>2, <3>3
    <3>4. CASE /\ Goes(a, "freed", "made")
               /\ maker' = [maker EXCEPT ![name[a]] = a]
               /\ UNCHANGED <<name, code>>
      <4>1. CASE b = a
        <5>1. /\ name[a] \in Used'
              /\ users'[name[a]].status = "pending"
              /\ users'[name[a]].created = now
          BY <1>1, <2>1, <3>1, InsertRows
        <5>2. maker'[name[a]] = a /\ step'[a] = "made"
          BY <2>1, <3>4 DEF TypeOK, Goes
        <5>3. now + ExpiryTicks >= now
          BY <1>1, Bounds
        <5> QED
          BY <3>1, <3>4, <4>1, <5>1, <5>2, <5>3 DEF Owned
      <4>2. CASE b # a
        <5>1. step'[b] = step[b] /\ name'[b] = name[b]
          BY <3>4, <4>2 DEF Goes, TypeOK
        <5>2. \A n \in Names \ {name[a]} : maker[n] = b => maker'[n] = b
          BY <3>4 DEF TypeOK
        <5> QED
          BY <3>2, <5>1, <5>2
      <4> QED
        BY <4>1, <4>2
    <3> QED
      BY <1>10, <3>3, <3>4 DEF MakeAccount, Goes, Restarts
  <2> QED
    BY <1>10, <2>2, <2>3 DEF MakeAccount
<1>11. ASSUME NEW a \in Applicants, SpendInvite(a) PROVE Owned(b)'
  <2>1. UNCHANGED <<users, now, name, maker, ruled>>
    BY <1>11 DEF SpendInvite, storeVars, history
  <2>2. CASE b = a
    <3>1. step[a] = "made" /\ step'[a] \in {"paid", "unpaid"}
      BY <1>11 DEF SpendInvite, Goes, TypeOK
    <3>2. Owned(a)
      BY <2>1, <2>2, <3>1 DEF Past, RowsAreOwn
    <3>3. name[a] \in Used' /\ Kept(name[a])
      BY <2>1, <3>2 DEF Owned, Used, Kept
    <3> QED
      BY <2>1, <2>2, <3>1, <3>2, <3>3, OwnedStays
  <2>3. CASE b # a
    BY <1>3, <1>11, <2>1, <2>3 DEF SpendInvite, Goes, TypeOK
  <2> QED
    BY <2>2, <2>3
<1>12. ASSUME NEW a \in Applicants, RollBack(a) PROVE Owned(b)'
  <2>1. /\ b # a /\ step'[b] = step[b] /\ name'[b] = name[b]
        /\ \A n \in Names : maker[n] = b => maker'[n] = b
    BY <1>12, <1>7 DEF RollBack
  <2>2. CASE UNCHANGED storeVars
    BY <1>3, <2>1, <2>2 DEF storeVars
  <2>3. ASSUME name[b] = name[a] PROVE FALSE
    <3>1. Past(b) /\ Owned(b)
      BY <1>2, <2>1
    <3>2. Owned(a)
      BY <1>12, <2>3, <3>1 DEF RollBack, Restarts, Goes, Past, RowsAreOwn
    <3> QED
      BY <2>1, <2>3, <3>1, <3>2 DEF Owned
  <2> QED
    BY <1>4, <1>12, <2>1, <2>2, <2>3 DEF RollBack, RejectPendingAccount
<1>13. ASSUME NEW a \in Applicants, Activate(a) PROVE Owned(b)'
  <2>4. CASE Gone({a}) /\ UNCHANGED storeVars
    BY <1>3, <1>6, <2>4 DEF storeVars
  <2> SUFFICES ASSUME Goes(a, "paid", "told"), ActivateAccount(name[a]),
                      UNCHANGED <<name, code, maker>>, UNCHANGED ruled
               PROVE  Owned(b)'
    BY <1>13, <2>4 DEF Activate
  <2>1. name[a] \in Names /\ now' = now
    BY DEF ActivateAccount, Goes, Named
  <2>2. CASE b = a
    <3>1. step[a] = "paid"
      BY DEF Goes
    <3>2. Owned(a)
      BY <2>1, <2>2, <3>1 DEF Past, RowsAreOwn
    <3>3. name[a] \in Used' /\ users'[name[a]].status = "active"
      BY <1>1, <2>1, <3>2, ApproveRows DEF Owned, Pending, Kept
    <3> QED
      BY <2>1, <2>2, <3>2, <3>3, OwnedStays
  <2>3. CASE b # a
    <3>1. step'[b] = step[b] /\ name'[b] = name[b]
      BY <2>3 DEF Goes, TypeOK
    <3>2. Owned(b) /\ name[b] \in Used /\ name[b] \in Names
      BY <1>2, <3>1
    <3>3. name[b] \in Used' /\ (Kept(name[b]) \/ users'[name[b]].status = "active")
      BY <1>1, <2>1, <3>2, ApproveRows
    <3> QED
      BY <2>1, <3>1, <3>2, <3>3, OwnedStays
  <2> QED
    BY <2>2, <2>3
<1>14. ASSUME NEW c \in Codes, InviteCreate(c) PROVE Owned(b)'
  BY <1>3, <1>14 DEF InviteCreate, storeVars, formVars
<1>15. ASSUME NEW m \in Names, Create(m) PROVE Owned(b)'
  <2>1. Insert(m, "user", "active") /\ now' = now /\ maker' = [maker EXCEPT ![m] = Nothing]
        /\ step' = step /\ name' = name
    BY <1>15 DEF Create, CreateUser, Insert, Command, formVars
  <2>2. name[b] \in Used /\ name[b] \in Names /\ Owned(b)
    BY <1>2, <2>1
  <2>3. name[b] # m /\ Kept(name[b]) /\ name[b] \in Used'
    BY <1>1, <2>1, <2>2, InsertRows
  <2>4. maker'[name[b]] = maker[name[b]]
    BY <2>1, <2>3 DEF TypeOK
  <2> QED
    BY <2>1, <2>2, <2>3, <2>4, OwnedStays
<1>16. ASSUME NEW m \in Names, Approve(m) PROVE Owned(b)'
  <2>1. ActivateAccount(m) /\ now' = now /\ maker' = maker /\ step' = step /\ name' = name
    BY <1>16 DEF Approve, ApprovePendingAccount, ActivateAccount, Command, formVars
  <2>2. Owned(b) /\ name[b] \in Used /\ name[b] \in Names
    BY <1>2, <2>1
  <2>3. name[b] \in Used' /\ (Kept(name[b]) \/ users'[name[b]].status = "active")
    BY <1>1, <2>1, <2>2, ApproveRows
  <2> QED
    BY <2>1, <2>2, <2>3, OwnedStays
<1>17. ASSUME NEW m \in Names, Deny(m) \/ Remove(m) PROVE Owned(b)'
  <2>1. step' = step /\ name' = name /\ maker' = maker /\ m \in ruled'
        /\ \E S \in SUBSET {m} : Delete(S)
    BY <1>17 DEF Deny, Remove, Rules, Command, formVars, RejectPendingAccount, DeleteUser
  <2>2. name[b] # m
    BY <2>1 DEF Past
  <2> QED
    BY <1>4, <2>1, <2>2
<1>18. ASSUME NEW m \in Names, Ban(m) PROVE Owned(b)'
  <2>1. PICK until \in Ends : BanUser(m, until)
    BY <1>18 DEF Ban
  <2>2. step' = step /\ name' = name /\ maker' = maker /\ m \in ruled'
    BY <1>18 DEF Ban, Rules, Command, formVars
  <2>3. until \in 0 .. Never /\ m \in Used /\ now' = now
        /\ users' = [users EXCEPT ![m].status = "suspended", ![m].ban = until]
    BY <2>1, EndsInRange DEF BanUser
  <2>4. name[b] # m
    BY <2>2 DEF Past
  <2>5. Owned(b) /\ name[b] \in Used /\ name[b] \in Names
    BY <1>2, <2>2
  <2>6. Kept(name[b]) /\ name[b] \in Used'
    BY <1>1, <2>3, <2>4, <2>5, StatusRows
  <2> QED
    BY <2>2, <2>3, <2>5, <2>6, OwnedStays
<1>19. ASSUME NEW m \in Names, Unban(m) PROVE Owned(b)'
  <2>1. step' = step /\ name' = name /\ maker' = maker /\ now' = now
    BY <1>19 DEF Unban, UnbanUser, CheckAndLiftExpiredBan, Command, formVars, history
  <2>2. Owned(b) /\ name[b] \in Used /\ name[b] \in Names
    BY <1>2, <2>1
  <2>3. m \in Used /\ 0 \in 0 .. Never
        /\ users' = [users EXCEPT ![m].status = "active", ![m].ban = 0]
    BY <1>1, <1>19, UnbanRows, Bounds DEF Never
  <2>4. name[b] \in Used' /\ (Kept(name[b]) \/ users'[name[b]].status = "active")
    BY <1>1, <2>2, <2>3, StatusRows
  <2> QED
    BY <2>1, <2>2, <2>4, OwnedStays
<1>20. CASE Purge \/ Start
  <2>1. step' = step /\ name' = name /\ maker' = maker /\ Delete(Expired)
    BY <1>20 DEF Purge, Start, PurgeExpiredPendingAccounts, formVars, history
  <2>2. name[b] \notin Expired
    BY <1>1, <1>2, <2>1, OwnedIsFresh
  <2> QED
    BY <1>4, <2>1, <2>2
<1>21. CASE Crash
  BY <1>3, <1>21, <1>6 DEF Crash, storeVars
<1>22. CASE Clock
  <2>1. step' = step /\ name' = name /\ users' = users /\ maker' = maker /\ now' = now + 1
    BY <1>22 DEF Clock, Tick, formVars, history
  <2>2. Past(b) /\ Owned(b) /\ users[name[b]] \in Row
    BY <1>1, <1>2, <2>1, UsedRow
  <2>3. CASE users[name[b]].status = "active"
    BY <2>1, <2>2, <2>3 DEF Owned, Used
  <2>4. CASE users[name[b]].status = "pending"
    <3>1. step[b] \in Finalising /\ name[b] \in Pending /\ maker[name[b]] = b
      BY <2>2, <2>4 DEF Past, Owned, Finalising, Pending
    <3>2. users[name[b]].created + ExpiryTicks > now
      BY <1>22, <3>1 DEF Clock
    <3>3. users[name[b]].created + ExpiryTicks >= now + 1
      BY <1>1, <2>2, <3>2, Bounds DEF Row, Times
    <3> QED
      BY <2>1, <2>2, <2>4, <3>3 DEF Owned, Used
  <2> QED
    BY <2>2, <2>3, <2>4 DEF Owned
<1>23. CASE UNCHANGED vars
  BY <1>3, <1>23 DEF vars, storeVars, formVars, history
<1> QED
  BY <1>5, <1>8, <1>9, <1>10, <1>11, <1>12, <1>13, <1>14, <1>15, <1>16, <1>17, <1>18,
     <1>19, <1>20, <1>21, <1>22, <1>23 DEF Next, Register

(* Whoever was told that the account is active has it, unless an           *)
(* administrator ruled on the name (finalise, from its insertion on).      *)
THEOREM WhatIsToldIsTrue == Spec => []ToldIsTrue
<1>1. Init => RowsAreOwn
  BY DEF Init, RowsAreOwn
<1>2. TypeOK /\ Named /\ RowsAreOwn /\ [Next]_vars => RowsAreOwn'
  <2> SUFFICES ASSUME TypeOK, Named, RowsAreOwn, [Next]_vars,
                      NEW b \in Applicants, Past(b)'
               PROVE  Owned(b)'
    BY DEF RowsAreOwn, Past
  <2> QED
    BY OwnedStep
<1>3. RowsAreOwn => ToldIsTrue
  BY DEF RowsAreOwn, ToldIsTrue, Owned
<1> QED
  BY <1>1, <1>2, <1>3, Typing, PTL DEF Spec

=============================================================================

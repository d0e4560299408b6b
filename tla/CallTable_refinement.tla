-------------------------- MODULE CallTable_refinement --------------------------
(***************************************************************************)
(* The methods of the call table as steps of Switchboard, for any client   *)
(* that answers and refuses only what its account was rung for.            *)
(***************************************************************************)
EXTENDS CallTable, TLAPS

(* The rings outstanding, as the refinement mapping of SW has them.        *)
RingSet == {p \in CallIds \X Users : Rings(p[1], p[2])}

LEMMA InRingSet ==
  ASSUME NEW c \in CallIds, NEW u \in Users
  PROVE  <<c, u>> \in RingSet <=> Rings(c, u)
BY DEF RingSet

(* How the set of rings follows the table, stated pointwise.               *)
LEMMA RingSetStep ==
  ASSUME NEW R \in SUBSET (CallIds \X Users),
         \A c \in CallIds, u \in Users : <<c, u>> \in R <=> Rings(c, u)'
  PROVE  RingSet' = R
<1>1. RingSet' = {p \in CallIds \X Users : Rings(p[1], p[2])'}
  BY DEF RingSet
<1>2. \A p \in CallIds \X Users : p \in R <=> Rings(p[1], p[2])'
  OBVIOUS
<1>3. QED
  BY <1>1, <1>2

LEMMA RingSetSame ==
  ASSUME UNCHANGED <<state, callee, invites>>
  PROVE  RingSet' = RingSet
BY DEF RingSet, Rings, DialRings, AddRings

(* What the steps need of the table.                                        *)
SwitchTable == TableTypeOK /\ CallShape /\ OneRingPerCallee

SwitchStep == SW!Next \/ UNCHANGED <<parts, RingSet>>

(* The abstract actions with the mapping applied.                          *)
LEMMA SwPlace ==
  ASSUME NEW s \in Sessions, NEW u \in Users, NEW c \in CallIds,
         parts[c] = {}, ~InCall(s), ~BeingRung(u),
         parts' = [parts EXCEPT ![c] = {s}],
         RingSet' = RingSet \union {<<c, u>>}
  PROVE  SW!Next
<1>1. SW!Idle(s)
  BY DEF SW!Idle, InCall
<1>2. SW!Unrung(u)
  BY DEF SW!Unrung, BeingRung, RingSet
<1>3. SW!Place(s, u, c)
  BY <1>1, <1>2 DEF SW!Place, RingSet
<1>4. QED
  BY <1>3 DEF SW!Next

LEMMA SwInvite ==
  ASSUME NEW u \in Users, NEW c \in CallIds,
         parts[c] # {}, ~BeingRung(u), parts' = parts,
         RingSet' = RingSet \union {<<c, u>>}
  PROVE  SW!Next
<1>1. SW!Unrung(u)
  BY DEF SW!Unrung, BeingRung, RingSet
<1>2. SW!Invite(u, c)
  BY <1>1 DEF SW!Invite, RingSet
<1>3. QED
  BY <1>2 DEF SW!Next

LEMMA SwJoin ==
  ASSUME NEW s \in Sessions, Owner[s] \in Users, NEW c \in CallIds,
         Rings(c, Owner[s]), ~InCall(s),
         parts' = [parts EXCEPT ![c] = parts[c] \union {s}],
         RingSet' = RingSet \ {<<c, Owner[s]>>}
  PROVE  SW!Next
<1>1. SW!Idle(s)
  BY DEF SW!Idle, InCall
<1>2. SW!Join(s, c)
  BY <1>1 DEF SW!Join, RingSet
<1>3. QED
  BY <1>2 DEF SW!Next

LEMMA SwEndRing ==
  ASSUME NEW u \in Users, NEW c \in CallIds, Rings(c, u),
         \/ parts' = parts
         \/ /\ \E s \in Sessions : parts[c] = {s}
            /\ parts' = [parts EXCEPT ![c] = {}],
         RingSet' = RingSet \ {<<c, u>>}
  PROVE  SW!Next
<1>1. SW!EndRing(u, c)
  BY DEF SW!EndRing, RingSet
<1>2. QED
  BY <1>1 DEF SW!Next

LEMMA SwLeave ==
  ASSUME NEW s \in Sessions, NEW c \in CallIds, s \in parts[c],
         parts' = [parts EXCEPT ![c] = parts[c] \ {s}],
         RingSet' = IF parts[c] = {s} THEN {p \in RingSet : p[1] # c} ELSE RingSet
  PROVE  SW!Next
<1>1. SW!Leave(s, c)
  BY DEF SW!Leave, RingSet
<1>2. QED
  BY <1>1 DEF SW!Next

-----------------------------------------------------------------------------
LEMMA LeaveStep ==
  ASSUME SwitchTable, NEW s \in Sessions, NEW c \in CallIds, NEW q,
         s \in parts[c], HangupLocked(c, s, q)
  PROVE  SW!Next
<1>0. TableTypeOK
  BY DEF SwitchTable
<1>1. CASE parts[c] \ {s} # {}
  <2>1. RingSet' = RingSet
    BY <1>1, RingSetSame DEF HangupLocked
  <2>2. parts[c] # {s}
    BY <1>1
  <2>3. QED
    BY <1>1, <2>1, <2>2, SwLeave DEF HangupLocked
<1>2. CASE parts[c] \ {s} = {}
  <2>1. parts[c] = {s}
    BY <1>2
  <2>2. /\ parts' = [parts EXCEPT ![c] = parts[c] \ {s}]
        /\ state' = [state EXCEPT ![c] = "over"]
        /\ callee' = [callee EXCEPT ![c] = NoUser]
        /\ invites' = [invites EXCEPT ![c] = NoInvites]
    BY <1>2 DEF HangupLocked
  <2> DEFINE R == {p \in RingSet : p[1] # c}
  <2>3. \A d \in CallIds, u \in Users : <<d, u>> \in R <=> Rings(d, u)'
    BY <1>0, <2>2, InRingSet DEF TableTypeOK, Rings, DialRings, AddRings, NoInvites
  <2>4. R \in SUBSET (CallIds \X Users)
    BY DEF RingSet
  <2>5. RingSet' = R
    <3> HIDE DEF R
    <3> QED  BY <2>3, <2>4, RingSetStep
  <2>6. QED
    BY <2>1, <2>2, <2>5, SwLeave
<1>3. QED
  BY <1>1, <1>2

(* A ring ends: the table loses it, and nothing else that rings.           *)
LEMMA RingGone ==
  ASSUME NEW c \in CallIds, NEW u \in Users,
         \A d \in CallIds, w \in Users :
           Rings(d, w)' <=> Rings(d, w) /\ ~(d = c /\ w = u)
  PROVE  RingSet' = RingSet \ {<<c, u>>}
<1> DEFINE R == RingSet \ {<<c, u>>}
<1>1. \A d \in CallIds, w \in Users : <<d, w>> \in R <=> Rings(d, w)'
  BY InRingSet
<1>2. R \in SUBSET (CallIds \X Users)
  BY DEF RingSet
<1>3. RingSet' = R
  <2> HIDE DEF R
  <2> QED  BY <1>1, <1>2, RingSetStep
<1>4. QED
  BY <1>3

(* A ring starts.                                                          *)
LEMMA RingNew ==
  ASSUME NEW c \in CallIds, NEW u \in Users,
         \A d \in CallIds, w \in Users :
           Rings(d, w)' <=> Rings(d, w) \/ (d = c /\ w = u)
  PROVE  RingSet' = RingSet \union {<<c, u>>}
<1> DEFINE R == RingSet \union {<<c, u>>}
<1>1. \A d \in CallIds, w \in Users : <<d, w>> \in R <=> Rings(d, w)'
  BY InRingSet
<1>2. R \in SUBSET (CallIds \X Users)
  BY DEF RingSet
<1>3. RingSet' = R
  <2> HIDE DEF R
  <2> QED  BY <1>1, <1>2, RingSetStep
<1>4. QED
  BY <1>3

(* Reject and CancelAdd of a conference ring, outstanding or not.          *)
LEMMA WithdrawStep ==
  ASSUME SwitchTable, NEW c \in CallIds, NEW u \in Users, state[c] = "active",
         invites' = [invites EXCEPT ![c][u] = NoUser],
         UNCHANGED <<state, callee, parts>>
  PROVE  SwitchStep
<1>0. TableTypeOK
  BY DEF SwitchTable
<1>1. \A d \in CallIds, w \in Users :
        Rings(d, w)' <=> Rings(d, w) /\ ~(d = c /\ w = u)
  BY <1>0 DEF TableTypeOK, Rings, DialRings, AddRings
<1>2. RingSet' = RingSet \ {<<c, u>>}
  BY <1>1, RingGone
<1>3. CASE Rings(c, u)
  BY <1>2, <1>3, SwEndRing DEF SwitchStep
<1>4. CASE ~Rings(c, u)
  BY <1>2, <1>4, InRingSet DEF SwitchStep
<1>5. QED
  BY <1>3, <1>4

LEMMA ReapStep ==
  ASSUME SwitchTable, NEW u \in Users, ReapRings(u)
  PROVE  SwitchStep
<1> USE RegistryAssumption
<1>0. TableTypeOK
  BY DEF SwitchTable
<1>1. /\ state' = [c \in CallIds |-> IF DialRings(c, u) THEN "over" ELSE state[c]]
      /\ callee' = [c \in CallIds |-> IF DialRings(c, u) THEN NoUser ELSE callee[c]]
      /\ parts' = [c \in CallIds |-> IF DialRings(c, u) THEN {} ELSE parts[c]]
      /\ invites' = [c \in CallIds |-> [invites[c] EXCEPT ![u] = NoUser]]
  BY DEF ReapRings
<1>2. \A d \in CallIds, w \in Users : Rings(d, w)' <=> Rings(d, w) /\ w # u
  BY <1>0, <1>1 DEF TableTypeOK, Rings, DialRings, AddRings
<1>3. CASE BeingRung(u)
  <2>1. PICK c \in CallIds : Rings(c, u)
    BY <1>3 DEF BeingRung
  <2>2. \A d \in CallIds : Rings(d, u) => d = c
    BY <2>1 DEF SwitchTable, OneRingPerCallee
  <2>3. RingSet' = RingSet \ {<<c, u>>}
    BY <1>2, <2>2, RingGone
  <2>4. CASE DialRings(c, u)
    <3>1. parts' = [parts EXCEPT ![c] = {}]
      BY <1>0, <1>1, <2>2, <2>4 DEF TableTypeOK, Rings
    <3>2. \E s \in Sessions : parts[c] = {s}
      BY <2>4 DEF SwitchTable, CallShape, DialRings
    <3>3. QED
      BY <2>1, <2>3, <3>1, <3>2, SwEndRing DEF SwitchStep
  <2>5. CASE ~DialRings(c, u)
    <3>1. parts' = parts
      BY <1>0, <1>1, <2>2, <2>5 DEF TableTypeOK, Rings
    <3>2. QED
      BY <2>1, <2>3, <3>1, SwEndRing DEF SwitchStep
  <2>6. QED
    BY <2>4, <2>5
<1>4. CASE ~BeingRung(u)
  <2>1. parts' = parts
    BY <1>0, <1>1, <1>4 DEF TableTypeOK, BeingRung, Rings
  <2>2. \A d \in CallIds, w \in Users : Rings(d, w)' <=> Rings(d, w)
    BY <1>2, <1>4 DEF BeingRung
  <2>3. RingSet' = RingSet
    <3>1. \A d \in CallIds, w \in Users : <<d, w>> \in RingSet <=> Rings(d, w)'
      BY <2>2, InRingSet
    <3>2. QED
      BY <3>1, RingSetStep DEF RingSet
  <2>4. QED
    BY <2>1, <2>3 DEF SwitchStep
<1>5. QED
  BY <1>3, <1>4


-----------------------------------------------------------------------------
(* Dial, of a session that is in no call.                                   *)
LEMMA PlaceStep ==
  ASSUME SwitchTable, NEW s \in Sessions, NEW c \in CallIds, NEW u \in Users,
         ~InCall(s), Dial(s, u, c)
  PROVE  SwitchStep
<1>0. TableTypeOK
  BY DEF SwitchTable
<1>1. parts[c] = {} /\ ~BeingRung(u) /\ ~Rings(c, u)
  BY DEF Dial, Admit, SwitchTable, CallShape, Exists, BeingRung
<1>2. \A d \in CallIds, w \in Users :
        Rings(d, w)' <=> Rings(d, w) \/ (d = c /\ w = u)
  BY <1>0 DEF Dial, SwitchTable, CallShape, TableTypeOK, Rings, DialRings, AddRings
<1>3. QED
  BY <1>1, <1>2, RingNew, SwPlace DEF Dial, SwitchStep

(* Add, to a call that has participants.                                   *)
LEMMA InviteStep ==
  ASSUME SwitchTable, NEW w \in Users, NEW c \in CallIds, NEW u \in Users,
         Add(w, u, c)
  PROVE  SwitchStep
<1>0. TableTypeOK /\ RegistryAssumption
  BY RegistryAssumption DEF SwitchTable
<1>1. parts[c] # {} /\ ~BeingRung(u) /\ parts' = parts
  BY DEF Add, Admit, SwitchTable, CallShape
<1>2. \A d \in CallIds, v \in Users :
        Rings(d, v)' <=> Rings(d, v) \/ (d = c /\ v = u)
  BY <1>0 DEF Add, TableTypeOK, Rings, DialRings, AddRings, RegistryAssumption
<1>3. QED
  BY <1>1, <1>2, RingNew, SwInvite DEF SwitchStep

(* Answer, by a session that is in no call and was rung for this one.      *)
LEMMA JoinStep ==
  ASSUME SwitchTable, NEW s \in Sessions, NEW c \in CallIds,
         ~InCall(s), state[c] = "pending" => callee[c] = Owner[s], Answer(s, c)
  PROVE  SwitchStep
<1> USE RegistryAssumption
<1>0. TableTypeOK
  BY DEF SwitchTable
<1>1. Owner[s] \in Users /\ parts' = [parts EXCEPT ![c] = parts[c] \union {s}]
  BY DEF Answer, AnswerDial, AnswerAdd
<1>2. Rings(c, Owner[s])
  BY DEF Answer, AnswerDial, AnswerAdd, Rings, DialRings
<1>3. \A d \in CallIds, w \in Users :
        Rings(d, w)' <=> Rings(d, w) /\ ~(d = c /\ w = Owner[s])
  <2>1. CASE AnswerDial(s, c)
    BY <1>0, <1>1, <1>2, <2>1 DEF AnswerDial, SwitchTable, CallShape, TableTypeOK, Rings,
        DialRings, AddRings
  <2>2. CASE AnswerAdd(s, c)
    BY <1>0, <1>1, <2>2 DEF AnswerAdd, TableTypeOK, Rings, DialRings, AddRings
  <2>3. QED
    BY <2>1, <2>2 DEF Answer
<1>4. QED
  BY <1>1, <1>2, <1>3, RingGone, SwJoin DEF SwitchStep

(* Reject, on behalf of an account that was rung for this call.            *)
LEMMA RefuseStep ==
  ASSUME SwitchTable, NEW u \in Users, NEW c \in CallIds,
         state[c] = "pending" => callee[c] = u, Reject(u, c)
  PROVE  SwitchStep
<1> USE RegistryAssumption
<1>0. TableTypeOK
  BY DEF SwitchTable
<1>1. CASE RejectDial(u, c)
  <2>1. DialRings(c, u) /\ \E r \in Sessions : parts[c] = {r}
    BY <1>1 DEF RejectDial, DialRings, SwitchTable, CallShape
  <2>2. \A d \in CallIds, w \in Users :
          Rings(d, w)' <=> Rings(d, w) /\ ~(d = c /\ w = u)
    BY <1>0, <1>1, <2>1 DEF RejectDial, SwitchTable, CallShape, TableTypeOK, Rings,
        DialRings, AddRings
  <2>3. QED
    BY <1>1, <2>1, <2>2, RingGone, SwEndRing DEF RejectDial, Rings, SwitchStep
<1>2. CASE RejectAdd(u, c)
  BY <1>2, WithdrawStep DEF RejectAdd
<1>3. QED
  BY <1>1, <1>2 DEF Reject

(* What the table does not do, and what the rings' goroutines do.          *)
LEMMA SameStep ==
  ASSUME UNCHANGED <<state, callee, parts, invites>>
  PROVE  SwitchStep
BY RingSetSame DEF SwitchStep

(* HangupSession, Unregister and ReapUnreachableRings.                     *)
LEMMA TeardownStep ==
  ASSUME SwitchTable, NEW s \in Sessions,
         \/ HangupSession(s)
         \/ Unregister(s) /\ UNCHANGED tableVars
         \/ ReapUnreachableRings(s)
  PROVE  SwitchStep
<1> USE RegistryAssumption
<1>1. CASE UNCHANGED <<state, callee, parts, invites>>
  BY <1>1, SameStep
<1>2. CASE HangupSession(s)
  BY <1>1, <1>2, LeaveStep DEF HangupSession, SwitchStep
<1>3. CASE ReapUnreachableRings(s)
  BY <1>1, <1>3, ReapStep DEF ReapUnreachableRings
<1>4. QED
  BY <1>1, <1>2, <1>3 DEF tableVars

(* No step of the switchboard gives an account a second ring.              *)
LEMMA OneRingKept ==
  ASSUME OneRingPerCallee, SwitchStep
  PROVE  OneRingPerCallee'
<1> SUFFICES ASSUME NEW u \in Users, NEW c \in CallIds, NEW d \in CallIds,
                    Rings(c, u)', Rings(d, u)'
             PROVE  c = d
  BY DEF OneRingPerCallee
<1>1. /\ <<c, u>> \in RingSet' /\ <<d, u>> \in RingSet'
      /\ Rings(c, u) /\ Rings(d, u) => c = d
      /\ <<c, u>> \in RingSet <=> Rings(c, u)
      /\ <<d, u>> \in RingSet <=> Rings(d, u)
  BY DEF RingSet, OneRingPerCallee
<1>2. CASE RingSet' \subseteq RingSet
  BY <1>1, <1>2
<1>3. CASE \E b \in CallIds, w \in Users :
             SW!Unrung(w) /\ RingSet' = RingSet \union {<<b, w>>}
  BY <1>1, <1>3 DEF SW!Unrung, RingSet
<1>4. QED
  BY <1>2, <1>3
  DEF SwitchStep, SW!Next, SW!Place, SW!Invite, SW!EndRing, SW!Join, SW!Leave, RingSet

-----------------------------------------------------------------------------
LEMMA SwitchInit == TableInit => SW!Init
BY RegistryAssumption DEF TableInit, SW!Init, Rings, DialRings, AddRings, NoInvites

LEMMA SwitchNext == SwitchStep => [SW!Next]_(SW!swVars)
BY DEF SwitchStep, SW!swVars, RingSet

=============================================================================

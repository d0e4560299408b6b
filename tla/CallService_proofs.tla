------------------------- MODULE CallService_proofs -------------------------
(***************************************************************************)
(* Proofs about CallService, for every set of accounts, sessions and calls *)
(* and every capacity of the notify channels.                              *)
(***************************************************************************)
EXTENDS CallService, CallTable_refinement, SequenceTheorems, TLAPS

(* A queue of events that respects the capacity of its channel.            *)
Mailbox == {q \in Seq(Event) : Len(q) <= NotifyCap}

Maildir == [Sessions -> Mailbox]

(* What the typing of the table and of the prompts says, queues aside.     *)
CoreTypeOK ==
  /\ phase \in [Sessions -> Phases]
  /\ TableTypeOK
  /\ rung \in [Sessions -> SUBSET CallIds]

-----------------------------------------------------------------------------
(* SendToSession keeps every queue typed and within its capacity.          *)
LEMMA PostTyped ==
  ASSUME NEW queues \in Maildir, NEW mail,
         \A s \in Sessions : s \in DOMAIN mail => mail[s] \in Event
  PROVE  Post(queues, mail) \in Maildir
<1>1. ASSUME NEW s \in Sessions
      PROVE  Post(queues, mail)[s] \in Mailbox
  <2>1. queues[s] \in Mailbox
    BY DEF Maildir
  <2>2. CASE s \in DOMAIN mail /\ phase[s] = "live" /\ Len(queues[s]) < NotifyCap
    <3>1. Append(queues[s], mail[s]) \in Seq(Event)
      BY <2>1, <2>2 DEF Mailbox
    <3>2. Len(Append(queues[s], mail[s])) = Len(queues[s]) + 1
      BY <2>1, <2>2, AppendProperties DEF Mailbox
    <3>3. QED
      BY <2>1, <2>2, <3>1, <3>2, LenProperties, RegistryAssumption
      DEF Mailbox, Post
  <2>3. CASE ~(s \in DOMAIN mail /\ phase[s] = "live" /\ Len(queues[s]) < NotifyCap)
    BY <2>1, <2>3 DEF Post
  <2>4. QED
    BY <2>2, <2>3
<1>2. QED
  BY <1>1 DEF Post, Maildir

LEMMA SendTyped ==
  ASSUME NEW queues \in Maildir, NEW targets, NEW event \in Event
  PROVE  Send(queues, targets, event) \in Maildir
BY PostTyped DEF Send

(* Every event constructor builds an event.                                *)
LEMMA EventsTyped ==
  ASSUME NEW c \in CallIds, NEW u \in Users, NEW w \in Users
  PROVE  /\ Ring(c, u) \in Event /\ Ringing(c, u) \in Event
         /\ Answered(c, u) \in Event /\ Elsewhere(c, u) \in Event
         /\ Declined(c, u) \in Event /\ Left(c, w) \in Event
         /\ Cancelled(c, w, u) \in Event
         /\ Lost("gone", c, u) \in Event /\ Lost("unavailable", c, u) \in Event
BY DEF Ring, Ringing, Answered, Elsewhere, Declined, Left, Cancelled, Lost,
       Event, EventTypes

(* TypeOK, with the two conjuncts about queues said at once.               *)
LEMMA TypeSplit == TypeOK <=> CoreTypeOK /\ notify \in Maildir
<1>1. (notify \in [Sessions -> Seq(Event)]
        /\ \A s \in Sessions : Len(notify[s]) <= NotifyCap)
      <=> notify \in Maildir
  BY DEF Maildir, Mailbox
<1>2. QED
  BY <1>1 DEF TypeOK, RegTypeOK, CoreTypeOK

-----------------------------------------------------------------------------
(* Each operation keeps the table, the life of the sessions and what they  *)
(* heard well typed.                                                       *)
LEMMA RingableIsSession ==
  ASSUME NEW u
  PROVE  Ringable(u) \subseteq Sessions /\ SessionsOf(u) \subseteq Sessions
BY DEF Ringable, SessionsOf, Registered

LEMMA HeardTyped ==
  ASSUME CoreTypeOK, NEW S, NEW c \in CallIds, Hear(S, c)
  PROVE  rung' \in [Sessions -> SUBSET CallIds]
BY DEF CoreTypeOK, Hear

LEMMA HangupTyped ==
  ASSUME CoreTypeOK, notify \in Maildir,
         NEW c \in CallIds, NEW s \in Sessions, s \in parts[c],
         HangupLocked(c, s, notify)
  PROVE  /\ state' \in [CallIds -> CallStates]
         /\ callee' \in [CallIds -> Users \union {NoUser}]
         /\ parts' \in [CallIds -> SUBSET Sessions]
         /\ invites' \in [CallIds -> [Users -> Users \union {NoUser}]]
         /\ notify' \in Maildir
<1>1. CASE parts[c] \ {s} # {}
  <2>1. /\ parts' = [parts EXCEPT ![c] = parts[c] \ {s}]
        /\ notify' = Send(notify, parts[c] \ {s}, Left(c, Owner[s]))
        /\ UNCHANGED <<state, callee, invites>>
    BY <1>1 DEF HangupLocked
  <2>2. Left(c, Owner[s]) \in Event
    BY RegistryAssumption DEF Left, Event, EventTypes
  <2>3. notify' \in Maildir
    BY <2>1, <2>2, SendTyped
  <2>4. QED
    BY <2>1, <2>3 DEF CoreTypeOK, TableTypeOK
<1>2. CASE parts[c] \ {s} = {}
  <2> DEFINE rang == {r \in Sessions : Rings(c, Owner[r])}
             mail == [r \in rang |->
                        Cancelled(c, Canceller(c, s, Owner[r]), Owner[r])]
  <2>1. /\ parts' = [parts EXCEPT ![c] = {}]
        /\ state' = [state EXCEPT ![c] = "over"]
        /\ callee' = [callee EXCEPT ![c] = NoUser]
        /\ invites' = [invites EXCEPT ![c] = NoInvites]
        /\ notify' = Post(notify, mail)
    BY <1>2 DEF HangupLocked
  <2>2. ASSUME NEW r \in rang
        PROVE  Cancelled(c, Canceller(c, s, Owner[r]), Owner[r]) \in Event
    BY RegistryAssumption
    DEF Cancelled, Canceller, Event, EventTypes, CoreTypeOK, TableTypeOK
  <2>3. notify' \in Maildir
    BY <2>1, <2>2, PostTyped
  <2>4. QED
    BY <2>1, <2>3 DEF CoreTypeOK, TableTypeOK, CallStates, NoInvites
<1>3. QED
  BY <1>1, <1>2

LEMMA ReapTyped ==
  ASSUME CoreTypeOK, notify \in Maildir, NEW u \in Users, ReapRings(u)
  PROVE  /\ state' \in [CallIds -> CallStates]
         /\ callee' \in [CallIds -> Users \union {NoUser}]
         /\ parts' \in [CallIds -> SUBSET Sessions]
         /\ invites' \in [CallIds -> [Users -> Users \union {NoUser}]]
         /\ notify' \in Maildir
<1> DEFINE why == IF Connected(u) THEN "unavailable" ELSE "gone"
           dead == {c \in CallIds : DialRings(c, u)}
           lost == dead \union {c \in CallIds : AddRings(c, u)}
           told == {s \in Sessions : \E c \in lost : s \in parts[c]}
           mail == [s \in told |-> Lost(why, CHOOSE c \in lost : s \in parts[c], u)]
<1>1. /\ state' = [c \in CallIds |-> IF c \in dead THEN "over" ELSE state[c]]
      /\ callee' = [c \in CallIds |-> IF c \in dead THEN NoUser ELSE callee[c]]
      /\ parts' = [c \in CallIds |-> IF c \in dead THEN {} ELSE parts[c]]
      /\ invites' = [c \in CallIds |-> [invites[c] EXCEPT ![u] = NoUser]]
      /\ notify' = Post(notify, mail)
  BY DEF ReapRings
<1>2. ASSUME NEW s \in told
      PROVE  mail[s] \in Event
  <2>1. PICK c \in lost : s \in parts[c]
    OBVIOUS
  <2>2. (CHOOSE d \in lost : s \in parts[d]) \in CallIds
    BY <2>1
  <2>3. QED
    BY <2>2, EventsTyped DEF Lost
<1>3. notify' \in Maildir
  <2> HIDE DEF mail
  <2>1. DOMAIN mail = told
    BY DEF mail
  <2>2. \A s \in Sessions : s \in DOMAIN mail => mail[s] \in Event
    BY <1>2, <2>1
  <2>3. QED
    BY <1>1, <2>2, PostTyped
<1>4. QED
  BY <1>1, <1>3 DEF CoreTypeOK, TableTypeOK, CallStates

-----------------------------------------------------------------------------
(* Typing, one step per operation.                                         *)
LEMMA InitTyped == Init => TypeOK
<1> SUFFICES ASSUME Init PROVE TypeOK
  OBVIOUS
<1>1. CoreTypeOK
  BY DEF Init, RegInit, TableInit, CoreTypeOK, TableTypeOK, Phases, CallStates,
         NoInvites
<1>2. << >> \in Mailbox
  BY RegistryAssumption, EmptySeq, LenProperties DEF Mailbox
<1>3. notify \in Maildir
  BY <1>2 DEF Init, RegInit, Maildir
<1>4. QED
  BY <1>1, <1>3, TypeSplit

LEMMA NextTyped == TypeOK /\ [Next]_vars => TypeOK'
<1> SUFFICES ASSUME TypeOK, [Next]_vars
             PROVE  CoreTypeOK' /\ notify' \in Maildir
  <2>1. (TypeOK <=> CoreTypeOK /\ notify \in Maildir)'
    BY TypeSplit, PTL
  <2>2. Maildir' = Maildir
    BY DEF Maildir, Mailbox, Event, EventTypes
  <2>3. QED
    BY <2>1, <2>2
<1>0. CoreTypeOK /\ notify \in Maildir
  BY TypeSplit
<1> USE RegistryAssumption
<1>1. ASSUME NEW s \in Sessions, Connect(s)
      PROVE  CoreTypeOK' /\ notify' \in Maildir
  BY <1>0, <1>1
  DEF Connect, Register, tableVars, CoreTypeOK, TableTypeOK, Phases
<1>2. ASSUME NEW s \in Sessions, Disconnect(s)
      PROVE  CoreTypeOK' /\ notify' \in Maildir
  <2>1. CoreTypeOK'
    BY <1>0, <1>2 DEF Disconnect, Drop, tableVars, CoreTypeOK, TableTypeOK, Phases
  <2>2. << >> \in Mailbox
    BY EmptySeq, LenProperties DEF Mailbox
  <2>3. notify' \in Maildir
    BY <1>0, <1>2, <2>2 DEF Disconnect, Drop, Maildir
  <2>4. QED
    BY <2>1, <2>3
<1>3. ASSUME NEW s \in Sessions, HangupSession(s), UNCHANGED rung
      PROVE  CoreTypeOK' /\ notify' \in Maildir
  <2>1. CASE \E c \in CallIds : s \in parts[c] /\ HangupLocked(c, s, notify)
    BY <1>0, <1>3, <2>1, HangupTyped
    DEF HangupSession, CoreTypeOK, TableTypeOK, Phases
  <2>2. CASE UNCHANGED <<state, callee, parts, invites, notify>>
    BY <1>0, <1>3, <2>2 DEF HangupSession, CoreTypeOK, TableTypeOK, Phases
  <2>3. QED
    BY <1>3, <2>1, <2>2 DEF HangupSession
<1>4. ASSUME NEW s \in Sessions, Unregister(s), UNCHANGED <<tableVars, rung>>
      PROVE  CoreTypeOK' /\ notify' \in Maildir
  BY <1>0, <1>4 DEF Unregister, tableVars, CoreTypeOK, TableTypeOK, Phases
<1>5. ASSUME NEW s \in Sessions, ReapUnreachableRings(s), UNCHANGED rung
      PROVE  CoreTypeOK' /\ notify' \in Maildir
  <2>1. CASE ReapRings(Owner[s])
    BY <1>0, <1>5, <2>1, ReapTyped
    DEF ReapUnreachableRings, CoreTypeOK, TableTypeOK, Phases
  <2>2. CASE UNCHANGED <<state, callee, parts, invites, notify>>
    BY <1>0, <1>5, <2>2 DEF ReapUnreachableRings, CoreTypeOK, TableTypeOK, Phases
  <2>3. QED
    BY <1>5, <2>1, <2>2 DEF ReapUnreachableRings
<1>6. ASSUME NEW s \in Sessions, NEW c \in CallIds, AcceptCall(s, c)
      PROVE  CoreTypeOK' /\ notify' \in Maildir
  <2>1. CASE AnswerDial(s, c)
    <3>1. CoreTypeOK'
      BY <1>0, <1>6, <2>1
      DEF AcceptCall, AnswerDial, CoreTypeOK, TableTypeOK, CallStates
    <3>2. notify' \in Maildir
      BY <1>0, <2>1, SendTyped, EventsTyped DEF AnswerDial
    <3>3. QED
      BY <3>1, <3>2
  <2>2. CASE AnswerAdd(s, c)
    <3>1. CoreTypeOK'
      BY <1>0, <1>6, <2>2 DEF AcceptCall, AnswerAdd, CoreTypeOK, TableTypeOK
    <3>2. notify' \in Maildir
      BY <1>0, <2>2, SendTyped, EventsTyped DEF AnswerAdd
    <3>3. QED
      BY <3>1, <3>2
  <2>3. QED
    BY <1>6, <2>1, <2>2 DEF AcceptCall, Answer
<1>7. ASSUME NEW s \in Sessions, NEW c \in CallIds, DeclineCall(s, c)
      PROVE  CoreTypeOK' /\ notify' \in Maildir
  <2>1. CASE RejectDial(Owner[s], c)
    <3>1. CoreTypeOK'
      BY <1>0, <1>7, <2>1
      DEF DeclineCall, RejectDial, CoreTypeOK, TableTypeOK, CallStates
    <3>2. notify' \in Maildir
      BY <1>0, <2>1, SendTyped, EventsTyped DEF RejectDial
    <3>3. QED
      BY <3>1, <3>2
  <2>2. CASE RejectAdd(Owner[s], c)
    <3>1. CoreTypeOK'
      BY <1>0, <1>7, <2>2 DEF DeclineCall, RejectAdd, CoreTypeOK, TableTypeOK
    <3>2. notify' \in Maildir
      BY <1>0, <2>2, SendTyped, EventsTyped DEF RejectAdd
    <3>3. QED
      BY <3>1, <3>2
  <2>3. QED
    BY <1>7, <2>1, <2>2 DEF DeclineCall, Reject
<1>8. ASSUME NEW s \in Sessions, NEW c \in CallIds, LeaveCall(s, c)
      PROVE  CoreTypeOK' /\ notify' \in Maildir
  BY <1>0, <1>8, HangupTyped DEF LeaveCall, Hangup, CoreTypeOK, TableTypeOK
<1>9. ASSUME NEW s \in Sessions, NEW c \in CallIds, NEW u \in Users,
             PlaceCall(s, u, c)
      PROVE  CoreTypeOK' /\ notify' \in Maildir
  <2>1. rung' \in [Sessions -> SUBSET CallIds]
    BY <1>0, <1>9, HeardTyped DEF PlaceCall
  <2>2. CoreTypeOK'
    BY <1>0, <1>9, <2>1 DEF PlaceCall, Dial, CoreTypeOK, TableTypeOK, CallStates
  <2>3. notify' \in Maildir
    BY <1>0, <1>9, SendTyped, EventsTyped DEF PlaceCall, Dial
  <2>4. QED
    BY <2>2, <2>3
<1>10. ASSUME NEW s \in Sessions, NEW c \in CallIds, NEW u \in Users,
              Invite(s, u, c)
       PROVE  CoreTypeOK' /\ notify' \in Maildir
  <2>1. rung' \in [Sessions -> SUBSET CallIds]
    BY <1>0, <1>10, HeardTyped DEF Invite
  <2>2. CoreTypeOK'
    BY <1>0, <1>10, <2>1 DEF Invite, Add, CoreTypeOK, TableTypeOK
  <2>3. notify' \in Maildir
    BY <1>0, <1>10, SendTyped, EventsTyped DEF Invite, Add
  <2>4. QED
    BY <2>2, <2>3
<1>11. ASSUME NEW s \in Sessions, NEW c \in CallIds, NEW u \in Users,
              CancelInvite(s, u, c)
       PROVE  CoreTypeOK' /\ notify' \in Maildir
  <2>1. CoreTypeOK'
    BY <1>0, <1>11 DEF CancelInvite, CancelAdd, CoreTypeOK, TableTypeOK
  <2>2. notify' \in Maildir
    BY <1>0, <1>11, SendTyped, EventsTyped DEF CancelInvite, CancelAdd
  <2>3. QED
    BY <2>1, <2>2
<1>12. ASSUME NEW g \in Ringers, Tick(g), UNCHANGED rung
       PROVE  CoreTypeOK' /\ notify' \in Maildir
  BY <1>0, <1>12 DEF Tick, CoreTypeOK, TableTypeOK
<1>13. ASSUME NEW g \in ticked, RingAgain(g)
       PROVE  CoreTypeOK' /\ notify' \in Maildir
  <2>0. g \in Ringers /\ g.call \in CallIds /\ g.to \in Users
    BY <1>0 DEF CoreTypeOK, TableTypeOK, Ringers
  <2>1. rung' \in [Sessions -> SUBSET CallIds]
    BY <1>0, <1>13, <2>0, HeardTyped DEF RingAgain, CoreTypeOK
  <2>2. CoreTypeOK'
    BY <1>0, <1>13, <2>1 DEF RingAgain, ReRing, CoreTypeOK, TableTypeOK
  <2>3. notify' \in Maildir
    BY <1>0, <1>13, <2>0, SendTyped, EventsTyped DEF RingAgain, ReRing
  <2>4. QED
    BY <2>2, <2>3
<1>14. CASE UNCHANGED vars
  BY <1>0, <1>14 DEF vars, regVars, tableVars, CoreTypeOK, TableTypeOK
<1>15. QED
  BY <1>1, <1>2, <1>3, <1>4, <1>5, <1>6, <1>7, <1>8, <1>9, <1>10, <1>11, <1>12,
     <1>13, <1>14 DEF Next, Teardown

(* The queues, the table and the life of every session keep their types    *)
(* whatever the accounts, sessions, calls and channel capacity are.        *)
THEOREM Typing == Spec => []TypeOK
BY InitTyped, NextTyped, PTL DEF Spec

-----------------------------------------------------------------------------
(* The table invariants: everything in IInv that is not about queues.      *)
TableInv ==
  /\ CoreTypeOK
  /\ OneRingPerCallee
  /\ CallShape
  /\ OneCallPerSession
  /\ NoPhantom
  /\ RingHasReach
  /\ RingReachesCalleeOnly
  /\ MemoryIsOfCalls

(* Dial: admission is what keeps one ring per callee.                      *)
LEMMA DialKeeps ==
  ASSUME TableInv, CoreTypeOK',
         NEW s \in Sessions, NEW c \in CallIds, NEW u \in Users,
         PlaceCall(s, u, c)
  PROVE  TableInv'
<1> USE RegistryAssumption
<1>0. /\ phase[s] = "live" /\ ~InCall(s) /\ state[c] = "unused"
      /\ Owner[s] # u /\ Connected(u) /\ ~BeingRung(u)
      /\ state' = [state EXCEPT ![c] = "pending"]
      /\ callee' = [callee EXCEPT ![c] = u]
      /\ parts' = [parts EXCEPT ![c] = {s}]
      /\ phase' = phase /\ invites' = invites /\ ticked' = ticked
      /\ rung' = [r \in Sessions |->
                    IF r \in Ringable(u) /\ phase[r] = "live"
                    THEN rung[r] \union {c} ELSE rung[r]]
  BY DEF PlaceCall, Dial, Admit, Hear
<1>1. CoreTypeOK /\ TableTypeOK
  BY DEF TableInv, CoreTypeOK
<1>2. OneRingPerCallee'
  BY <1>0, <1>1 DEF TableInv, TableTypeOK, OneRingPerCallee, CallShape, BeingRung, Rings, DialRings, AddRings
<1>3. CallShape'
  BY <1>0, <1>1 DEF TableInv, TableTypeOK, CallShape, OneCallPerSession, Exists, AddRings, NoInvites
<1>4. OneCallPerSession'
  BY <1>0, <1>1 DEF TableInv, TableTypeOK, OneCallPerSession, CallShape, InCall, Exists
<1>5. NoPhantom'
  BY <1>0, <1>1 DEF TableInv, TableTypeOK, NoPhantom, OneCallPerSession, InCall
<1>6. RingHasReach'
  BY <1>0, <1>1 DEF TableInv, TableTypeOK, RingHasReach, BeingRung, Rings, DialRings,
      AddRings, Connected, SessionsOf, Registered, NoInvites
<1>7. RingReachesCalleeOnly'
  BY <1>0, <1>1 DEF TableInv, TableTypeOK, CoreTypeOK, RingReachesCalleeOnly,
      MemoryIsOfCalls, Ringable, SessionsOf, Exists
<1>8. MemoryIsOfCalls'
  BY <1>0, <1>1 DEF TableInv, TableTypeOK, CoreTypeOK, MemoryIsOfCalls, Ringers, Exists,
      DialRings, AddRings, CallShape
<1>9. QED
  BY <1>2, <1>3, <1>4, <1>5, <1>6, <1>7, <1>8 DEF TableInv

(* Add shares the admission rule with Dial.                                *)
LEMMA AddKeeps ==
  ASSUME TableInv, CoreTypeOK',
         NEW s \in Sessions, NEW c \in CallIds, NEW u \in Users,
         Invite(s, u, c)
  PROVE  TableInv'
<1> USE RegistryAssumption
<1>0. /\ state[c] = "active" /\ Connected(u) /\ ~BeingRung(u)
      /\ invites' = [invites EXCEPT ![c][u] = Owner[s]]
      /\ phase' = phase /\ state' = state /\ callee' = callee
      /\ parts' = parts /\ ticked' = ticked
      /\ rung' = [r \in Sessions |->
                    IF r \in Ringable(u) /\ phase[r] = "live"
                    THEN rung[r] \union {c} ELSE rung[r]]
  BY DEF Invite, Add, Admit, Hear
<1>1. CoreTypeOK /\ TableTypeOK
  BY DEF TableInv, CoreTypeOK
<1>2. OneRingPerCallee'
  BY <1>0, <1>1 DEF TableInv, TableTypeOK, OneRingPerCallee, CallShape, BeingRung, Rings, DialRings, AddRings
<1>3. CallShape'
  BY <1>0, <1>1 DEF TableInv, TableTypeOK, CallShape, OneCallPerSession, Exists, AddRings, NoInvites
<1>4. OneCallPerSession'
  BY <1>0, <1>1 DEF TableInv, TableTypeOK, OneCallPerSession, CallShape, InCall, Exists
<1>5. NoPhantom'
  BY <1>0, <1>1 DEF TableInv, TableTypeOK, NoPhantom, OneCallPerSession, InCall
<1>6. RingHasReach'
  BY <1>0, <1>1 DEF TableInv, TableTypeOK, RingHasReach, BeingRung, Rings, DialRings,
      AddRings, Connected, SessionsOf, Registered, NoInvites
<1>7. RingReachesCalleeOnly'
  BY <1>0, <1>1 DEF TableInv, TableTypeOK, CoreTypeOK, RingReachesCalleeOnly,
      MemoryIsOfCalls, Ringable, SessionsOf, Exists
<1>8. MemoryIsOfCalls'
  BY <1>0, <1>1 DEF TableInv, TableTypeOK, CoreTypeOK, MemoryIsOfCalls, Ringers, Exists,
      DialRings, AddRings, CallShape
<1>9. QED
  BY <1>2, <1>3, <1>4, <1>5, <1>6, <1>7, <1>8 DEF TableInv

(* Answer of a pending call.                                               *)
LEMMA AnswerDialKeeps ==
  ASSUME TableInv, CoreTypeOK',
         NEW s \in Sessions, NEW c \in CallIds,
         AcceptCall(s, c), AnswerDial(s, c)
  PROVE  TableInv'
<1> USE RegistryAssumption
<1>0. /\ phase[s] = "live" /\ ~InCall(s) /\ state[c] = "pending"
      /\ state' = [state EXCEPT ![c] = "active"]
      /\ parts' = [parts EXCEPT ![c] = parts[c] \union {s}]
      /\ phase' = phase /\ callee' = callee /\ invites' = invites
      /\ ticked' = ticked /\ rung' = rung
  BY DEF AcceptCall, AnswerDial
<1>1. CoreTypeOK /\ TableTypeOK
  BY DEF TableInv, CoreTypeOK
<1>2. OneRingPerCallee'
  BY <1>0, <1>1 DEF TableInv, TableTypeOK, OneRingPerCallee, CallShape, BeingRung, Rings, DialRings, AddRings
<1>3. CallShape'
  BY <1>0, <1>1 DEF TableInv, TableTypeOK, CallShape, OneCallPerSession, Exists, AddRings, NoInvites
<1>4. OneCallPerSession'
  BY <1>0, <1>1 DEF TableInv, TableTypeOK, OneCallPerSession, CallShape, InCall, Exists
<1>5. NoPhantom'
  BY <1>0, <1>1 DEF TableInv, TableTypeOK, NoPhantom, OneCallPerSession, InCall
<1>6. RingHasReach'
  BY <1>0, <1>1 DEF TableInv, TableTypeOK, RingHasReach, BeingRung, Rings, DialRings,
      AddRings, Connected, SessionsOf, Registered, NoInvites
<1>7. RingReachesCalleeOnly'
  BY <1>0, <1>1 DEF TableInv, TableTypeOK, CoreTypeOK, RingReachesCalleeOnly,
      MemoryIsOfCalls, Ringable, SessionsOf, Exists
<1>8. MemoryIsOfCalls'
  BY <1>0, <1>1 DEF TableInv, TableTypeOK, CoreTypeOK, MemoryIsOfCalls, Ringers, Exists,
      DialRings, AddRings, CallShape
<1>9. QED
  BY <1>2, <1>3, <1>4, <1>5, <1>6, <1>7, <1>8 DEF TableInv

(* Answer of a conference ring.                                            *)
LEMMA AnswerAddKeeps ==
  ASSUME TableInv, CoreTypeOK',
         NEW s \in Sessions, NEW c \in CallIds,
         AcceptCall(s, c), AnswerAdd(s, c)
  PROVE  TableInv'
<1> USE RegistryAssumption
<1>0. /\ phase[s] = "live" /\ ~InCall(s) /\ state[c] = "active"
      /\ parts' = [parts EXCEPT ![c] = parts[c] \union {s}]
      /\ invites' = [invites EXCEPT ![c][Owner[s]] = NoUser]
      /\ phase' = phase /\ callee' = callee /\ state' = state
      /\ ticked' = ticked /\ rung' = rung
  BY DEF AcceptCall, AnswerAdd
<1>1. CoreTypeOK /\ TableTypeOK
  BY DEF TableInv, CoreTypeOK
<1>2. OneRingPerCallee'
  BY <1>0, <1>1 DEF TableInv, TableTypeOK, OneRingPerCallee, CallShape, BeingRung, Rings, DialRings, AddRings
<1>3. CallShape'
  BY <1>0, <1>1 DEF TableInv, TableTypeOK, CallShape, OneCallPerSession, Exists, AddRings, NoInvites
<1>4. OneCallPerSession'
  BY <1>0, <1>1 DEF TableInv, TableTypeOK, OneCallPerSession, CallShape, InCall, Exists
<1>5. NoPhantom'
  BY <1>0, <1>1 DEF TableInv, TableTypeOK, NoPhantom, OneCallPerSession, InCall
<1>6. RingHasReach'
  BY <1>0, <1>1 DEF TableInv, TableTypeOK, RingHasReach, BeingRung, Rings, DialRings,
      AddRings, Connected, SessionsOf, Registered, NoInvites
<1>7. RingReachesCalleeOnly'
  BY <1>0, <1>1 DEF TableInv, TableTypeOK, CoreTypeOK, RingReachesCalleeOnly,
      MemoryIsOfCalls, Ringable, SessionsOf, Exists
<1>8. MemoryIsOfCalls'
  BY <1>0, <1>1 DEF TableInv, TableTypeOK, CoreTypeOK, MemoryIsOfCalls, Ringers, Exists,
      DialRings, AddRings, CallShape
<1>9. QED
  BY <1>2, <1>3, <1>4, <1>5, <1>6, <1>7, <1>8 DEF TableInv

(* Reject of a pending call, which ends with it.                           *)
LEMMA RejectDialKeeps ==
  ASSUME TableInv, CoreTypeOK',
         NEW s \in Sessions, NEW c \in CallIds,
         DeclineCall(s, c), RejectDial(Owner[s], c)
  PROVE  TableInv'
<1> USE RegistryAssumption
<1>0. /\ state[c] = "pending"
      /\ state' = [state EXCEPT ![c] = "over"]
      /\ callee' = [callee EXCEPT ![c] = NoUser]
      /\ parts' = [parts EXCEPT ![c] = {}]
      /\ phase' = phase /\ invites' = invites
      /\ ticked' = ticked /\ rung' = rung
  BY DEF DeclineCall, RejectDial
<1>1. CoreTypeOK /\ TableTypeOK
  BY DEF TableInv, CoreTypeOK
<1>2. OneRingPerCallee'
  BY <1>0, <1>1 DEF TableInv, TableTypeOK, OneRingPerCallee, CallShape, BeingRung, Rings, DialRings, AddRings
<1>3. CallShape'
  BY <1>0, <1>1 DEF TableInv, TableTypeOK, CallShape, OneCallPerSession, Exists, AddRings, NoInvites
<1>4. OneCallPerSession'
  BY <1>0, <1>1 DEF TableInv, TableTypeOK, OneCallPerSession, CallShape, InCall, Exists
<1>5. NoPhantom'
  BY <1>0, <1>1 DEF TableInv, TableTypeOK, NoPhantom, OneCallPerSession, InCall
<1>6. RingHasReach'
  BY <1>0, <1>1 DEF TableInv, TableTypeOK, RingHasReach, BeingRung, Rings, DialRings,
      AddRings, Connected, SessionsOf, Registered, NoInvites
<1>7. RingReachesCalleeOnly'
  BY <1>0, <1>1 DEF TableInv, TableTypeOK, CoreTypeOK, RingReachesCalleeOnly,
      MemoryIsOfCalls, Ringable, SessionsOf, Exists
<1>8. MemoryIsOfCalls'
  BY <1>0, <1>1 DEF TableInv, TableTypeOK, CoreTypeOK, MemoryIsOfCalls, Ringers, Exists,
      DialRings, AddRings, CallShape
<1>9. QED
  BY <1>2, <1>3, <1>4, <1>5, <1>6, <1>7, <1>8 DEF TableInv

(* A conference ring withdrawn, by Reject or by CancelAdd.                 *)
LEMMA WithdrawKeeps ==
  ASSUME TableInv, CoreTypeOK',
         NEW c \in CallIds, NEW u \in Users,
         invites' = [invites EXCEPT ![c][u] = NoUser],
         UNCHANGED <<phase, state, callee, parts, ticked, rung>>
  PROVE  TableInv'
<1> USE RegistryAssumption
<1>0. /\ invites' = [invites EXCEPT ![c][u] = NoUser]
      /\ phase' = phase /\ state' = state /\ callee' = callee /\ parts' = parts
      /\ ticked' = ticked /\ rung' = rung
  OBVIOUS
<1>1. CoreTypeOK /\ TableTypeOK
  BY DEF TableInv, CoreTypeOK
<1>2. OneRingPerCallee'
  BY <1>0, <1>1 DEF TableInv, TableTypeOK, OneRingPerCallee, CallShape, BeingRung, Rings, DialRings, AddRings
<1>3. CallShape'
  BY <1>0, <1>1 DEF TableInv, TableTypeOK, CallShape, OneCallPerSession, Exists, AddRings, NoInvites
<1>4. OneCallPerSession'
  BY <1>0, <1>1 DEF TableInv, TableTypeOK, OneCallPerSession, CallShape, InCall, Exists
<1>5. NoPhantom'
  BY <1>0, <1>1 DEF TableInv, TableTypeOK, NoPhantom, OneCallPerSession, InCall
<1>6. RingHasReach'
  BY <1>0, <1>1 DEF TableInv, TableTypeOK, RingHasReach, BeingRung, Rings, DialRings,
      AddRings, Connected, SessionsOf, Registered, NoInvites
<1>7. RingReachesCalleeOnly'
  BY <1>0, <1>1 DEF TableInv, TableTypeOK, CoreTypeOK, RingReachesCalleeOnly,
      MemoryIsOfCalls, Ringable, SessionsOf, Exists
<1>8. MemoryIsOfCalls'
  BY <1>0, <1>1 DEF TableInv, TableTypeOK, CoreTypeOK, MemoryIsOfCalls, Ringers, Exists,
      DialRings, AddRings, CallShape
<1>9. QED
  BY <1>2, <1>3, <1>4, <1>5, <1>6, <1>7, <1>8 DEF TableInv

(* hangupLocked, from Hangup and from the teardown (where s is past it     *)
(* afterwards): s was in this one call only.                               *)
LEMMA LeaveKeeps ==
  ASSUME TableInv, CoreTypeOK', NEW s \in Sessions, NEW c \in CallIds,
         s \in parts[c], HangupLocked(c, s, notify),
         \/ phase' = phase
         \/ phase[s] = "dropped" /\ phase' = [phase EXCEPT ![s] = "hungup"],
         UNCHANGED <<ticked, rung>>
  PROVE  TableInv'
<1> USE RegistryAssumption
<1>0. CoreTypeOK /\ TableTypeOK
  BY DEF TableInv, CoreTypeOK
<1>1. /\ parts' = [parts EXCEPT ![c] = parts[c] \ {s}]
      /\ ticked' = ticked /\ rung' = rung
      /\ \/ /\ parts[c] \ {s} # {}
            /\ state' = state /\ callee' = callee /\ invites' = invites
         \/ /\ parts[c] \ {s} = {}
            /\ state' = [state EXCEPT ![c] = "over"]
            /\ callee' = [callee EXCEPT ![c] = NoUser]
            /\ invites' = [invites EXCEPT ![c] = NoInvites]
  BY DEF HangupLocked
<1>2. /\ phase' \in [Sessions -> Phases]
      /\ \A r \in Sessions :
           \/ phase'[r] = phase[r]
           \/ r = s /\ phase[r] = "dropped" /\ phase'[r] = "hungup"
  BY <1>0 DEF CoreTypeOK, Phases
<1>3. OneRingPerCallee'
  <2>1. ASSUME NEW u \in Users, NEW d \in CallIds, Rings(d, u)'
        PROVE  Rings(d, u)
    <3>1. \/ state'[d] = state[d] /\ callee'[d] = callee[d]
          \/ state'[d] = "over"
      BY <1>0, <1>1 DEF TableTypeOK
    <3>2. invites'[d][u] = invites[d][u] \/ invites'[d][u] = NoUser
      BY <1>0, <1>1 DEF TableTypeOK, NoInvites
    <3>3. QED
      BY <2>1, <3>1, <3>2 DEF Rings, DialRings, AddRings
  <2>2. QED
    BY <2>1 DEF TableInv, OneRingPerCallee
<1>4. CallShape'
  BY <1>0, <1>1 DEF TableInv, TableTypeOK, CallShape, Exists, AddRings, NoInvites
<1>5. OneCallPerSession'
  BY <1>0, <1>1 DEF TableInv, TableTypeOK, OneCallPerSession
<1>6. NoPhantom'
  BY <1>0, <1>1, <1>2 DEF TableInv, TableTypeOK, NoPhantom, OneCallPerSession
<1>7. RingHasReach'
  BY <1>0, <1>1, <1>2 DEF TableInv, TableTypeOK, RingHasReach, BeingRung, Rings,
      DialRings, AddRings, Connected, SessionsOf, Registered, NoInvites
<1>8. \A d \in CallIds : \/ state'[d] = state[d] /\ callee'[d] = callee[d]
                         \/ state'[d] = "over"
  BY <1>0, <1>1 DEF TableTypeOK
<1>9. RingReachesCalleeOnly'
  BY <1>0, <1>1, <1>8 DEF TableInv, CoreTypeOK, RingReachesCalleeOnly
<1>10. MemoryIsOfCalls'
  BY <1>0, <1>1, <1>8 DEF TableInv, CoreTypeOK, TableTypeOK, MemoryIsOfCalls,
      Ringers
<1>11. QED
  BY <1>3, <1>4, <1>5, <1>6, <1>7, <1>9, <1>10 DEF TableInv

(* ReapUnreachableRings, when nobody of the account can be rung.           *)
LEMMA ReapKeeps ==
  ASSUME TableInv, CoreTypeOK', NEW s \in Sessions,
         ReapUnreachableRings(s), UNCHANGED rung
  PROVE  TableInv'
<1> USE RegistryAssumption
<1> DEFINE u == Owner[s]
<1>0. CoreTypeOK /\ TableTypeOK /\ u \in Users
  BY DEF TableInv, CoreTypeOK
<1>1. /\ phase[s] = "left" /\ phase' = [phase EXCEPT ![s] = "gone"]
      /\ ticked' = ticked /\ rung' = rung
  BY DEF ReapUnreachableRings
<1>2. CASE Ringable(u) # {} /\ UNCHANGED <<state, callee, parts, invites>>
  <2>1. Connected(u)
    BY <1>2 DEF Ringable, Connected
  <2>2. RingHasReach'
    BY <1>0, <1>1, <1>2, <2>1 DEF TableInv, CoreTypeOK, RingHasReach, BeingRung,
        Rings, DialRings, AddRings, Connected, SessionsOf, Registered
  <2>3. NoPhantom'
    BY <1>0, <1>1, <1>2 DEF TableInv, CoreTypeOK, TableTypeOK, NoPhantom
  <2>4. (OneRingPerCallee /\ CallShape /\ OneCallPerSession
           /\ RingReachesCalleeOnly /\ MemoryIsOfCalls)'
    BY <1>1, <1>2 DEF TableInv, OneRingPerCallee, Rings, DialRings, AddRings,
        CallShape, Exists, OneCallPerSession, RingReachesCalleeOnly,
        MemoryIsOfCalls
  <2>5. QED
    BY <2>2, <2>3, <2>4 DEF TableInv
<1>3. CASE ReapRings(u)
  <2>1. /\ \A c \in CallIds :
             IF DialRings(c, u)
             THEN state'[c] = "over" /\ callee'[c] = NoUser /\ parts'[c] = {}
             ELSE state'[c] = state[c] /\ callee'[c] = callee[c]
                  /\ parts'[c] = parts[c]
        /\ \A c \in CallIds : \A w \in Users :
             invites'[c][w] = IF w = u THEN NoUser ELSE invites[c][w]
    BY <1>0, <1>3 DEF ReapRings, TableTypeOK
  <2>2. OneRingPerCallee'
    BY <1>0, <2>1 DEF TableInv, OneRingPerCallee, Rings, DialRings, AddRings
  <2>3. CallShape'
    BY <1>0, <2>1 DEF TableInv, CallShape, Exists, DialRings, AddRings
  <2>4. OneCallPerSession'
    BY <1>0, <2>1 DEF TableInv, OneCallPerSession
  <2>5. NoPhantom'
    BY <1>0, <1>1, <2>1 DEF TableInv, CoreTypeOK, TableTypeOK, NoPhantom
  <2>6. RingHasReach'
    BY <1>0, <1>1, <2>1 DEF TableInv, CoreTypeOK, RingHasReach, BeingRung, Rings,
        DialRings, AddRings, Connected, SessionsOf, Registered
  <2>7. RingReachesCalleeOnly' /\ MemoryIsOfCalls'
    BY <1>0, <1>1, <2>1 DEF TableInv, CoreTypeOK, TableTypeOK,
        RingReachesCalleeOnly, MemoryIsOfCalls, Ringers, DialRings
  <2>8. QED
    BY <2>2, <2>3, <2>4, <2>5, <2>6, <2>7 DEF TableInv
<1>4. QED
  BY <1>2, <1>3 DEF ReapUnreachableRings

(* The steps that leave the table alone: connections, tickers, re-rings.   *)
LEMMA QuietKeeps ==
  ASSUME TableInv, CoreTypeOK', UNCHANGED <<state, callee, parts, invites>>,
         \/ UNCHANGED <<phase, ticked, rung>>
         \/ /\ UNCHANGED ticked
            /\ \E s \in Sessions : Connect(s) \/ Disconnect(s)
         \/ /\ UNCHANGED <<ticked, rung>>
            /\ \E s \in Sessions :
                 Unregister(s) \/ (HangupSession(s) /\ ~InCall(s))
         \/ UNCHANGED <<phase, rung>> /\ \E g \in Ringers : Tick(g)
         \/ UNCHANGED phase /\ \E g \in ticked : RingAgain(g)
  PROVE  TableInv'
<1> USE RegistryAssumption
<1>0. CoreTypeOK /\ TableTypeOK
  BY DEF TableInv, CoreTypeOK
<1>1. (OneRingPerCallee /\ CallShape /\ OneCallPerSession)'
  BY DEF TableInv, OneRingPerCallee, Rings, DialRings, AddRings, CallShape,
      Exists, OneCallPerSession
<1>2. NoPhantom'
  BY <1>0 DEF TableInv, CoreTypeOK, TableTypeOK, NoPhantom, InCall, Connect,
      Register, Disconnect, Drop, Unregister, HangupSession, Tick
<1>3. RingHasReach'
  BY <1>0 DEF TableInv, CoreTypeOK, RingHasReach, BeingRung, Rings, DialRings,
      AddRings, Connected, SessionsOf, Registered, Connect, Register,
      Disconnect, Drop, Unregister, HangupSession, Tick
<1>4. RingReachesCalleeOnly' /\ MemoryIsOfCalls'
  <2>1. CASE UNCHANGED <<ticked, rung>>
    BY <1>0, <2>1 DEF TableInv, RingReachesCalleeOnly, MemoryIsOfCalls
  <2>2. CASE UNCHANGED ticked /\ \E s \in Sessions : Connect(s) \/ Disconnect(s)
    BY <1>0, <2>2 DEF TableInv, CoreTypeOK, RingReachesCalleeOnly, MemoryIsOfCalls,
        Connect, Disconnect
  <2>3. CASE UNCHANGED rung /\ \E g \in Ringers : Tick(g)
    BY <1>0, <2>3 DEF TableInv, TableTypeOK, RingReachesCalleeOnly,
        MemoryIsOfCalls, Ringers, Tick, DialRings, AddRings, CallShape
  <2>4. CASE \E g \in ticked : RingAgain(g)
    <3>1. PICK g \in ticked : RingAgain(g)
      BY <2>4
    <3>2. /\ g.call \in CallIds /\ g.to \in Users
          /\ ticked' = ticked \ {g}
          /\ \A s \in Sessions : \A c \in rung'[s] :
               c \in rung[s] \/ (c = g.call /\ Exists(g.call) /\ Owner[s] = g.to)
      BY <1>0, <3>1 DEF RingAgain, ReRing, Hear, CoreTypeOK, TableTypeOK, Ringers,
          Ringable, SessionsOf
    <3>3. QED
      BY <1>0, <3>2 DEF TableInv, CoreTypeOK, RingReachesCalleeOnly,
          MemoryIsOfCalls, Exists
  <2>5. QED
    BY <2>1, <2>2, <2>3, <2>4
<1>5. QED
  BY <1>1, <1>2, <1>3, <1>4 DEF TableInv

-----------------------------------------------------------------------------
LEMMA InitTable == Init => TableInv
<1> SUFFICES ASSUME Init PROVE TableInv
  OBVIOUS
<1>1. CoreTypeOK
  BY InitTyped, TypeSplit
<1>2. QED
  BY <1>1, RegistryAssumption
  DEF Init, RegInit, TableInit, TableInv, OneRingPerCallee, Rings, DialRings,
      AddRings, CallShape, Exists, OneCallPerSession, NoPhantom, RingHasReach,
      BeingRung, RingReachesCalleeOnly, MemoryIsOfCalls, NoInvites

LEMMA NextTable == TableInv /\ CoreTypeOK' /\ [Next]_vars => TableInv'
<1> SUFFICES ASSUME TableInv, CoreTypeOK', [Next]_vars
             PROVE  TableInv'
  OBVIOUS
<1> USE RegistryAssumption
<1>1. ASSUME NEW s \in Sessions, Connect(s) \/ Disconnect(s)
      PROVE  TableInv'
  BY <1>1, QuietKeeps DEF Connect, Disconnect, tableVars
<1>2. ASSUME NEW s \in Sessions, HangupSession(s), UNCHANGED rung
      PROVE  TableInv'
  <2>1. CASE \E c \in CallIds : s \in parts[c] /\ HangupLocked(c, s, notify)
    BY <1>2, <2>1, LeaveKeeps DEF HangupSession
  <2>2. CASE ~InCall(s) /\ UNCHANGED <<state, callee, parts, invites>>
    BY <1>2, <2>2, QuietKeeps DEF HangupSession
  <2>3. QED
    BY <1>2, <2>1, <2>2 DEF HangupSession
<1>3. ASSUME NEW s \in Sessions, Unregister(s), UNCHANGED <<tableVars, rung>>
      PROVE  TableInv'
  BY <1>3, QuietKeeps DEF tableVars
<1>4. ASSUME NEW s \in Sessions, ReapUnreachableRings(s), UNCHANGED rung
      PROVE  TableInv'
  BY <1>4, ReapKeeps
<1>5. ASSUME NEW s \in Sessions, NEW c \in CallIds, AcceptCall(s, c)
      PROVE  TableInv'
  BY <1>5, AnswerDialKeeps, AnswerAddKeeps DEF AcceptCall, Answer
<1>6. ASSUME NEW s \in Sessions, NEW c \in CallIds, DeclineCall(s, c)
      PROVE  TableInv'
  <2>1. CASE RejectDial(Owner[s], c)
    BY <1>6, <2>1, RejectDialKeeps
  <2>2. CASE RejectAdd(Owner[s], c)
    BY <1>6, <2>2, WithdrawKeeps DEF DeclineCall, RejectAdd
  <2>3. QED
    BY <1>6, <2>1, <2>2 DEF DeclineCall, Reject
<1>7. ASSUME NEW s \in Sessions, NEW c \in CallIds, LeaveCall(s, c)
      PROVE  TableInv'
  BY <1>7, LeaveKeeps DEF LeaveCall, Hangup
<1>8. ASSUME NEW s \in Sessions, NEW c \in CallIds, NEW u \in Users,
             PlaceCall(s, u, c) \/ Invite(s, u, c)
      PROVE  TableInv'
  BY <1>8, DialKeeps, AddKeeps
<1>9. ASSUME NEW s \in Sessions, NEW c \in CallIds, NEW u \in Users,
             CancelInvite(s, u, c)
      PROVE  TableInv'
  BY <1>9, WithdrawKeeps DEF CancelInvite, CancelAdd
<1>10. ASSUME NEW g \in Ringers, Tick(g), UNCHANGED rung
       PROVE  TableInv'
  BY <1>10, QuietKeeps DEF Tick
<1>11. ASSUME NEW g \in ticked, RingAgain(g)
       PROVE  TableInv'
  BY <1>11, QuietKeeps DEF RingAgain, ReRing
<1>12. CASE UNCHANGED vars
  BY <1>12, QuietKeeps DEF vars, regVars, tableVars
<1>13. QED
  BY <1>1, <1>2, <1>3, <1>4, <1>5, <1>6, <1>7, <1>8, <1>9, <1>10, <1>11, <1>12
  DEF Next, Teardown

(* The inductive invariant.                                                *)
THEOREM Inductive == Spec => []IInv
<1>1. Spec => []TypeOK
  BY Typing
<1>2. TypeOK => CoreTypeOK
  BY TypeSplit
<1>3. Spec => []TableInv
  BY InitTable, NextTable, <1>1, <1>2, PTL DEF Spec
<1>4. TypeOK /\ TableInv => IInv
  BY DEF TableInv, IInv
<1>5. QED
  BY <1>1, <1>3, <1>4, PTL

-----------------------------------------------------------------------------
(* What the inductive invariant gives, property by property: each for any  *)
(* number of accounts, of sessions per account and of calls.               *)
(* One ring per account.                                                   *)
THEOREM OneRing == Spec => []OneRingPerCallee
BY Inductive, PTL DEF IInv

(* The shape that Answer, Reject, hangupLocked and the reap rely on.       *)
THEOREM Shape == Spec => []CallShape
BY Inductive, PTL DEF IInv

(* One call per session, of clients that dial and answer only when idle.   *)
THEOREM OneCall == Spec => []OneCallPerSession
BY Inductive, PTL DEF IInv

(* Teardown leaves no phantom participant.                                 *)
THEOREM NoPhantoms == Spec => []NoPhantom
BY Inductive, PTL DEF IInv

(* A ring for an account with no session has a reap on its way.            *)
THEOREM Reach == Spec => []RingHasReach
BY Inductive, PTL DEF IInv

(* Old prompts never let another account take or refuse a pending call.    *)
THEOREM CalleeOnly == Spec => []RingReachesCalleeOnly
BY Inductive, PTL DEF IInv

(* Nobody joins a call but by placing it or by a ring of that very call.   *)
THEOREM Joins == Spec => JoinsByRing
<1> USE RegistryAssumption
<1>1. ASSUME IInv, [Next]_vars, NEW c \in CallIds, NEW s \in parts'[c] \ parts[c]
      PROVE  state[c] = "unused" \/ Rings(c, Owner[s])
  <2>0. TableTypeOK /\ RingReachesCalleeOnly
    BY <1>1 DEF IInv, TypeOK
  <2>1. ASSUME NEW r \in Sessions, NEW d \in CallIds, AcceptCall(r, d)
        PROVE  Rings(c, Owner[s])
    <3>1. c = d /\ s = r
      BY <1>1, <2>0, <2>1 DEF AcceptCall, Answer, AnswerDial, AnswerAdd, TableTypeOK
    <3>2. QED
      BY <2>0, <2>1, <3>1 DEF AcceptCall, Answer, AnswerDial, AnswerAdd,
          RingReachesCalleeOnly, Rings, DialRings
  <2>2. ASSUME NEW r \in Sessions, NEW d \in CallIds, NEW u \in Users,
               PlaceCall(r, u, d)
        PROVE  state[c] = "unused"
    BY <1>1, <2>0, <2>2 DEF PlaceCall, Dial, TableTypeOK
  <2>3. ASSUME NEW r \in Sessions, NEW d \in CallIds, NEW q, HangupLocked(d, r, q)
        PROVE  FALSE
    BY <1>1, <2>0, <2>3 DEF HangupLocked, TableTypeOK
  <2>4. ASSUME NEW r \in Sessions, Teardown(r)
        PROVE  FALSE
    <3>1. ASSUME NEW u, ReapRings(u)
          PROVE  FALSE
      BY <1>1, <2>0, <3>1 DEF ReapRings, TableTypeOK
    <3>2. QED
      BY <1>1, <2>3, <2>4, <3>1 DEF Teardown, HangupSession, Unregister, tableVars,
          ReapUnreachableRings
  <2>5. ASSUME NEW r \in Sessions, NEW d \in CallIds,
               DeclineCall(r, d) \/ LeaveCall(r, d)
        PROVE  FALSE
    <3>1. CASE LeaveCall(r, d)
      BY <2>3, <3>1 DEF LeaveCall, Hangup
    <3>2. CASE DeclineCall(r, d)
      BY <1>1, <2>0, <3>2 DEF DeclineCall, Reject, RejectDial, RejectAdd, TableTypeOK
    <3>3. QED
      BY <2>5, <3>1, <3>2
  <2>6. CASE UNCHANGED parts
    BY <1>1, <2>6
  <2>7. QED
    BY <1>1, <2>1, <2>2, <2>4, <2>5, <2>6
    DEF Next, Connect, Disconnect, Invite, Add, CancelInvite, CancelAdd, Tick,
        RingAgain, ReRing, vars, tableVars
<1>2. IInv /\ [Next]_vars =>
        [\A c \in CallIds : \A s \in parts'[c] \ parts[c] :
           state[c] = "unused" \/ Rings(c, Owner[s])]_vars
  BY <1>1
<1>3. QED
  BY <1>2, Inductive, PTL DEF Spec, JoinsByRing

-----------------------------------------------------------------------------
(* Every step of this client is one of the switchboard's, or none.         *)
LEMMA StepMaps == IInv /\ [Next]_vars => SwitchStep
<1> SUFFICES ASSUME IInv, [Next]_vars
             PROVE  SwitchStep
  OBVIOUS
<1> USE RegistryAssumption
<1>0. SwitchTable
  BY DEF SwitchTable, IInv, TypeOK
<1>1. CASE UNCHANGED <<state, callee, parts, invites>>
  BY <1>1, SameStep
<1>2. ASSUME NEW s \in Sessions, NEW c \in CallIds, NEW u \in Users,
             PlaceCall(s, u, c)
      PROVE  SwitchStep
  BY <1>0, <1>2, PlaceStep DEF PlaceCall
<1>3. ASSUME NEW s \in Sessions, NEW c \in CallIds, NEW u \in Users,
             Invite(s, u, c)
      PROVE  SwitchStep
  BY <1>0, <1>3, InviteStep DEF Invite
<1>4. ASSUME NEW s \in Sessions, NEW c \in CallIds,
             AcceptCall(s, c) \/ DeclineCall(s, c)
      PROVE  SwitchStep
  <2>1. state[c] = "pending" => callee[c] = Owner[s]
    BY <1>4 DEF AcceptCall, DeclineCall, IInv, RingReachesCalleeOnly
  <2>2. QED
    BY <1>0, <1>4, <2>1, JoinStep, RefuseStep DEF AcceptCall, DeclineCall
<1>5. ASSUME NEW s \in Sessions, NEW c \in CallIds, LeaveCall(s, c)
      PROVE  SwitchStep
  BY <1>0, <1>5, LeaveStep DEF LeaveCall, Hangup, SwitchStep
<1>6. ASSUME NEW s \in Sessions, NEW c \in CallIds, NEW u \in Users,
             CancelInvite(s, u, c)
      PROVE  SwitchStep
  BY <1>0, <1>6, WithdrawStep DEF CancelInvite, CancelAdd
<1>7. ASSUME NEW s \in Sessions, Teardown(s)
      PROVE  SwitchStep
  BY <1>0, <1>7, TeardownStep DEF Teardown
<1>8. QED
  BY <1>1, <1>2, <1>3, <1>4, <1>5, <1>6, <1>7
  DEF Next, Connect, Disconnect, Tick, RingAgain, ReRing, vars, tableVars

(* The call table implements the switchboard, whatever the order of locks, *)
(* queues, goroutines and teardowns (Dial to HangupSession, the ticker of  *)
(* Dial and Add, ReapUnreachableRings), for clients that keep its contract.*)
THEOREM Refinement == Spec => Implements
<1>1. Init => SW!Init
  BY SwitchInit DEF Init
<1>2. IInv /\ [Next]_vars => [SW!Next]_(SW!swVars)
  BY StepMaps, SwitchNext
<1>3. QED
  BY <1>1, <1>2, Inductive, PTL DEF Spec, Implements, SW!Spec

=============================================================================

------------------------- MODULE PhoneSession_proofs -------------------------
(***************************************************************************)
(* Proofs about PhoneSession, for every set of accounts, sessions, calls   *)
(* and doors, every capacity of the notify channels and every number of    *)
(* receivers.                                                              *)
(***************************************************************************)
EXTENDS PhoneSession, CallTable_refinement, SequenceTheorems, TLAPS

(* The events that are sent: an answer names who answered.                  *)
Sent == {e \in Event : e.type = "answer" => e.to \in Users}

(* A queue of them that respects the capacity of its channel.              *)
Mailbox == {q \in Seq(Sent) : Len(q) <= NotifyCap}

Maildir == [Sessions -> Mailbox]

(* Typing, in three parts: the table with the lives of the sessions, the   *)
(* queues, and what the sessions show.                                     *)
TableOK ==
  /\ phase \in [Sessions -> Phases]
  /\ TableTypeOK

ScreensOK ==
  /\ doors \in DoorSets
  /\ mode \in [Sessions -> {"lobby", "app"}]
  /\ prompt \in [Sessions -> CallIds \union {NoCall}]
  /\ app \in [Sessions -> App]
  /\ launching \in [Sessions -> SUBSET App]
  /\ armed \in [Sessions -> 0 .. MaxReceivers]

(* A screen names a call exactly when it is about one.                     *)
Showing == {"pending", "active", "answered"}

Shaped(a) == a.st \in Showing <=> a.call # NoCall

Shapes == \A s \in Sessions : Shaped(app[s]) /\ \A a \in launching[s] : Shaped(a)

TypeInv == TableOK /\ notify \in Maildir /\ ScreensOK /\ Shapes

LEMMA TypeSplit == TypeInv => TypeOK
<1> SUFFICES ASSUME TypeInv PROVE TypeOK
  OBVIOUS
<1>1. Sent \subseteq Event
  BY DEF Sent
<1>2. ASSUME NEW s \in Sessions
      PROVE  notify[s] \in Seq(Event) /\ Len(notify[s]) <= NotifyCap
  BY <1>1, SeqMonotonic DEF TypeInv, Maildir, Mailbox
<1>3. notify \in [Sessions -> Seq(Event)]
  BY <1>2 DEF TypeInv, Maildir
<1>4. QED
  BY <1>2, <1>3 DEF TypeInv, TypeOK, RegTypeOK, TableOK, ScreensOK

-----------------------------------------------------------------------------
(* Sending.                                                                *)
LEMMA PostTyped ==
  ASSUME NEW queues \in Maildir, NEW mail,
         \A s \in Sessions : s \in DOMAIN mail => mail[s] \in Sent
  PROVE  Post(queues, mail) \in Maildir
<1>1. ASSUME NEW s \in Sessions
      PROVE  Post(queues, mail)[s] \in Mailbox
  <2>1. queues[s] \in Mailbox
    BY DEF Maildir
  <2>2. CASE s \in DOMAIN mail /\ phase[s] = "live" /\ Len(queues[s]) < NotifyCap
    <3>1. /\ Append(queues[s], mail[s]) \in Seq(Sent)
          /\ Len(Append(queues[s], mail[s])) = Len(queues[s]) + 1
      BY <2>1, <2>2, AppendProperties DEF Mailbox
    <3>2. QED
      BY <2>1, <2>2, <3>1, LenProperties, RegistryAssumption DEF Mailbox, Post
  <2>3. CASE ~(s \in DOMAIN mail /\ phase[s] = "live" /\ Len(queues[s]) < NotifyCap)
    BY <2>1, <2>3 DEF Post
  <2>4. QED
    BY <2>2, <2>3
<1>2. QED
  BY <1>1 DEF Post, Maildir

LEMMA SendTyped ==
  ASSUME NEW queues \in Maildir, NEW targets, NEW event \in Sent
  PROVE  Send(queues, targets, event) \in Maildir
BY PostTyped DEF Send

LEMMA EventsTyped ==
  ASSUME NEW c \in CallIds, NEW u \in Users, NEW w \in Users \union {NoUser}
  PROVE  /\ Ring(c, u) \in Sent /\ Ringing(c, u) \in Sent
         /\ Answered(c, u) \in Sent /\ Elsewhere(c, u) \in Sent
         /\ Declined(c, u) \in Sent /\ Left(c, w) \in Sent
         /\ Cancelled(c, w, u) \in Sent
         /\ Lost("gone", c, u) \in Sent /\ Lost("unavailable", c, u) \in Sent
BY DEF Ring, Ringing, Answered, Elsewhere, Declined, Left, Cancelled, Lost,
       Sent, Event, EventTypes

(* An event taken off a queue leaves a queue of the others.                *)
LEMMA WithoutTyped ==
  ASSUME NEW q \in Mailbox, NEW i \in 1 .. Len(q)
  PROVE  /\ Without(q, i) \in Mailbox
         /\ Len(Without(q, i)) = Len(q) - 1
         /\ \A j \in 1 .. Len(q) - 1 :
              Without(q, i)[j] = IF j < i THEN q[j] ELSE q[j + 1]
<1> DEFINE front == SubSeq(q, 1, i - 1)
           back == SubSeq(q, i + 1, Len(q))
<1>0. q \in Seq(Sent) /\ Len(q) \in Nat /\ Len(q) <= NotifyCap
      /\ \A j \in 1 .. Len(q) : q[j] \in Sent
  BY LenProperties, ElementOfSeq DEF Mailbox
<1>1. /\ front \in Seq(Sent) /\ Len(front) = i - 1
      /\ \A j \in 1 .. i - 1 : front[j] = q[j]
  <2>1. /\ SubSeq(q, 1, i - 1) \in Seq(Sent)
        /\ Len(SubSeq(q, 1, i - 1)) = IF 1 <= i - 1 THEN i - 1 - 1 + 1 ELSE 0
        /\ \A j \in 1 .. i - 1 - 1 + 1 : SubSeq(q, 1, i - 1)[j] = q[1 + j - 1]
    BY <1>0, SubSeqProperties
  <2>2. QED
    BY <1>0, <2>1
<1>2. /\ back \in Seq(Sent) /\ Len(back) = Len(q) - i
      /\ \A j \in 1 .. Len(q) - i : back[j] = q[i + j]
  <2>1. /\ SubSeq(q, i + 1, Len(q)) \in Seq(Sent)
        /\ Len(SubSeq(q, i + 1, Len(q))) =
             IF i + 1 <= Len(q) THEN Len(q) - (i + 1) + 1 ELSE 0
        /\ \A j \in 1 .. Len(q) - (i + 1) + 1 :
             SubSeq(q, i + 1, Len(q))[j] = q[i + 1 + j - 1]
    BY <1>0, SubSeqProperties
  <2>2. QED
    BY <1>0, <2>1
<1> HIDE DEF front, back
<1>3. /\ front \o back \in Seq(Sent)
      /\ Len(front \o back) = Len(front) + Len(back)
      /\ \A j \in 1 .. Len(front) + Len(back) :
           (front \o back)[j] = IF j <= Len(front) THEN front[j]
                                ELSE back[j - Len(front)]
  BY <1>1, <1>2, ConcatProperties
<1>4. Without(q, i) = front \o back
  BY DEF Without, front, back
<1>5. Len(front) + Len(back) = Len(q) - 1
  BY <1>0, <1>1, <1>2
<1>6. \A j \in 1 .. Len(q) - 1 :
        (front \o back)[j] = IF j < i THEN q[j] ELSE q[j + 1]
  <2> TAKE j \in 1 .. Len(q) - 1
  <2>1. CASE j < i
    BY <1>0, <1>1, <1>3, <1>5, <2>1
  <2>2. CASE ~(j < i)
    <3>1. j - Len(front) \in 1 .. Len(q) - i /\ i + (j - Len(front)) = j + 1
      BY <1>0, <1>1, <2>2
    <3>2. back[j - Len(front)] = q[i + (j - Len(front))]
      BY <1>2, <3>1
    <3>3. QED
      BY <1>0, <1>1, <1>3, <1>5, <2>2, <3>1, <3>2
  <2>3. QED
    BY <2>1, <2>2
<1>7. Len(front \o back) <= NotifyCap
  BY <1>0, <1>3, <1>5, RegistryAssumption
<1>8. QED
  BY <1>3, <1>4, <1>5, <1>6, <1>7 DEF Mailbox

-----------------------------------------------------------------------------
(* The methods of the call table keep its types and those of the queues.   *)
LEMMA DialTyped ==
  ASSUME TableOK, notify \in Maildir,
         NEW s \in Sessions, NEW u \in Users, NEW c \in CallIds, Dial(s, u, c)
  PROVE  TableOK' /\ notify' \in Maildir
<1>1. TableOK'
  BY DEF Dial, TableOK, TableTypeOK, CallStates
<1>2. notify' \in Maildir
  BY SendTyped, EventsTyped DEF Dial
<1>3. QED
  BY <1>1, <1>2

LEMMA AnswerTyped ==
  ASSUME TableOK, notify \in Maildir,
         NEW s \in Sessions, NEW c \in CallIds, Answer(s, c)
  PROVE  TableOK' /\ notify' \in Maildir
<1>0. Owner[s] \in Users
  BY RegistryAssumption
<1>1. TableOK'
  <2>1. CASE AnswerDial(s, c)
    BY <2>1 DEF AnswerDial, TableOK, TableTypeOK, CallStates
  <2>2. CASE AnswerAdd(s, c)
    BY <1>0, <2>2 DEF AnswerAdd, TableOK, TableTypeOK
  <2>3. QED
    BY <2>1, <2>2 DEF Answer
<1>2. notify' \in Maildir
  BY <1>0, SendTyped, EventsTyped DEF Answer, AnswerDial, AnswerAdd
<1>3. QED
  BY <1>1, <1>2

LEMMA RejectTyped ==
  ASSUME TableOK, notify \in Maildir,
         NEW u \in Users, NEW c \in CallIds, Reject(u, c)
  PROVE  TableOK' /\ notify' \in Maildir
<1>1. TableOK'
  <2>1. CASE RejectDial(u, c)
    BY <2>1 DEF RejectDial, TableOK, TableTypeOK, CallStates
  <2>2. CASE RejectAdd(u, c)
    BY <2>2 DEF RejectAdd, TableOK, TableTypeOK
  <2>3. QED
    BY <2>1, <2>2 DEF Reject
<1>2. notify' \in Maildir
  BY SendTyped, EventsTyped DEF Reject, RejectDial, RejectAdd
<1>3. QED
  BY <1>1, <1>2

LEMMA AddTyped ==
  ASSUME TableOK, notify \in Maildir,
         NEW w \in Users, NEW u \in Users, NEW c \in CallIds,
         Add(w, u, c) \/ CancelAdd(w, u, c)
  PROVE  TableOK' /\ notify' \in Maildir
<1>1. TableOK'
  BY DEF Add, CancelAdd, TableOK, TableTypeOK
<1>2. notify' \in Maildir
  BY SendTyped, EventsTyped DEF Add, CancelAdd
<1>3. QED
  BY <1>1, <1>2

LEMMA RingerTyped ==
  ASSUME TableOK, notify \in Maildir,
         NEW g \in Ringers, Tick(g) \/ ReRing(g)
  PROVE  TableOK' /\ notify' \in Maildir
<1>0. g.call \in CallIds /\ g.to \in Users
  BY DEF Ringers
<1>1. TableOK'
  BY DEF Tick, ReRing, TableOK, TableTypeOK
<1>2. notify' \in Maildir
  BY <1>0, SendTyped, EventsTyped DEF Tick, ReRing
<1>3. QED
  BY <1>1, <1>2

LEMMA HangupTyped ==
  ASSUME TableTypeOK, NEW queues \in Maildir,
         NEW c \in CallIds, NEW s \in Sessions,
         HangupLocked(c, s, queues), UNCHANGED ticked
  PROVE  TableTypeOK' /\ notify' \in Maildir
<1> USE RegistryAssumption
<1>1. CASE parts[c] \ {s} # {}
  <2>1. /\ parts' = [parts EXCEPT ![c] = parts[c] \ {s}]
        /\ notify' = Send(queues, parts[c] \ {s}, Left(c, Owner[s]))
        /\ UNCHANGED <<state, callee, invites>>
    BY <1>1 DEF HangupLocked
  <2>2. Left(c, Owner[s]) \in Sent
    BY EventsTyped DEF Left
  <2>3. notify' \in Maildir
    BY <2>1, <2>2, SendTyped
  <2>4. QED
    BY <2>1, <2>3 DEF TableTypeOK
<1>2. CASE parts[c] \ {s} = {}
  <2> DEFINE rang == {r \in Sessions : Rings(c, Owner[r])}
             mail == [r \in rang |->
                        Cancelled(c, Canceller(c, s, Owner[r]), Owner[r])]
  <2>1. /\ parts' = [parts EXCEPT ![c] = {}]
        /\ state' = [state EXCEPT ![c] = "over"]
        /\ callee' = [callee EXCEPT ![c] = NoUser]
        /\ invites' = [invites EXCEPT ![c] = NoInvites]
        /\ notify' = Post(queues, mail)
    BY <1>2 DEF HangupLocked
  <2>2. ASSUME NEW r \in rang
        PROVE  Cancelled(c, Canceller(c, s, Owner[r]), Owner[r]) \in Sent
    BY DEF Cancelled, Canceller, Sent, Event, EventTypes, TableTypeOK
  <2>3. notify' \in Maildir
    BY <2>1, <2>2, PostTyped
  <2>4. QED
    BY <2>1, <2>3 DEF TableTypeOK, CallStates, NoInvites
<1>3. QED
  BY <1>1, <1>2

LEMMA ReapTyped ==
  ASSUME TableTypeOK, notify \in Maildir, NEW u \in Users, ReapRings(u),
         UNCHANGED ticked
  PROVE  TableTypeOK' /\ notify' \in Maildir
<1> DEFINE why == IF Connected(u) THEN "unavailable" ELSE "gone"
           dead == {c \in CallIds : DialRings(c, u)}
           lost == dead \union {c \in CallIds : AddRings(c, u)}
           told == {s \in Sessions : \E c \in lost : s \in parts[c]}
           mail == [s \in told |-> Lost(why, CHOOSE c \in lost : s \in parts[c], u)]
<1>1. /\ state' = [c \in CallIds |-> IF c \in dead THEN "over" ELSE state[c]]
      /\ callee' = [c \in CallIds |-> IF c \in dead THEN NoUser ELSE callee[c]]
      /\ parts' = [c \in CallIds |-> IF c \in dead THEN {} ELSE parts[c]]
      /\ invites' = [c \in CallIds |-> [invites[c] EXCEPT ![u] = NoUser]]
      /\ notify' = Post(notify, mail)
  BY DEF ReapRings
<1>2. ASSUME NEW s \in told
      PROVE  mail[s] \in Sent
  <2>1. PICK c \in lost : s \in parts[c]
    OBVIOUS
  <2>2. (CHOOSE d \in lost : s \in parts[d]) \in CallIds
    BY <2>1
  <2>3. QED
    BY <2>2, EventsTyped DEF Lost
<1>3. notify' \in Maildir
  <2> HIDE DEF mail
  <2>1. DOMAIN mail = told
    BY DEF mail
  <2>2. \A s \in Sessions : s \in DOMAIN mail => mail[s] \in Sent
    BY <1>2, <2>1
  <2>3. QED
    BY <1>1, <2>2, PostTyped
<1>4. QED
  BY <1>1, <1>3 DEF TableTypeOK, CallStates

LEMMA TeardownTyped ==
  ASSUME TableOK, notify \in Maildir, NEW s \in Sessions, Teardown(s)
  PROVE  TableOK' /\ notify' \in Maildir
<1> USE RegistryAssumption
<1>1. CASE HangupSession(s)
  <2>1. CASE \E c \in CallIds : s \in parts[c] /\ HangupLocked(c, s, notify)
    BY <1>1, <2>1, HangupTyped DEF HangupSession, TableOK, Phases
  <2>2. CASE UNCHANGED <<state, callee, parts, invites, notify>>
    BY <1>1, <2>2 DEF HangupSession, TableOK, TableTypeOK, Phases
  <2>3. QED
    BY <1>1, <2>1, <2>2 DEF HangupSession
<1>2. CASE Unregister(s) /\ UNCHANGED tableVars
  BY <1>2 DEF Unregister, tableVars, TableOK, TableTypeOK, Phases
<1>3. CASE ReapUnreachableRings(s)
  <2>1. CASE ReapRings(Owner[s])
    BY <1>3, <2>1, ReapTyped DEF ReapUnreachableRings, TableOK, Phases
  <2>2. CASE UNCHANGED <<state, callee, parts, invites, notify>>
    BY <1>3, <2>2 DEF ReapUnreachableRings, TableOK, TableTypeOK, Phases
  <2>3. QED
    BY <1>3, <2>1, <2>2 DEF ReapUnreachableRings
<1>4. QED
  BY <1>1, <1>2, <1>3 DEF Teardown

-----------------------------------------------------------------------------
(* What the constructors of phone.Model return.                            *)
LEMMA AppsTyped ==
  ASSUME NEW a \in App, NEW c \in CallIds, NEW u \in Users, NEW us \in SUBSET Users
  PROVE  /\ IdleApp \in App /\ Shaped(IdleApp)
         /\ OtherApp \in App /\ Shaped(OtherApp)
         /\ ForcedApp \in App /\ Shaped(ForcedApp)
         /\ GoIdle(a) \in App /\ Shaped(GoIdle(a))
         /\ CallingApp(c, u) \in App /\ Shaped(CallingApp(c, u))
         /\ AnsweringApp(a, c) \in App /\ Shaped(AnsweringApp(a, c))
         /\ AnsweredApp(a, us) \in App
         /\ a.call # NoCall => Shaped(AnsweredApp(a, us))
<1> USE PhoneAssumption DEF App, Shaped, Showing, IdleApp
<1>1. /\ IdleApp \in App /\ Shaped(IdleApp)
      /\ OtherApp \in App /\ Shaped(OtherApp)
      /\ ForcedApp \in App /\ Shaped(ForcedApp)
  BY DEF OtherApp, ForcedApp
<1>2. /\ GoIdle(a) \in App /\ Shaped(GoIdle(a))
      /\ CallingApp(c, u) \in App /\ Shaped(CallingApp(c, u))
  BY DEF GoIdle, CallingApp
<1>3. /\ AnsweringApp(a, c) \in App /\ Shaped(AnsweringApp(a, c))
      /\ AnsweredApp(a, us) \in App
      /\ a.call # NoCall => Shaped(AnsweredApp(a, us))
  BY DEF AnsweringApp, AnsweredApp
<1>4. QED
  BY <1>1, <1>2, <1>3

(* Who departs or joins changes the names and nothing else.                *)
SameButNames(b, a) ==
  /\ b.st = a.st /\ b.call = a.call
  /\ b.incoming = a.incoming /\ b.target = a.target

LEMMA DepartsNames ==
  ASSUME NEW self, NEW a \in App, NEW u
  PROVE  /\ Departs(self, a, u) \in App
         /\ SameButNames(Departs(self, a, u), a)
         /\ Departs(self, a, u).peers = a.peers \ {u}
<1>1. PICK o \in BOOLEAN : o = (a.own /\ u # self)
  OBVIOUS
<1>2. Departs(self, a, u) = [a EXCEPT !.peers = a.peers \ {u}, !.own = o]
  BY <1>1 DEF Departs
<1>3. QED
  BY <1>2 DEF App, SameButNames

LEMMA JoinedNames ==
  ASSUME NEW self, NEW a \in App, NEW u \in Users
  PROVE  /\ Joined(self, a, u) \in App
         /\ SameButNames(Joined(self, a, u), a)
         /\ Joined(self, a, u).peers \in {a.peers, a.peers \union {u}}
         /\ u # self => u \in Joined(self, a, u).peers
<1>1. CASE u = self /\ a.own
  BY <1>1 DEF Joined, SameButNames
<1>2. CASE ~(u = self /\ a.own)
  <2>1. PICK o \in BOOLEAN : o = (a.own \/ u = self)
    OBVIOUS
  <2>2. Joined(self, a, u) = [a EXCEPT !.peers = a.peers \union {u}, !.own = o]
    BY <1>2, <2>1 DEF Joined
  <2>3. PICK us \in SUBSET Users : us = a.peers \union {u}
    BY DEF App
  <2>4. PICK j : j = [a EXCEPT !.peers = us, !.own = o]
    OBVIOUS
  <2>5. j \in App /\ SameButNames(j, a) /\ j.peers = us
    BY <2>4 DEF App, SameButNames
  <2>6. QED
    BY <2>2, <2>3, <2>4, <2>5
<1>3. QED
  BY <1>1, <1>2

(* handlePhoneEvent keeps a model of PHONE in range, and its call with it. *)
LEMMA HandlerTyped ==
  ASSUME NEW a \in App, NEW e \in Sent, NEW u \in Users, Shaped(a)
  PROVE  AppAfter(u, a, e) \in App /\ Shaped(AppAfter(u, a, e))
<1> USE PhoneAssumption
<1>1. GoIdle(a) \in App /\ Shaped(GoIdle(a))
  BY DEF GoIdle, IdleApp, App, Shaped, Showing
<1>2. OnRing(a, e) \in App /\ Shaped(OnRing(a, e))
  BY DEF OnRing, Sent, Event, App, Shaped, Showing
<1>3. OnElsewhere(a, e) \in App /\ Shaped(OnElsewhere(a, e))
  BY DEF OnElsewhere, Dismiss, App, Shaped, Showing
<1>4. OnHangup(u, a, e) \in App /\ Shaped(OnHangup(u, a, e))
  <2>1. PICK b : b = Departs(u, a, e.from)
    OBVIOUS
  <2>2. b \in App /\ SameButNames(b, a)
    BY <2>1, DepartsNames
  <2>3. Shaped(b)
    BY <2>2 DEF Shaped, SameButNames
  <2>4. Dismiss(a) \in App /\ Shaped(Dismiss(a))
    BY DEF Dismiss, App, Shaped, Showing
  <2>5. OnHangup(u, a, e) \in {a, b, Dismiss(a), GoIdle(a)}
    BY <2>1 DEF OnHangup
  <2>6. QED
    BY <1>1, <2>2, <2>3, <2>4, <2>5
<1>5. \A b \in App : \A w : Forget(b, w) \in App /\ (Shaped(b) => Shaped(Forget(b, w)))
  BY DEF Forget, App, Shaped, Showing
<1>6. e.type = "answer" => OnAnswer(u, a, e) \in App /\ Shaped(OnAnswer(u, a, e))
  <2> SUFFICES ASSUME e.type = "answer"
               PROVE  OnAnswer(u, a, e) \in App /\ Shaped(OnAnswer(u, a, e))
    OBVIOUS
  <2>1. CASE a.st = "pending" /\ e.call = a.call
    BY <2>1 DEF OnAnswer, App, Shaped, Showing
  <2>2. CASE a.st = "active" /\ e.call = a.call
    <3>1. e.to \in Users
      BY DEF Sent
    <3>2. PICK b : b = Joined(u, a, e.to)
      OBVIOUS
    <3>3. b \in App /\ SameButNames(b, a)
      BY <3>1, <3>2, JoinedNames
    <3>4. Shaped(b)
      BY <3>3 DEF Shaped, SameButNames
    <3>5. OnAnswer(u, a, e) = Forget(b, e.to)
      BY <2>2, <3>2 DEF OnAnswer
    <3>6. QED
      BY <1>5, <3>3, <3>4, <3>5
  <2>3. CASE ~(a.st \in {"pending", "active"} /\ e.call = a.call)
    BY <2>3 DEF OnAnswer
  <2>4. QED
    BY <2>1, <2>2, <2>3
<1>7. OnRefused(a, e) \in App /\ Shaped(OnRefused(a, e))
  BY <1>1, <1>5 DEF OnRefused
<1>8. e.type \in EventTypes
  BY DEF Sent, Event
<1>9. QED
  BY <1>2, <1>3, <1>4, <1>6, <1>7, <1>8 DEF AppAfter, EventTypes

-----------------------------------------------------------------------------
(* The types through every step.                                           *)
LEMMA HangupShownTyped ==
  ASSUME TableTypeOK, NEW queues \in Maildir, NEW s \in Sessions,
         HangupShown(s, queues), UNCHANGED ticked
  PROVE  TableTypeOK' /\ notify' \in Maildir
<1>1. CASE app[s].call \in CallIds /\ HangupLocked(app[s].call, s, queues)
  BY <1>1, HangupTyped
<1>2. CASE notify' = queues /\ UNCHANGED <<state, callee, parts, invites>>
  BY <1>2 DEF TableTypeOK
<1>3. QED
  BY <1>1, <1>2 DEF HangupShown

(* The models on screen and in flight, as ScreensOK and Shapes have them.  *)
AppsOK ==
  /\ app \in [Sessions -> App]
  /\ launching \in [Sessions -> SUBSET App]
  /\ Shapes

LEMMA SetAppOK ==
  ASSUME AppsOK, NEW s \in Sessions, NEW a \in App, Shaped(a),
         SetApp(s, a), UNCHANGED launching
  PROVE  AppsOK'
BY DEF AppsOK, Shapes, Shaped, SetApp

LEMMA LaunchAppOK ==
  ASSUME AppsOK, NEW s \in Sessions, NEW a \in App, Shaped(a),
         LaunchApp(s, a),
         UNCHANGED app \/ SetApp(s, IdleApp)
  PROVE  AppsOK'
<1>1. IdleApp \in App /\ Shaped(IdleApp)
  BY PhoneAssumption DEF IdleApp, App, Shaped, Showing
<1>2. app' \in [Sessions -> App] /\ \A r \in Sessions : Shaped(app'[r])
  BY <1>1 DEF AppsOK, Shapes, Shaped, SetApp
<1>3. launching' \in [Sessions -> SUBSET App]
      /\ \A r \in Sessions : \A b \in launching'[r] : Shaped(b)
  BY DEF AppsOK, Shapes, Shaped, LaunchApp
<1>4. QED
  BY <1>2, <1>3 DEF AppsOK, Shapes, Shaped

LEMMA ShowListOK ==
  ASSUME AppsOK, TableTypeOK, NEW s \in Sessions, NEW a \in App,
         a.call \in CallIds, ShowList(s, a)
  PROVE  AppsOK'
<1> DEFINE b == AnsweredApp(a, PeersOf(s, a.call))
<1>1. PeersOf(s, a.call) \in SUBSET Users
  BY RegistryAssumption DEF PeersOf, TableTypeOK
<1>2. b \in App /\ Shaped(b)
  BY <1>1, PhoneAssumption DEF AnsweredApp, App, Shaped, Showing
<1>3. IdleApp \in App /\ Shaped(IdleApp)
  BY PhoneAssumption DEF IdleApp, App, Shaped, Showing
<1>4. \/ SetApp(s, b) /\ UNCHANGED launching
      \/ SetApp(s, IdleApp) /\ LaunchApp(s, b)
  BY DEF ShowList
<1>5. QED
  BY <1>2, <1>4, SetAppOK, LaunchAppOK

LEMMA AfterAnswerOK ==
  ASSUME AppsOK, TableTypeOK, NEW s \in Sessions, NEW b \in App,
         NEW c \in CallIds, AfterAnswer(s, AnsweringApp(b, c))
  PROVE  AppsOK'
<1>1. /\ AnsweringApp(b, c) \in App /\ Shaped(AnsweringApp(b, c))
      /\ AnsweringApp(b, c).call = c
  BY PhoneAssumption DEF AnsweringApp, App, Shaped, Showing
<1>2. CASE SetApp(s, AnsweringApp(b, c)) /\ UNCHANGED launching
  BY <1>1, <1>2, SetAppOK
<1>3. CASE ShowList(s, AnsweringApp(b, c))
  BY <1>1, <1>3, ShowListOK
<1>4. QED
  BY <1>2, <1>3 DEF AfterAnswer

LEMMA TypeParts ==
  TypeInv <=> /\ TableOK /\ notify \in Maildir /\ AppsOK
              /\ doors \in DoorSets
              /\ mode \in [Sessions -> {"lobby", "app"}]
              /\ prompt \in [Sessions -> CallIds \union {NoCall}]
              /\ armed \in [Sessions -> 0 .. MaxReceivers]
BY DEF TypeInv, ScreensOK, AppsOK

LEMMA InitTyped == Init => TypeInv
<1> SUFFICES ASSUME Init PROVE TypeInv
  OBVIOUS
<1>1. TableOK
  BY DEF Init, RegInit, TableInit, TableOK, TableTypeOK, Phases, CallStates,
         NoInvites
<1>2. << >> \in Mailbox
  BY RegistryAssumption, EmptySeq DEF Mailbox
<1>3. notify \in Maildir
  BY <1>2 DEF Init, RegInit, Maildir
<1>4. IdleApp \in App /\ Shaped(IdleApp)
  BY PhoneAssumption DEF IdleApp, App, Shaped, Showing
<1>5. AppsOK
  BY <1>4 DEF Init, AppsOK, Shapes
<1>6. QED
  BY <1>1, <1>3, <1>5, TypeParts, PhoneAssumption DEF Init

(* What every step has to re-establish: TypeInv', part by part.            *)
Typed ==
  /\ TableOK' /\ notify' \in Maildir /\ AppsOK'
  /\ doors' \in DoorSets
  /\ mode' \in [Sessions -> {"lobby", "app"}]
  /\ prompt' \in [Sessions -> CallIds \union {NoCall}]
  /\ armed' \in [Sessions -> 0 .. MaxReceivers]

LEMMA TypedIsTypeInv == Typed => TypeInv'
<1>1. Maildir' = Maildir
  BY DEF Maildir, Mailbox, Sent, Event, EventTypes
<1>2. (TypeInv <=> /\ TableOK /\ notify \in Maildir /\ AppsOK
                   /\ doors \in DoorSets
                   /\ mode \in [Sessions -> {"lobby", "app"}]
                   /\ prompt \in [Sessions -> CallIds \union {NoCall}]
                   /\ armed \in [Sessions -> 0 .. MaxReceivers])'
  BY TypeParts, PTL
<1>3. QED
  BY <1>1, <1>2 DEF Typed

LEMMA LobbyTyped ==
  ASSUME TypeInv, NEW s \in Sessions,
         \/ Launch(s) \/ ListParticipants(s)
         \/ LobbyAnswer(s) \/ LobbyReject(s) \/ LobbyPhone(s)
         \/ \E u \in Users, c \in CallIds : LobbyDial(s, u, c)
  PROVE  Typed
<1> USE RegistryAssumption, PhoneAssumption
<1>0. /\ TableOK /\ TableTypeOK /\ notify \in Maildir /\ AppsOK
      /\ doors \in DoorSets
      /\ mode \in [Sessions -> {"lobby", "app"}]
      /\ prompt \in [Sessions -> CallIds \union {NoCall}]
      /\ armed \in [Sessions -> 0 .. MaxReceivers]
      /\ app[s] \in App /\ Shaped(app[s])
      /\ \A a \in launching[s] : a \in App /\ Shaped(a)
      /\ Owner[s] \in Users
  BY TypeParts DEF TableOK, AppsOK, Shapes
<1>1. IdleApp \in App /\ Shaped(IdleApp) /\ OtherApp \in App /\ Shaped(OtherApp)
  BY DEF IdleApp, OtherApp, App, Shaped, Showing
<1>2. CASE Launch(s)
  <2>1. PICK a \in launching[s] :
          /\ launching' = [launching EXCEPT ![s] = @ \ {a}]
          /\ \/ /\ mode' = [mode EXCEPT ![s] = "app"]
                /\ app' = [app EXCEPT ![s] = a]
                /\ prompt' = [prompt EXCEPT ![s] = NoCall]
             \/ UNCHANGED <<mode, app, prompt>>
    BY <1>2 DEF Launch
  <2>2. /\ app' \in [Sessions -> App] /\ launching' \in [Sessions -> SUBSET App]
        /\ \A r \in Sessions : Shaped(app'[r]) /\ \A b \in launching'[r] : Shaped(b)
    BY <1>0, <2>1 DEF AppsOK, Shapes, Shaped
  <2>3. AppsOK'
    BY <2>2 DEF AppsOK, Shapes, Shaped
  <2>4. QED
    BY <1>0, <1>2, <2>1, <2>3 DEF Launch, Typed, regVars, tableVars, TableOK, TableTypeOK
<1>3. CASE ListParticipants(s)
  <2>1. app[s].call \in CallIds
    BY <1>0, <1>3 DEF ListParticipants, Busy, Shaped, Showing, App
  <2>2. AppsOK'
    BY <1>0, <1>3, <2>1, ShowListOK DEF ListParticipants
  <2>3. QED
    BY <1>0, <1>3, <2>2 DEF ListParticipants, Typed, regVars, tableVars, TableOK, TableTypeOK
<1>4. CASE LobbyAnswer(s)
  <2>1. prompt[s] \in CallIds
    BY <1>0, <1>4 DEF LobbyAnswer
  <2>2. TableOK' /\ notify' \in Maildir
    BY <1>0, <1>4, <2>1, AnswerTyped DEF LobbyAnswer
  <2>3. AppsOK'
    BY <1>0, <1>1, <1>4, <2>1, AfterAnswerOK DEF LobbyAnswer
  <2>4. QED
    BY <1>0, <1>4, <2>2, <2>3 DEF LobbyAnswer, Typed
<1>5. CASE LobbyReject(s)
  <2>1. prompt[s] \in CallIds
    BY <1>0, <1>5 DEF LobbyReject
  <2>2. TableOK' /\ notify' \in Maildir
    BY <1>0, <1>5, <2>1, RejectTyped DEF LobbyReject
  <2>3. QED
    BY <1>0, <1>5, <2>2 DEF LobbyReject, Typed, uiVars, AppsOK, Shapes, Shaped
<1>6. CASE LobbyPhone(s)
  <2>1. AppsOK'
    BY <1>0, <1>1, <1>6, LaunchAppOK DEF LobbyPhone
  <2>2. QED
    BY <1>0, <1>6, <2>1 DEF LobbyPhone, Typed, regVars, tableVars, TableOK, TableTypeOK
<1>7. ASSUME NEW u \in Users, NEW c \in CallIds, LobbyDial(s, u, c)
      PROVE  Typed
  <2>1. TableOK' /\ notify' \in Maildir
    BY <1>0, <1>7, DialTyped DEF LobbyDial
  <2>2. CallingApp(c, u) \in App /\ Shaped(CallingApp(c, u))
    BY DEF CallingApp, IdleApp, App, Shaped, Showing
  <2>3. AppsOK'
    BY <1>0, <1>7, <2>2, LaunchAppOK DEF LobbyDial
  <2>4. QED
    BY <1>0, <1>7, <2>1, <2>3 DEF LobbyDial, Typed
<1>8. QED
  BY <1>2, <1>3, <1>4, <1>5, <1>6, <1>7

LEMMA PhoneTyped ==
  ASSUME TypeInv, NEW s \in Sessions,
         \/ PhoneAnswer(s) \/ PhoneReject(s) \/ PhoneHangup(s)
         \/ PhoneCancelAdd(s) \/ PhoneExit(s)
         \/ \E u \in Users : PhoneAdd(s, u)
         \/ \E u \in Users, c \in CallIds : PhoneDial(s, u, c)
  PROVE  Typed
<1> USE RegistryAssumption, PhoneAssumption
<1>0. /\ TableOK /\ TableTypeOK /\ notify \in Maildir /\ AppsOK
      /\ doors \in DoorSets
      /\ mode \in [Sessions -> {"lobby", "app"}]
      /\ prompt \in [Sessions -> CallIds \union {NoCall}]
      /\ armed \in [Sessions -> 0 .. MaxReceivers]
      /\ app[s] \in App /\ Shaped(app[s])
      /\ Owner[s] \in Users
  BY TypeParts DEF TableOK, AppsOK, Shapes
<1>1. /\ IdleApp \in App /\ Shaped(IdleApp)
      /\ GoIdle(app[s]) \in App /\ Shaped(GoIdle(app[s]))
      /\ [app[s] EXCEPT !.incoming = NoCall] \in App
      /\ Shaped([app[s] EXCEPT !.incoming = NoCall])
  BY <1>0 DEF GoIdle, IdleApp, App, Shaped, Showing
<1>2. CASE PhoneAnswer(s)
  <2>1. app[s].incoming \in CallIds
    BY <1>0, <1>2 DEF PhoneAnswer, App
  <2>2. CASE Answer(s, app[s].incoming) /\ AfterAnswer(s, AnsweringApp(app[s], app[s].incoming))
    <3>1. TableOK' /\ notify' \in Maildir
      BY <1>0, <2>1, <2>2, AnswerTyped
    <3>2. AppsOK'
      BY <1>0, <2>1, <2>2, AfterAnswerOK
    <3>3. QED
      BY <1>0, <1>2, <3>1, <3>2 DEF PhoneAnswer, Typed
  <2>3. CASE /\ SetApp(s, [app[s] EXCEPT !.incoming = NoCall])
             /\ UNCHANGED <<regVars, tableVars, launching>>
    <3>1. AppsOK'
      BY <1>0, <1>1, <2>3, SetAppOK
    <3>2. QED
      BY <1>0, <1>2, <2>3, <3>1
      DEF PhoneAnswer, Typed, regVars, tableVars, TableOK, TableTypeOK
  <2>4. QED
    BY <1>2, <2>2, <2>3 DEF PhoneAnswer
<1>3. CASE PhoneReject(s)
  <2>1. app[s].incoming \in CallIds
    BY <1>0, <1>3 DEF PhoneReject, App
  <2>2. TableOK' /\ notify' \in Maildir
    <3>1. CASE Reject(Owner[s], app[s].incoming)
      BY <1>0, <2>1, <3>1, RejectTyped
    <3>2. CASE UNCHANGED <<regVars, tableVars>>
      BY <1>0, <3>2 DEF regVars, tableVars, TableOK, TableTypeOK
    <3>3. QED
      BY <1>3, <3>1, <3>2 DEF PhoneReject
  <2>3. AppsOK'
    BY <1>0, <1>1, <1>3, SetAppOK DEF PhoneReject
  <2>4. QED
    BY <1>0, <1>3, <2>2, <2>3 DEF PhoneReject, Typed
<1>4. CASE PhoneHangup(s)
  <2>1. TableTypeOK' /\ notify' \in Maildir
    BY <1>0, <1>4, HangupShownTyped DEF PhoneHangup
  <2>2. AppsOK'
    BY <1>0, <1>1, <1>4, SetAppOK DEF PhoneHangup
  <2>3. QED
    BY <1>0, <1>4, <2>1, <2>2 DEF PhoneHangup, Typed, TableOK
<1>5. CASE PhoneCancelAdd(s)
  <2>1. app[s].call \in CallIds /\ app[s].target \in Users
    BY <1>0, <1>5 DEF PhoneCancelAdd, App, Shaped, Showing
  <2>2. TableOK' /\ notify' \in Maildir
    BY <1>0, <1>5, <2>1, AddTyped DEF PhoneCancelAdd
  <2>3. [app[s] EXCEPT !.target = NoUser] \in App
        /\ Shaped([app[s] EXCEPT !.target = NoUser])
    BY <1>0 DEF App, Shaped, Showing
  <2>4. AppsOK'
    BY <1>0, <1>5, <2>3, SetAppOK DEF PhoneCancelAdd
  <2>5. QED
    BY <1>0, <1>5, <2>2, <2>4 DEF PhoneCancelAdd, Typed
<1>6. CASE PhoneExit(s)
  <2>1. TableTypeOK' /\ notify' \in Maildir
    BY <1>0, <1>6, HangupShownTyped DEF PhoneExit
  <2>2. AppsOK'
    BY <1>0, <1>1, <1>6, SetAppOK DEF PhoneExit
  <2>3. armed' \in [Sessions -> 0 .. MaxReceivers]
    BY <1>0, <1>6 DEF PhoneExit
  <2>4. QED
    BY <1>0, <1>6, <2>1, <2>2, <2>3 DEF PhoneExit, Typed, TableOK
<1>7. ASSUME NEW u \in Users, PhoneAdd(s, u)
      PROVE  Typed
  <2>1. app[s].call \in CallIds
    BY <1>0, <1>7 DEF PhoneAdd, InPhone, App, Shaped, Showing
  <2>2. TableOK' /\ notify' \in Maildir
    BY <1>0, <1>7, <2>1, AddTyped DEF PhoneAdd
  <2>3. [app[s] EXCEPT !.target = u] \in App /\ Shaped([app[s] EXCEPT !.target = u])
    BY <1>0 DEF App, Shaped, Showing
  <2>4. AppsOK'
    BY <1>0, <1>7, <2>3, SetAppOK DEF PhoneAdd
  <2>5. QED
    BY <1>0, <1>7, <2>2, <2>4 DEF PhoneAdd, Typed
<1>8. ASSUME NEW u \in Users, NEW c \in CallIds, PhoneDial(s, u, c)
      PROVE  Typed
  <2>1. TableOK' /\ notify' \in Maildir
    BY <1>0, <1>8, DialTyped DEF PhoneDial
  <2> DEFINE b == [app[s] EXCEPT !.st = "pending", !.call = c, !.peers = {u}]
  <2>2. b \in App /\ Shaped(b)
    BY <1>0 DEF App, Shaped, Showing
  <2>3. AppsOK'
    BY <1>0, <1>8, <2>2, SetAppOK DEF PhoneDial
  <2>4. QED
    BY <1>0, <1>8, <2>1, <2>3 DEF PhoneDial, Typed
<1>9. QED
  BY <1>2, <1>3, <1>4, <1>5, <1>6, <1>7, <1>8

LEMMA LifeTyped ==
  ASSUME TypeInv, NEW s \in Sessions,
         Login(s) \/ Disconnect(s) \/ Teardown(s) \/ Handle(s)
  PROVE  Typed
<1> USE RegistryAssumption, PhoneAssumption
<1>0. /\ TableOK /\ TableTypeOK /\ notify \in Maildir /\ AppsOK
      /\ doors \in DoorSets
      /\ mode \in [Sessions -> {"lobby", "app"}]
      /\ prompt \in [Sessions -> CallIds \union {NoCall}]
      /\ armed \in [Sessions -> 0 .. MaxReceivers]
      /\ app[s] \in App /\ Shaped(app[s])
      /\ Owner[s] \in Users
      /\ << >> \in Mailbox
  BY TypeParts, EmptySeq DEF TableOK, AppsOK, Shapes, Mailbox
<1>1. IdleApp \in App /\ Shaped(IdleApp) /\ ForcedApp \in App /\ Shaped(ForcedApp)
  BY DEF ForcedApp, IdleApp, App, Shaped, Showing
<1>2. CASE Login(s)
  <2>1. TableOK' /\ notify' \in Maildir
    BY <1>0, <1>2 DEF Login, Register, tableVars, TableOK, TableTypeOK, Phases
  <2>2. AppsOK'
    <3>1. CASE UNCHANGED <<app, launching>>
      BY <1>0, <3>1 DEF AppsOK, Shapes, Shaped
    <3>2. CASE SetApp(s, ForcedApp) /\ UNCHANGED launching
      BY <1>0, <1>1, <3>2, SetAppOK
    <3>3. QED
      BY <1>2, <3>1, <3>2 DEF Login
  <2>3. mode' \in [Sessions -> {"lobby", "app"}]
        /\ armed' \in [Sessions -> 0 .. MaxReceivers]
    BY <1>0, <1>2 DEF Login
  <2>4. QED
    BY <1>0, <1>2, <2>1, <2>2, <2>3 DEF Login, Typed
<1>3. CASE Disconnect(s)
  <2>1. TableOK' /\ notify' \in Maildir
    BY <1>0, <1>3 DEF Disconnect, Drop, tableVars, TableOK, TableTypeOK, Phases, Maildir
  <2>2. AppsOK'
    BY <1>0, <1>1, <1>3 DEF Disconnect, AppsOK, Shapes, Shaped
  <2>3. QED
    BY <1>0, <1>3, <2>1, <2>2 DEF Disconnect, Typed
<1>4. CASE Teardown(s)
  <2>1. TableOK' /\ notify' \in Maildir
    BY <1>0, <1>4, TeardownTyped
  <2>2. QED
    BY <1>0, <1>4, <2>1 DEF Teardown, uiVars, Typed, AppsOK, Shapes, Shaped
<1>5. CASE Handle(s)
  <2>1. PICK i \in Deliverable(s) :
          LET e == notify[s][i]
              queues == [notify EXCEPT ![s] = Without(@, i)]
          IN \/ /\ prompt' = [prompt EXCEPT ![s] = LobbyPrompt(@, e)]
                /\ notify' = queues
                /\ UNCHANGED <<state, callee, parts, invites, app>>
             \/ /\ SetApp(s, AppAfter(Owner[s], app[s], e))
                /\ \/ HangupShown(s, queues)
                   \/ notify' = queues /\ UNCHANGED <<state, callee, parts, invites>>
                /\ UNCHANGED prompt
    BY <1>5 DEF Handle
  <2> DEFINE e == notify[s][i]
             queues == [notify EXCEPT ![s] = Without(@, i)]
  <2>2. notify[s] \in Mailbox /\ i \in 1 .. Len(notify[s])
    BY <1>0 DEF Deliverable, Maildir
  <2>3. e \in Sent /\ queues \in Maildir
    BY <1>0, <2>2, WithoutTyped, ElementOfSeq DEF Mailbox, Maildir
  <2>4. UNCHANGED <<doors, phase, ticked, mode, launching, armed>>
    BY <1>5 DEF Handle
  <2>5. AppAfter(Owner[s], app[s], e) \in App /\ Shaped(AppAfter(Owner[s], app[s], e))
    BY <1>0, <2>3, HandlerTyped
  <2>6. LobbyPrompt(prompt[s], e) \in CallIds \union {NoCall}
    BY <1>0, <2>3 DEF LobbyPrompt, Sent, Event
  <2> HIDE DEF e, queues
  <2>7. CASE /\ prompt' = [prompt EXCEPT ![s] = LobbyPrompt(@, e)]
             /\ notify' = queues
             /\ UNCHANGED <<state, callee, parts, invites, app>>
    BY <1>0, <2>3, <2>4, <2>6, <2>7
    DEF Typed, TableOK, TableTypeOK, AppsOK, Shapes, Shaped
  <2>8. CASE /\ SetApp(s, AppAfter(Owner[s], app[s], e))
             /\ \/ HangupShown(s, queues)
                \/ notify' = queues /\ UNCHANGED <<state, callee, parts, invites>>
             /\ UNCHANGED prompt
    <3>1. TableTypeOK' /\ notify' \in Maildir
      BY <1>0, <2>3, <2>4, <2>8, HangupShownTyped DEF TableTypeOK
    <3>2. AppsOK'
      BY <1>0, <2>4, <2>5, <2>8, SetAppOK
    <3>3. QED
      BY <1>0, <2>4, <2>8, <3>1, <3>2 DEF Typed, TableOK
  <2>9. QED
    BY <2>1, <2>7, <2>8 DEF e, queues
<1>6. QED
  BY <1>2, <1>3, <1>4, <1>5

LEMMA NextTyped == TypeInv /\ [Next]_vars => TypeInv'
<1> SUFFICES ASSUME TypeInv, [Next]_vars PROVE Typed
  BY TypedIsTypeInv
<1>1. /\ TableOK /\ notify \in Maildir /\ AppsOK
      /\ doors \in DoorSets
      /\ mode \in [Sessions -> {"lobby", "app"}]
      /\ prompt \in [Sessions -> CallIds \union {NoCall}]
      /\ armed \in [Sessions -> 0 .. MaxReceivers]
  BY TypeParts
<1>2. ASSUME NEW g \in Ringers, Tick(g) \/ ReRing(g), UNCHANGED uiVars
      PROVE  Typed
  BY <1>1, <1>2, RingerTyped DEF uiVars, Typed, AppsOK, Shapes, Shaped
<1>3. CASE UNCHANGED vars
  BY <1>1, <1>3 DEF vars, regVars, tableVars, uiVars, Typed, TableOK, TableTypeOK,
     AppsOK, Shapes, Shaped
<1>4. ticked \subseteq Ringers /\ Captured \subseteq Ringers
  BY <1>1 DEF TableOK, TableTypeOK, Captured
<1>5. CASE Next
  BY <1>2, <1>4, <1>5, LifeTyped, LobbyTyped, PhoneTyped DEF Next, TickOf, ReRingOf
<1>6. QED
  BY <1>3, <1>5

(* A screen in PHONE names a call exactly when it rings or talks, and so   *)
(* the table, the queues and the screens keep their types, whatever the    *)
(* accounts, sessions, calls, doors and the channel capacity are.          *)
THEOREM Typing == Spec => [](TypeOK /\ Shapes)
<1>1. TypeInv => TypeOK /\ Shapes
  BY TypeSplit DEF TypeInv
<1>2. QED
  BY InitTyped, NextTyped, <1>1, PTL DEF Spec

-----------------------------------------------------------------------------
(* The table under every client: what no method may do, whoever calls it.  *)

EventsOf(q) == {q[i] : i \in 1 .. Len(q)}

(* Events are about calls that were placed; only a session of the callee   *)
(* was ever rung by a call that still rings; an answer, and a departure,   *)
(* are of a call that was answered.                                        *)
EventOK(r, e) ==
  /\ state[e.call] # "unused"
  /\ e.type = "ring" /\ state[e.call] = "pending" => callee[e.call] = Owner[r]
  /\ e.type = "answer" \/ (e.type = "hangup" /\ e.to = NoUser) =>
       state[e.call] \in {"active", "over"}

QueuesOK == \A r \in Sessions : \A e \in EventsOf(notify[r]) : EventOK(r, e)

TickedOK ==
  \A g \in ticked :
    /\ state[g.call] # "unused"
    /\ state[g.call] = "pending" => g.to = callee[g.call]

TableInv == CallShape /\ QueuesOK /\ TickedOK

(* A call is placed, answered and deleted, in this order.                  *)
Evolves ==
  \A c \in CallIds :
    /\ state[c] # "unused" => state'[c] # "unused"
    /\ state[c] # "unused" /\ state'[c] = "pending" =>
         state[c] = "pending" /\ callee'[c] = callee[c]
    /\ state[c] = "over" => state'[c] = "over"
    /\ state[c] = "active" => state'[c] \in {"active", "over"}

(* What was not in a queue before is true now, and nobody is told of an    *)
(* answer to a call that is over.                                          *)
NewsOK ==
  \A r \in Sessions : \A e \in EventsOf(notify'[r]) :
    \/ e \in EventsOf(notify[r])
    \/ EventOK(r, e)' /\ (e.type = "answer" => state'[e.call] = "active")

(* Session r loses no call but one that rang and was refused or cancelled. *)
Keeps(r) ==
  \A c \in CallIds :
    r \in parts[c] => \/ r \in parts'[c]
                      \/ state[c] = "pending" /\ state'[c] = "over"

TableStep == TableInv' /\ Evolves /\ NewsOK

LEMMA PostEvents ==
  ASSUME NEW queues \in Maildir, NEW mail, NEW r \in Sessions,
         NEW e \in EventsOf(Post(queues, mail)[r])
  PROVE  e \in EventsOf(queues[r]) \/ (r \in DOMAIN mail /\ e = mail[r])
<1>1. queues[r] \in Seq(Sent)
  BY DEF Maildir, Mailbox
<1>2. CASE r \in DOMAIN mail /\ phase[r] = "live" /\ Len(queues[r]) < NotifyCap
  <2>1. Post(queues, mail)[r] = Append(queues[r], mail[r])
    BY <1>2 DEF Post
  <2>2. queues[r] \in Seq(Sent \union {mail[r]}) /\ mail[r] \in Sent \union {mail[r]}
    BY <1>1, SeqMonotonic
  <2>3. PICK i \in 1 .. Len(Append(queues[r], mail[r])) :
          e = Append(queues[r], mail[r])[i]
    BY <2>1 DEF EventsOf
  <2>4. \/ i \in 1 .. Len(queues[r]) /\ e = queues[r][i]
        \/ e = mail[r]
    BY <2>2, <2>3, AppendProperties, LenProperties
  <2>5. QED
    BY <1>2, <2>4 DEF EventsOf
<1>3. CASE ~(r \in DOMAIN mail /\ phase[r] = "live" /\ Len(queues[r]) < NotifyCap)
  BY <1>3 DEF Post
<1>4. QED
  BY <1>2, <1>3

LEMMA SendEvents ==
  ASSUME NEW queues \in Maildir, NEW targets, NEW event, NEW r \in Sessions,
         NEW e \in EventsOf(Send(queues, targets, event)[r])
  PROVE  e \in EventsOf(queues[r]) \/ (r \in targets /\ e = event)
BY PostEvents DEF Send

LEMMA TwiceSentEvents ==
  ASSUME NEW queues \in Maildir, NEW S, NEW T, NEW d \in Sent, NEW f,
         NEW r \in Sessions,
         NEW e \in EventsOf(Send(Send(queues, S, d), T, f)[r])
  PROVE  e \in EventsOf(queues[r]) \/ (r \in S /\ e = d) \/ e = f
<1>1. Send(queues, S, d) \in Maildir
  BY SendTyped
<1>2. e \in EventsOf(Send(queues, S, d)[r]) \/ e = f
  BY <1>1, SendEvents
<1>3. QED
  BY <1>2, SendEvents

LEMMA WithoutEvents ==
  ASSUME NEW q \in Mailbox, NEW i \in 1 .. Len(q)
  PROVE  EventsOf(Without(q, i)) \subseteq EventsOf(q)
<1>1. Len(q) \in Nat
  BY LenProperties DEF Mailbox
<1>2. /\ Len(Without(q, i)) = Len(q) - 1
      /\ \A j \in 1 .. Len(q) - 1 :
           Without(q, i)[j] = IF j < i THEN q[j] ELSE q[j + 1]
  BY WithoutTyped
<1>3. ASSUME NEW j \in 1 .. Len(q) - 1
      PROVE  \E k \in 1 .. Len(q) : Without(q, i)[j] = q[k]
  <2>1. j \in 1 .. Len(q) /\ j + 1 \in 1 .. Len(q)
    BY <1>1
  <2>2. QED
    BY <1>2, <2>1
<1>4. QED
  BY <1>2, <1>3 DEF EventsOf

LEMMA QueuesFollow ==
  ASSUME TableTypeOK, notify \in Maildir, QueuesOK, Evolves, NewsOK
  PROVE  QueuesOK'
<1> SUFFICES ASSUME NEW r \in Sessions, NEW e \in EventsOf(notify'[r])
             PROVE  EventOK(r, e)'
  BY DEF QueuesOK
<1>1. CASE e \in EventsOf(notify[r])
  <2>1. notify[r] \in Seq(Sent)
    BY DEF Maildir, Mailbox
  <2>2. e \in Sent
    BY <1>1, <2>1, ElementOfSeq DEF EventsOf
  <2>3. e.call \in CallIds
    BY <2>2 DEF Sent, Event
  <2>4. EventOK(r, e)
    BY <1>1 DEF QueuesOK
  <2>5. QED
    BY <2>3, <2>4 DEF EventOK, Evolves
<1>2. QED
  BY <1>1 DEF NewsOK

(* Dial: the call is fresh and rings sessions of its callee only.          *)
LEMMA DialKeeps ==
  ASSUME TableOK, notify \in Maildir, TableInv,
         NEW s \in Sessions, NEW u \in Users, NEW c \in CallIds, Dial(s, u, c)
  PROVE  TableStep /\ \A r \in Sessions : Keeps(r)
<1>0. /\ TableTypeOK /\ CallShape /\ QueuesOK /\ TickedOK
      /\ state[c] = "unused" /\ Owner[s] # u /\ parts[c] = {}
  BY DEF TableOK, TableInv, Dial, Admit, CallShape, Exists
<1>1. /\ state' = [state EXCEPT ![c] = "pending"]
      /\ callee' = [callee EXCEPT ![c] = u]
      /\ parts' = [parts EXCEPT ![c] = {s}]
      /\ phase' = phase /\ invites' = invites /\ ticked' = ticked
      /\ notify' = Send(notify, Ringable(u), Ring(c, u))
  BY DEF Dial
<1>2. Evolves
  BY <1>0, <1>1 DEF TableTypeOK, Evolves
<1>3. NewsOK
  <2> SUFFICES ASSUME NEW r \in Sessions, NEW e \in EventsOf(notify'[r]),
                      e \notin EventsOf(notify[r])
               PROVE  EventOK(r, e)' /\ (e.type = "answer" => state'[e.call] = "active")
    BY DEF NewsOK
  <2>1. r \in Ringable(u) /\ e = Ring(c, u)
    BY <1>1, SendEvents
  <2>2. Owner[r] = u /\ e.call = c /\ e.type = "ring"
    BY <2>1 DEF Ringable, SessionsOf, Ring
  <2>3. QED
    BY <1>0, <1>1, <2>2 DEF EventOK, TableTypeOK
<1>4. CallShape'
  BY <1>0, <1>1 DEF TableTypeOK, CallShape, Exists, AddRings
<1>5. TickedOK'
  BY <1>0, <1>1 DEF TableTypeOK, TickedOK, Ringers
<1>6. QED
  BY <1>0, <1>1, <1>2, <1>3, <1>4, <1>5, QueuesFollow
  DEF TableStep, TableInv, Keeps, TableTypeOK

(* Answer of a pending call.                                               *)
LEMMA AnswerDialKeeps ==
  ASSUME TableOK, notify \in Maildir, TableInv,
         NEW s \in Sessions, NEW c \in CallIds, AnswerDial(s, c)
  PROVE  TableStep /\ \A r \in Sessions : Keeps(r)
<1>0. /\ TableTypeOK /\ CallShape /\ QueuesOK /\ TickedOK
      /\ state[c] = "pending" /\ Owner[s] \in Users
  BY RegistryAssumption DEF TableOK, TableInv, AnswerDial
<1>1. /\ state' = [state EXCEPT ![c] = "active"]
      /\ parts' = [parts EXCEPT ![c] = parts[c] \union {s}]
      /\ phase' = phase /\ callee' = callee /\ invites' = invites /\ ticked' = ticked
      /\ notify' = Send(Send(notify, parts[c], Answered(c, Owner[s])),
                        SessionsOf(Owner[s]) \ {s}, Elsewhere(c, Owner[s]))
  BY DEF AnswerDial
<1>2. Evolves
  BY <1>0, <1>1 DEF TableTypeOK, Evolves
<1>3. NewsOK
  <2> SUFFICES ASSUME NEW r \in Sessions, NEW e \in EventsOf(notify'[r]),
                      e \notin EventsOf(notify[r])
               PROVE  EventOK(r, e)' /\ (e.type = "answer" => state'[e.call] = "active")
    BY DEF NewsOK
  <2>1. Answered(c, Owner[s]) \in Sent
    BY <1>0, EventsTyped
  <2>2. e \in {Answered(c, Owner[s]), Elsewhere(c, Owner[s])}
    BY <1>1, <2>1, TwiceSentEvents
  <2>3. e.call = c /\ e.type # "ring"
    BY <2>2 DEF Answered, Elsewhere
  <2>4. QED
    BY <1>0, <1>1, <2>3 DEF EventOK, TableTypeOK
<1>4. CallShape'
  BY <1>0, <1>1 DEF TableTypeOK, CallShape, Exists, AddRings
<1>5. TickedOK'
  BY <1>0, <1>1 DEF TableTypeOK, TickedOK, Ringers
<1>6. QED
  BY <1>0, <1>1, <1>2, <1>3, <1>4, <1>5, QueuesFollow
  DEF TableStep, TableInv, Keeps, TableTypeOK

(* Answer of a conference ring.                                            *)
LEMMA AnswerAddKeeps ==
  ASSUME TableOK, notify \in Maildir, TableInv,
         NEW s \in Sessions, NEW c \in CallIds, AnswerAdd(s, c)
  PROVE  TableStep /\ \A r \in Sessions : Keeps(r)
<1>0. /\ TableTypeOK /\ CallShape /\ QueuesOK /\ TickedOK
      /\ state[c] = "active" /\ Owner[s] \in Users
  BY RegistryAssumption DEF TableOK, TableInv, AnswerAdd
<1>1. /\ parts' = [parts EXCEPT ![c] = parts[c] \union {s}]
      /\ invites' = [invites EXCEPT ![c][Owner[s]] = NoUser]
      /\ phase' = phase /\ state' = state /\ callee' = callee /\ ticked' = ticked
      /\ notify' = Send(notify, parts[c] \ {s}, Answered(c, Owner[s]))
  BY DEF AnswerAdd
<1>2. Evolves
  BY <1>0, <1>1 DEF TableTypeOK, Evolves
<1>3. NewsOK
  <2> SUFFICES ASSUME NEW r \in Sessions, NEW e \in EventsOf(notify'[r]),
                      e \notin EventsOf(notify[r])
               PROVE  EventOK(r, e)' /\ (e.type = "answer" => state'[e.call] = "active")
    BY DEF NewsOK
  <2>1. e = Answered(c, Owner[s])
    BY <1>1, SendEvents
  <2>2. e.call = c /\ e.type = "answer"
    BY <2>1 DEF Answered
  <2>3. QED
    BY <1>0, <1>1, <2>2 DEF EventOK, TableTypeOK
<1>4. CallShape'
  BY <1>0, <1>1 DEF TableTypeOK, CallShape, Exists, AddRings
<1>5. TickedOK'
  BY <1>0, <1>1 DEF TableTypeOK, TickedOK, Ringers
<1>6. QED
  BY <1>0, <1>1, <1>2, <1>3, <1>4, <1>5, QueuesFollow
  DEF TableStep, TableInv, Keeps, TableTypeOK

(* Reject of a pending call, which ends with it.                           *)
LEMMA RejectDialKeeps ==
  ASSUME TableOK, notify \in Maildir, TableInv,
         NEW u \in Users, NEW c \in CallIds, RejectDial(u, c)
  PROVE  TableStep /\ \A r \in Sessions : Keeps(r)
<1>0. /\ TableTypeOK /\ CallShape /\ QueuesOK /\ TickedOK
      /\ state[c] = "pending"
  BY DEF TableOK, TableInv, RejectDial
<1>1. /\ state' = [state EXCEPT ![c] = "over"]
      /\ callee' = [callee EXCEPT ![c] = NoUser]
      /\ parts' = [parts EXCEPT ![c] = {}]
      /\ phase' = phase /\ invites' = invites /\ ticked' = ticked
      /\ notify' = Send(notify, parts[c], Declined(c, u))
  BY DEF RejectDial
<1>2. Evolves
  BY <1>0, <1>1 DEF TableTypeOK, Evolves
<1>3. NewsOK
  <2> SUFFICES ASSUME NEW r \in Sessions, NEW e \in EventsOf(notify'[r]),
                      e \notin EventsOf(notify[r])
               PROVE  EventOK(r, e)' /\ (e.type = "answer" => state'[e.call] = "active")
    BY DEF NewsOK
  <2>1. e = Declined(c, u)
    BY <1>1, SendEvents
  <2>2. e.call = c /\ e.type = "reject"
    BY <2>1 DEF Declined
  <2>3. QED
    BY <1>0, <1>1, <2>2 DEF EventOK, TableTypeOK
<1>4. CallShape'
  BY <1>0, <1>1 DEF TableTypeOK, CallShape, Exists, AddRings
<1>5. TickedOK'
  BY <1>0, <1>1 DEF TableTypeOK, TickedOK, Ringers
<1>6. QED
  BY <1>0, <1>1, <1>2, <1>3, <1>4, <1>5, QueuesFollow
  DEF TableStep, TableInv, Keeps, TableTypeOK

(* Reject and CancelAdd of a conference ring.                              *)
LEMMA WithdrawKeeps ==
  ASSUME TableOK, notify \in Maildir, TableInv,
         NEW w \in Users, NEW u \in Users, NEW c \in CallIds, state[c] # "unused",
         RejectAdd(u, c) \/ CancelAdd(w, u, c)
  PROVE  TableStep /\ \A r \in Sessions : Keeps(r)
<1>0. TableTypeOK /\ CallShape /\ QueuesOK /\ TickedOK
  BY DEF TableOK, TableInv
<1>1. /\ invites' = [invites EXCEPT ![c][u] = NoUser]
      /\ phase' = phase /\ state' = state /\ callee' = callee /\ parts' = parts
      /\ ticked' = ticked
      /\ \/ notify' = Send(notify, parts[c], Declined(c, u))
         \/ notify' = Send(Send(notify, SessionsOf(u), Cancelled(c, w, u)),
                           Others(c, w), Cancelled(c, w, u))
  BY DEF RejectAdd, CancelAdd
<1>2. Evolves
  BY <1>0, <1>1 DEF TableTypeOK, Evolves
<1>3. NewsOK
  <2> SUFFICES ASSUME NEW r \in Sessions, NEW e \in EventsOf(notify'[r]),
                      e \notin EventsOf(notify[r])
               PROVE  EventOK(r, e)' /\ (e.type = "answer" => state'[e.call] = "active")
    BY DEF NewsOK
  <2>1. Cancelled(c, w, u) \in Sent
    BY EventsTyped
  <2>2. e \in {Declined(c, u), Cancelled(c, w, u)}
    <3>1. CASE notify' = Send(notify, parts[c], Declined(c, u))
      BY <3>1, SendEvents
    <3>2. CASE notify' = Send(Send(notify, SessionsOf(u), Cancelled(c, w, u)),
                              Others(c, w), Cancelled(c, w, u))
      BY <2>1, <3>2, TwiceSentEvents
    <3>3. QED
      BY <1>1, <3>1, <3>2
  <2>3. /\ e.call = c /\ e.type \in {"reject", "hangup"}
        /\ e.to # NoUser
    BY <2>2, RegistryAssumption DEF Declined, Cancelled
  <2>4. QED
    BY <1>0, <1>1, <2>3 DEF EventOK, TableTypeOK
<1>4. CallShape'
  BY <1>0, <1>1 DEF TableTypeOK, CallShape, Exists, AddRings
<1>5. TickedOK'
  BY <1>0, <1>1 DEF TableTypeOK, TickedOK, Ringers
<1>6. QED
  BY <1>0, <1>1, <1>2, <1>3, <1>4, <1>5, QueuesFollow
  DEF TableStep, TableInv, Keeps, TableTypeOK

(* Add: somebody of the account it rings is in no call.                    *)
LEMMA AddKeeps ==
  ASSUME TableOK, notify \in Maildir, TableInv,
         NEW w \in Users, NEW u \in Users, NEW c \in CallIds, Add(w, u, c)
  PROVE  TableStep /\ \A r \in Sessions : Keeps(r)
<1>0. /\ TableTypeOK /\ CallShape /\ QueuesOK /\ TickedOK
      /\ state[c] = "active" /\ Ringable(u) # {}
  BY DEF TableOK, TableInv, Add, Admit
<1>1. /\ invites' = [invites EXCEPT ![c][u] = w]
      /\ phase' = phase /\ state' = state /\ callee' = callee /\ parts' = parts
      /\ ticked' = ticked
      /\ notify' = Send(Send(notify, Ringable(u), Ring(c, u)),
                        Others(c, w), Ringing(c, u))
  BY DEF Add
<1>2. Evolves
  BY <1>0, <1>1 DEF TableTypeOK, Evolves
<1>3. NewsOK
  <2> SUFFICES ASSUME NEW r \in Sessions, NEW e \in EventsOf(notify'[r]),
                      e \notin EventsOf(notify[r])
               PROVE  EventOK(r, e)' /\ (e.type = "answer" => state'[e.call] = "active")
    BY DEF NewsOK
  <2>1. Ring(c, u) \in Sent
    BY EventsTyped
  <2>2. e \in {Ring(c, u), Ringing(c, u)}
    BY <1>1, <2>1, TwiceSentEvents
  <2>3. e.call = c /\ e.type \in {"ring", "ringing"}
    BY <2>2 DEF Ring, Ringing
  <2>4. QED
    BY <1>0, <1>1, <2>3 DEF EventOK, TableTypeOK
<1>4. CallShape'
  BY <1>0, <1>1 DEF TableTypeOK, CallShape, Exists, AddRings
<1>5. TickedOK'
  BY <1>0, <1>1 DEF TableTypeOK, TickedOK, Ringers
<1>6. QED
  BY <1>0, <1>1, <1>2, <1>3, <1>4, <1>5, QueuesFollow
  DEF TableStep, TableInv, Keeps, TableTypeOK

(* Hangup, by whatever way: only the one who leaves may lose the call.     *)
LEMMA LeaveKeeps ==
  ASSUME TableOK, notify \in Maildir, TableInv,
         NEW s \in Sessions, NEW c \in CallIds, NEW queues \in Maildir,
         \A r \in Sessions : EventsOf(queues[r]) \subseteq EventsOf(notify[r]),
         s \in parts[c], HangupLocked(c, s, queues), UNCHANGED ticked
  PROVE  /\ TableStep
         /\ \A r \in Sessions : r # s => Keeps(r)
         /\ \A d \in CallIds : d # c => parts'[d] = parts[d] /\ state'[d] = state[d]
<1> USE RegistryAssumption
<1> DEFINE rang == {r \in Sessions : Rings(c, Owner[r])}
           mail == [r \in rang |->
                      Cancelled(c, Canceller(c, s, Owner[r]), Owner[r])]
<1>0. TableTypeOK /\ CallShape /\ QueuesOK /\ TickedOK /\ Exists(c)
  BY DEF TableOK, TableInv, CallShape
<1>1. /\ parts' = [parts EXCEPT ![c] = parts[c] \ {s}]
      /\ ticked' = ticked
      /\ \/ /\ parts[c] \ {s} # {}
            /\ state' = state /\ callee' = callee /\ invites' = invites
            /\ notify' = Send(queues, parts[c] \ {s}, Left(c, Owner[s]))
         \/ /\ parts[c] \ {s} = {}
            /\ state' = [state EXCEPT ![c] = "over"]
            /\ callee' = [callee EXCEPT ![c] = NoUser]
            /\ invites' = [invites EXCEPT ![c] = NoInvites]
            /\ notify' = Post(queues, mail)
  BY DEF HangupLocked
<1>2. Evolves
  BY <1>0, <1>1 DEF TableTypeOK, Evolves, Exists
<1>3. NewsOK
  <2> SUFFICES ASSUME NEW r \in Sessions, NEW e \in EventsOf(notify'[r]),
                      e \notin EventsOf(queues[r])
               PROVE  EventOK(r, e)' /\ (e.type = "answer" => state'[e.call] = "active")
    BY DEF NewsOK
  <2>1. e.call = c /\ e.type = "hangup"
    <3>1. CASE notify' = Send(queues, parts[c] \ {s}, Left(c, Owner[s]))
      BY <3>1, SendEvents DEF Left
    <3>2. CASE notify' = Post(queues, mail)
      <4>1. r \in rang /\ e = mail[r]
        BY <3>2, PostEvents
      <4>2. QED
        BY <4>1 DEF Cancelled
    <3>3. QED
      BY <1>1, <3>1, <3>2
  <2>2. state'[c] \in {"active", "over"}
    <3>1. state[c] = "pending" => parts[c] \ {s} = {}
      BY <1>0 DEF CallShape
    <3>2. QED
      BY <1>0, <1>1, <3>1 DEF TableTypeOK, Exists
  <2>3. QED
    BY <2>1, <2>2 DEF EventOK
<1> HIDE DEF rang, mail
<1>4. CallShape'
  BY <1>0, <1>1 DEF TableTypeOK, CallShape, Exists, AddRings, NoInvites
<1>5. TickedOK'
  BY <1>0, <1>1 DEF TableTypeOK, TickedOK, Ringers
<1>6. (\A r \in Sessions : r # s => Keeps(r))
      /\ \A d \in CallIds : d # c => parts'[d] = parts[d] /\ state'[d] = state[d]
  BY <1>0, <1>1 DEF Keeps, TableTypeOK
<1>7. QED
  BY <1>0, <1>2, <1>3, <1>4, <1>5, <1>6, QueuesFollow DEF TableStep, TableInv

(* ReapUnreachableRings.                                                   *)
LEMMA ReapKeeps ==
  ASSUME TableOK, notify \in Maildir, TableInv,
         NEW u \in Users, ReapRings(u), UNCHANGED ticked
  PROVE  TableStep /\ \A r \in Sessions : Keeps(r)
<1> DEFINE why == IF Connected(u) THEN "unavailable" ELSE "gone"
           dead == {c \in CallIds : DialRings(c, u)}
           lost == dead \union {c \in CallIds : AddRings(c, u)}
           told == {s \in Sessions : \E c \in lost : s \in parts[c]}
           mail == [s \in told |-> Lost(why, CHOOSE c \in lost : s \in parts[c], u)]
<1>0. TableTypeOK /\ CallShape /\ QueuesOK /\ TickedOK
  BY DEF TableOK, TableInv
<1>1. /\ \A c \in CallIds :
           IF DialRings(c, u)
           THEN state'[c] = "over" /\ callee'[c] = NoUser /\ parts'[c] = {}
           ELSE state'[c] = state[c] /\ callee'[c] = callee[c]
                /\ parts'[c] = parts[c]
      /\ \A c \in CallIds : \A w \in Users :
           invites'[c][w] = IF w = u THEN NoUser ELSE invites[c][w]
      /\ notify' = Post(notify, mail)
      /\ ticked' = ticked
  BY <1>0 DEF ReapRings, TableTypeOK
<1>2. Evolves
  BY <1>0, <1>1 DEF TableTypeOK, Evolves, DialRings
<1>3. NewsOK
  <2> SUFFICES ASSUME NEW r \in Sessions, NEW e \in EventsOf(notify'[r]),
                      e \notin EventsOf(notify[r])
               PROVE  EventOK(r, e)' /\ (e.type = "answer" => state'[e.call] = "active")
    BY DEF NewsOK
  <2>1. r \in told /\ e = mail[r]
    BY <1>1, PostEvents
  <2>2. PICK c \in lost : r \in parts[c]
    BY <2>1
  <2>3. e.call \in lost /\ e.type \in {"gone", "unavailable"}
    BY <2>1, <2>2 DEF Lost
  <2>4. state'[e.call] # "unused"
    BY <1>0, <1>1, <2>3 DEF CallShape, DialRings, AddRings, TableTypeOK
  <2>5. QED
    BY <2>3, <2>4 DEF EventOK
<1> HIDE DEF why, dead, lost, told, mail
<1>4. CallShape'
  <2> SUFFICES ASSUME NEW c \in CallIds
               PROVE  /\ state'[c] = "pending" =>
                           \E s \in Sessions : parts'[c] = {s} /\ Owner[s] # callee'[c]
                      /\ state'[c] = "active" => parts'[c] # {}
                      /\ state'[c] \notin {"pending", "active"} => parts'[c] = {}
                      /\ state'[c] # "active" => \A w \in Users : invites'[c][w] = NoUser
    BY DEF CallShape, Exists, AddRings
  <2>1. CASE DialRings(c, u)
    BY <1>0, <1>1, <2>1 DEF CallShape, AddRings, DialRings
  <2>2. CASE ~DialRings(c, u)
    BY <1>0, <1>1, <2>2 DEF CallShape, Exists, AddRings
  <2>3. QED
    BY <2>1, <2>2
<1>5. TickedOK'
  BY <1>0, <1>1 DEF TableTypeOK, TickedOK, Ringers
<1>6. \A r \in Sessions : Keeps(r)
  BY <1>0, <1>1 DEF Keeps, DialRings
<1>7. QED
  BY <1>0, <1>2, <1>3, <1>4, <1>5, <1>6, QueuesFollow DEF TableStep, TableInv

(* A ticker fires, or its goroutine gets the lock.                         *)
LEMMA RingerKeeps ==
  ASSUME TableOK, notify \in Maildir, TableInv,
         NEW g \in Ringers, Tick(g) \/ ReRing(g)
  PROVE  TableStep /\ \A r \in Sessions : Keeps(r)
<1>0. /\ TableTypeOK /\ CallShape /\ QueuesOK /\ TickedOK
      /\ g.call \in CallIds /\ g.to \in Users
  BY DEF TableOK, TableInv, Ringers
<1>1. UNCHANGED <<phase, state, callee, parts, invites>>
  BY DEF Tick, ReRing
<1>2. Evolves /\ CallShape' /\ \A r \in Sessions : Keeps(r)
  BY <1>0, <1>1 DEF Evolves, CallShape, Exists, AddRings, Keeps, TableTypeOK
<1>3. CASE Tick(g)
  <2>1. TickedOK'
    BY <1>0, <1>1, <1>3 DEF Tick, TickedOK, DialRings, AddRings, CallShape
  <2>2. NewsOK
    BY <1>3 DEF Tick, NewsOK
  <2>3. QED
    BY <1>0, <1>2, <2>1, <2>2, QueuesFollow DEF TableStep, TableInv
<1>4. CASE ReRing(g)
  <2>1. TickedOK'
    BY <1>0, <1>1, <1>4 DEF ReRing, TickedOK
  <2>2. NewsOK
    <3> SUFFICES ASSUME NEW r \in Sessions, NEW e \in EventsOf(notify'[r]),
                        e \notin EventsOf(notify[r])
                 PROVE  EventOK(r, e)' /\ (e.type = "answer" => state'[e.call] = "active")
      BY DEF NewsOK
    <3>1. Ring(g.call, g.to) \in Sent
      BY <1>0, EventsTyped
    <3>2. /\ Exists(g.call) /\ g \in ticked
          /\ \/ r \in Ringable(g.to) /\ e = Ring(g.call, g.to)
             \/ e = Ringing(g.call, g.to)
      <4>1. g \in ticked /\ notify' # notify
        BY <1>4 DEF ReRing
      <4>2. \/ notify' = Send(notify, Ringable(g.to), Ring(g.call, g.to))
            \/ notify' = Send(Send(notify, Ringable(g.to), Ring(g.call, g.to)),
                              Others(g.call, g.by), Ringing(g.call, g.to))
        BY <1>4, <4>1 DEF ReRing
      <4>3. CASE notify' = Send(notify, Ringable(g.to), Ring(g.call, g.to))
        BY <1>4, <4>1, <4>3, SendEvents DEF ReRing
      <4>4. CASE notify' = Send(Send(notify, Ringable(g.to), Ring(g.call, g.to)),
                                Others(g.call, g.by), Ringing(g.call, g.to))
        BY <1>4, <3>1, <4>1, <4>4, TwiceSentEvents DEF ReRing
      <4>5. QED
        BY <4>2, <4>3, <4>4
    <3>3. /\ e.call = g.call /\ e.type \in {"ring", "ringing"}
          /\ e.type = "ring" => Owner[r] = g.to
      BY <3>2 DEF Ring, Ringing, Ringable, SessionsOf
    <3>4. QED
      BY <1>0, <1>1, <3>2, <3>3 DEF EventOK, TickedOK, Exists
  <2>3. QED
    BY <1>0, <1>2, <2>1, <2>2, QueuesFollow DEF TableStep, TableInv
<1>5. QED
  BY <1>3, <1>4

-----------------------------------------------------------------------------
(* What every session shows, and what it may believe of the call table.    *)

ScreenShape(r) ==
  /\ mode[r] = "lobby" => app[r] = IdleApp \/ Busy(r)
  /\ Busy(r) => app[r].incoming = NoCall
  /\ ~Live(r) => /\ mode[r] = "lobby" /\ app[r] = IdleApp
                 /\ launching[r] = {} /\ prompt[r] = NoCall
  /\ \A a \in launching[r] :
       a.st \notin {"answered", "forced"} /\ a.incoming = NoCall

(* A ring that may still be answered is one for this account.              *)
RungBy(r, c) ==
  c # NoCall => /\ state[c] # "unused"
                /\ state[c] = "pending" => callee[c] = Owner[r]

Known(a) == a.call # NoCall => state[a.call] # "unused"

(* Without "slowLaunch", a launch is handled before anything else is.      *)
OneLaunch(r) ==
  ~Open("slowLaunch") =>
    /\ mode[r] = "app" \/ Busy(r) => launching[r] = {}
    /\ \A a, b \in launching[r] : a = b

(* A model that claims to be in a call is one of a participant; one that   *)
(* waits for its callee is as well, or its call is over without an answer. *)
Backed(r, a) ==
  /\ a.st \in {"active", "answered"} =>
       r \in parts[a.call] /\ state[a.call] = "active"
  /\ a.st = "pending" =>
       \/ r \in parts[a.call]
       \/ /\ state[a.call] = "over"
          /\ \A e \in EventsOf(notify[r]) : e.call = a.call => e.type # "answer"

(* The session is at the lobby, or may be again: what waits to be launched *)
(* may still come on screen.                                               *)
ComesBack(r) == mode[r] = "lobby" \/ app[r].st = "other" \/ Open("reopen")

Claims(r) ==
  /\ Backed(r, app[r])
  /\ ComesBack(r) => \A a \in launching[r] : Backed(r, a)

(* No two models of a session are about the same call.                     *)
OneClaim(r) ==
  ComesBack(r) =>
    \A a \in launching[r] :
      a.call # NoCall =>
        a.call # app[r].call /\ \A b \in launching[r] : b.call = a.call => a = b

Screen(r) ==
  /\ ScreenShape(r)
  /\ RungBy(r, prompt[r]) /\ RungBy(r, app[r].incoming)
  /\ Known(app[r]) /\ \A a \in launching[r] : Known(a)
  /\ OneLaunch(r)
  /\ Claims(r) /\ OneClaim(r)

(* The step keeps r in call c, unless it rang and was refused.             *)
KeepsCall(r, c) ==
  r \in parts[c] => \/ r \in parts'[c]
                    \/ state[c] = "pending" /\ state'[c] = "over"

LEMMA RungKept ==
  ASSUME Evolves, NEW r \in Sessions, NEW c \in CallIds \union {NoCall}, RungBy(r, c)
  PROVE  RungBy(r, c)'
BY PhoneAssumption DEF Evolves, RungBy

LEMMA KnownKept ==
  ASSUME Evolves, NEW a \in App, Known(a)
  PROVE  Known(a)'
BY PhoneAssumption DEF Evolves, Known, App

LEMMA BackedKept ==
  ASSUME TableTypeOK, TableInv, TableStep, NEW r \in Sessions,
         NEW a \in App, Shaped(a), Backed(r, a), KeepsCall(r, a.call)
  PROVE  Backed(r, a)'
<1> USE PhoneAssumption
<1>0. Evolves /\ NewsOK /\ CallShape' /\ QueuesOK
  BY DEF TableInv, TableStep
<1>1. CASE a.st \in {"active", "answered"}
  <2>1. a.call \in CallIds /\ r \in parts[a.call] /\ state[a.call] = "active"
    BY <1>1 DEF Backed, Shaped, Showing, App
  <2>2. r \in parts'[a.call] /\ state'[a.call] \in {"active", "over"}
    BY <1>0, <2>1 DEF KeepsCall, Evolves
  <2>3. state'[a.call] = "active"
    BY <1>0, <2>1, <2>2 DEF CallShape, Exists
  <2>4. QED
    BY <1>1, <2>2, <2>3 DEF Backed
<1>2. CASE a.st = "pending"
  <2>1. a.call \in CallIds
    BY <1>2 DEF Shaped, Showing, App
  <2>2. CASE r \in parts[a.call] /\ r \in parts'[a.call]
    BY <1>2, <2>2 DEF Backed
  <2>3. CASE r \in parts[a.call] /\ r \notin parts'[a.call]
    <3>1. state[a.call] = "pending" /\ state'[a.call] = "over"
      BY <2>3 DEF KeepsCall
    <3>2. \A e \in EventsOf(notify'[r]) : e.call = a.call => e.type # "answer"
      BY <1>0, <3>1 DEF NewsOK, QueuesOK, EventOK
    <3>3. QED
      BY <1>2, <3>1, <3>2 DEF Backed
  <2>4. CASE r \notin parts[a.call]
    <3>1. /\ state[a.call] = "over"
          /\ \A e \in EventsOf(notify[r]) : e.call = a.call => e.type # "answer"
      BY <1>2, <2>4 DEF Backed
    <3>2. state'[a.call] = "over"
      BY <1>0, <2>1, <3>1 DEF Evolves
    <3>3. \A e \in EventsOf(notify'[r]) : e.call = a.call => e.type # "answer"
      BY <1>0, <3>1, <3>2 DEF NewsOK
    <3>4. QED
      BY <1>2, <3>2, <3>3 DEF Backed
  <2>5. QED
    BY <2>2, <2>3, <2>4
<1>3. CASE a.st \notin {"active", "answered", "pending"}
  BY <1>3 DEF Backed
<1>4. QED
  BY <1>1, <1>2, <1>3

(* A session keeps its screen valid when what it claims stays the same.    *)
LEMMA ScreenKept ==
  ASSUME TypeInv, TableInv, TableStep, NEW r \in Sessions, Screen(r),
         Live(r) => Keeps(r), Live(r)' <=> Live(r),
         doors' = doors, mode'[r] = mode[r], launching'[r] = launching[r],
         app'[r].st = app[r].st, app'[r].call = app[r].call,
         mode[r] = "lobby" \/ ~Live(r) \/ Busy(r) => app'[r] = app[r],
         ~Live(r) => prompt'[r] = prompt[r],
         RungBy(r, prompt[r])', RungBy(r, app[r].incoming)'
  PROVE  Screen(r)'
<1>0. /\ TableTypeOK /\ Evolves
      /\ app[r] \in App /\ Shaped(app[r])
      /\ \A a \in launching[r] : a \in App /\ Shaped(a)
  BY DEF TypeInv, TableOK, ScreensOK, Shapes, TableStep
<1>1. ScreenShape(r)'
  BY DEF Screen, ScreenShape, Busy
<1>2. Known(app[r])' /\ \A a \in launching'[r] : Known(a)'
  BY <1>0, KnownKept DEF Screen, Known
<1>3. OneLaunch(r)'
  BY DEF Screen, OneLaunch, Busy, Open
<1>4. OneClaim(r)'
  BY DEF Screen, OneClaim, ComesBack, Open
<1>5. Claims(r)'
  <2>1. CASE Live(r)
    <3>1. \A c : c \in CallIds => KeepsCall(r, c)
      BY <2>1 DEF Keeps, KeepsCall
    <3>2. \A a \in App : Shaped(a) /\ Backed(r, a) => Backed(r, a)'
      <4> SUFFICES ASSUME NEW a \in App, Shaped(a), Backed(r, a)
                   PROVE  Backed(r, a)'
        OBVIOUS
      <4>1. CASE a.call \in CallIds
        BY <1>0, <3>1, <4>1, BackedKept
      <4>2. CASE a.call = NoCall
        BY <4>2 DEF Backed, Shaped, Showing
      <4>3. QED
        BY <4>1, <4>2 DEF App
    <3>3. Backed(r, app[r])'
      BY <1>0, <3>2 DEF Screen, Claims, Backed
    <3>4. ComesBack(r)' => \A a \in launching'[r] : Backed(r, a)'
      BY <1>0, <3>2 DEF Screen, Claims, ComesBack, Open
    <3>5. QED
      BY <3>3, <3>4 DEF Claims
  <2>2. CASE ~Live(r)
    BY <2>2 DEF Screen, ScreenShape, Claims, Backed, IdleApp
  <2>3. QED
    BY <2>1, <2>2
<1>6. QED
  BY <1>1, <1>2, <1>3, <1>4, <1>5 DEF Screen

ScreensInv == \A r \in Sessions : Screen(r)

PhoneInv == TypeInv /\ TableInv /\ ScreensInv

(* Only the program of s acts.                                             *)
OnlyActs(s) ==
  /\ doors' = doors
  /\ \A r \in Sessions :
       r # s => /\ mode'[r] = mode[r] /\ prompt'[r] = prompt[r]
                /\ app'[r] = app[r] /\ launching'[r] = launching[r]
                /\ Live(r)' <=> Live(r)

LEMMA Bystander ==
  ASSUME PhoneInv, TableStep, NEW r \in Sessions,
         Live(r) => Keeps(r), Live(r)' <=> Live(r),
         doors' = doors, mode'[r] = mode[r], prompt'[r] = prompt[r],
         app'[r] = app[r], launching'[r] = launching[r]
  PROVE  Screen(r)'
<1>1. /\ TypeInv /\ TableInv /\ Screen(r) /\ Evolves
      /\ prompt[r] \in CallIds \union {NoCall}
      /\ app[r].incoming \in CallIds \union {NoCall}
  BY DEF PhoneInv, ScreensInv, TableStep, TypeInv, ScreensOK, App
<1>2. RungBy(r, prompt[r])' /\ RungBy(r, app[r].incoming)'
  BY <1>1, RungKept DEF Screen, RungBy
<1>3. QED
  BY <1>1, <1>2, ScreenKept

LEMMA OthersKept ==
  ASSUME PhoneInv, TableStep, NEW s \in Sessions, OnlyActs(s),
         \A r \in Sessions : r # s /\ Live(r) => Keeps(r)
  PROVE  \A r \in Sessions : r # s => Screen(r)'
BY Bystander DEF OnlyActs

(* The parts of the invariant that the actor's step starts from.           *)
LEMMA ScreenParts ==
  ASSUME PhoneInv, NEW s \in Sessions
  PROVE  /\ TableOK /\ TableTypeOK /\ notify \in Maildir /\ TableInv /\ CallShape
         /\ mode[s] \in {"lobby", "app"}
         /\ prompt[s] \in CallIds \union {NoCall}
         /\ app[s] \in App /\ Shaped(app[s])
         /\ \A a \in launching[s] : a \in App /\ Shaped(a)
         /\ Screen(s)
BY DEF PhoneInv, TypeInv, TableOK, TableInv, ScreensOK, Shapes, ScreensInv

(* A model in flight stays valid unless its own call is left.              *)
LEMMA InFlightKept ==
  ASSUME PhoneInv, TableStep, NEW s \in Sessions, ComesBack(s),
         NEW a \in launching[s], a.call \in CallIds => KeepsCall(s, a.call)
  PROVE  Backed(s, a)'
<1>1. TableTypeOK /\ TableInv /\ a \in App /\ Shaped(a) /\ Backed(s, a)
  BY ScreenParts DEF Screen, Claims
<1>2. CASE a.call \in CallIds
  BY <1>1, <1>2, BackedKept
<1>3. CASE a.call = NoCall
  BY <1>1, <1>3 DEF Backed, Shaped, Showing
<1>4. QED
  BY <1>1, <1>2, <1>3 DEF App

(* What is in flight and may come on screen is of another call.            *)
LEMMA InFlightApart ==
  ASSUME PhoneInv, NEW s \in Sessions, ComesBack(s),
         NEW a \in launching[s], a.call # NoCall
  PROVE  a.call # app[s].call
BY ScreenParts DEF Screen, OneClaim

(* A fresh call is on no screen.                                           *)
LEMMA FreshCall ==
  ASSUME PhoneInv, NEW s \in Sessions, NEW c \in CallIds, state[c] = "unused"
  PROVE  app[s].call # c /\ \A a \in launching[s] : a.call # c
BY ScreenParts, PhoneAssumption DEF Screen, Known

(* A session does not answer a call that it waits to show.                 *)
LEMMA AnswerApart ==
  ASSUME PhoneInv, NEW s \in Sessions, ComesBack(s),
         NEW c \in CallIds, RungBy(s, c), Answer(s, c), NEW a \in launching[s]
  PROVE  a.call # c
<1> SUFFICES ASSUME a.call = c
             PROVE  FALSE
  OBVIOUS
<1> USE PhoneAssumption
<1>1. /\ CallShape /\ a \in App /\ Shaped(a)
      /\ Backed(s, a) /\ a.st # "answered"
  BY ScreenParts DEF Screen, ScreenShape, Claims
<1>2. a.st \in {"pending", "active"}
  BY <1>1 DEF Shaped, Showing
<1>3. CASE AnswerDial(s, c)
  <2>1. state[c] = "pending" /\ callee[c] = Owner[s]
    BY <1>3 DEF AnswerDial, RungBy
  <2>2. s \in parts[c]
    BY <1>1, <1>2, <2>1 DEF Backed
  <2>3. QED
    BY <1>1, <2>1, <2>2 DEF CallShape
<1>4. CASE AnswerAdd(s, c)
  BY <1>1, <1>2, <1>4 DEF AnswerAdd, NotIn, Backed
<1>5. QED
  BY <1>3, <1>4 DEF Answer

(* The table does not change, and the queues lose events at most.          *)
LEMMA QuietKeeps ==
  ASSUME TableTypeOK, notify \in Maildir, TableInv,
         UNCHANGED <<state, callee, parts, invites, ticked>>,
         \A r \in Sessions : EventsOf(notify'[r]) \subseteq EventsOf(notify[r])
  PROVE  TableStep /\ \A r \in Sessions : Keeps(r)
<1>1. CallShape /\ QueuesOK /\ TickedOK
  BY DEF TableInv
<1>2. Evolves /\ NewsOK
  BY DEF Evolves, NewsOK
<1>3. CallShape' /\ TickedOK'
  BY <1>1 DEF CallShape, Exists, AddRings, TickedOK
<1>4. QED
  BY <1>1, <1>2, <1>3, QueuesFollow DEF TableStep, TableInv, Keeps

(* Hangup of the call on screen.                                           *)
LEMMA HangupKeeps ==
  ASSUME PhoneInv, NEW s \in Sessions, NEW queues \in Maildir,
         \A r \in Sessions : EventsOf(queues[r]) \subseteq EventsOf(notify[r]),
         HangupShown(s, queues), UNCHANGED ticked
  PROVE  /\ TableStep
         /\ \A r \in Sessions : r # s => Keeps(r)
         /\ \A d \in CallIds : d # app[s].call => KeepsCall(s, d)
<1>0. TableOK /\ TableTypeOK /\ notify \in Maildir /\ TableInv
  BY ScreenParts
<1>1. CASE /\ app[s].call \in CallIds
           /\ s \in parts[app[s].call]
           /\ HangupLocked(app[s].call, s, queues)
  BY <1>0, <1>1, LeaveKeeps DEF KeepsCall
<1>2. CASE notify' = queues /\ UNCHANGED <<state, callee, parts, invites>>
  BY <1>0, <1>2, QuietKeeps DEF Keeps, KeepsCall
<1>3. QED
  BY <1>1, <1>2 DEF HangupShown

-----------------------------------------------------------------------------
(* The invariant through every step: the actor's own screen first, the     *)
(* others by OthersKept.                                                   *)

(* The screens stay as they are.                                           *)
LEMMA IdleKept ==
  ASSUME PhoneInv, TableStep, UNCHANGED uiVars,
         \A r \in Sessions : (Live(r) => Keeps(r)) /\ (Live(r)' <=> Live(r))
  PROVE  \A r \in Sessions : Screen(r)'
BY Bystander DEF uiVars

LEMMA TeardownKeeps ==
  ASSUME TableOK, notify \in Maildir, TableInv, NEW s \in Sessions, Teardown(s)
  PROVE  TableStep /\ \A r \in Sessions : Live(r) => Keeps(r)
<1>0. TableTypeOK /\ Owner[s] \in Users
  BY RegistryAssumption DEF TableOK
<1>1. CASE HangupSession(s)
  <2>1. ~Live(s) /\ UNCHANGED ticked
    BY <1>1 DEF HangupSession, Live
  <2>2. CASE \E c \in CallIds : s \in parts[c] /\ HangupLocked(c, s, notify)
    BY <2>1, <2>2, LeaveKeeps
  <2>3. CASE UNCHANGED <<state, callee, parts, invites, notify>>
    BY <1>0, <2>1, <2>3, QuietKeeps
  <2>4. QED
    BY <1>1, <2>2, <2>3 DEF HangupSession
<1>2. CASE Unregister(s) /\ UNCHANGED tableVars
  BY <1>0, <1>2, QuietKeeps DEF Unregister, tableVars
<1>3. CASE ReapUnreachableRings(s)
  <2>1. CASE ReapRings(Owner[s])
    BY <1>0, <1>3, <2>1, ReapKeeps DEF ReapUnreachableRings
  <2>2. CASE UNCHANGED <<state, callee, parts, invites, notify>>
    BY <1>0, <1>3, <2>2, QuietKeeps DEF ReapUnreachableRings
  <2>3. QED
    BY <1>3, <2>1, <2>2 DEF ReapUnreachableRings
<1>4. QED
  BY <1>1, <1>2, <1>3 DEF Teardown

LEMMA TeardownKept ==
  ASSUME PhoneInv, NEW s \in Sessions, Teardown(s)
  PROVE  TableInv' /\ \A r \in Sessions : Screen(r)'
<1>0. /\ TableOK /\ notify \in Maildir /\ TableInv /\ phase \in [Sessions -> Phases]
  BY ScreenParts DEF TableOK
<1>1. UNCHANGED uiVars
  BY DEF Teardown
<1>2. \A r \in Sessions : Live(r)' <=> Live(r)
  BY <1>0 DEF Teardown, HangupSession, Unregister, ReapUnreachableRings, Live
<1>3. TableStep /\ \A r \in Sessions : Live(r) => Keeps(r)
  BY <1>0, TeardownKeeps
<1>4. QED
  BY <1>1, <1>2, <1>3, IdleKept DEF TableStep

LEMMA TickerKept ==
  ASSUME PhoneInv, NEW g \in Ringers, TickOf(g) \/ ReRingOf(g)
  PROVE  TableInv' /\ \A r \in Sessions : Screen(r)'
<1>0. TableOK /\ TableTypeOK /\ notify \in Maildir /\ TableInv
  BY DEF PhoneInv, TypeInv, TableOK
<1>1. TableStep /\ \A r \in Sessions : Keeps(r)
  BY <1>0, RingerKeeps DEF TickOf, ReRingOf
<1>2. UNCHANGED uiVars /\ phase' = phase
  BY DEF TickOf, ReRingOf, Tick, ReRing
<1>3. QED
  BY <1>1, <1>2, IdleKept DEF TableStep, Live

LEMMA LoginKept ==
  ASSUME PhoneInv, NEW s \in Sessions, Login(s) \/ Disconnect(s)
  PROVE  TableInv' /\ \A r \in Sessions : Screen(r)'
<1> USE PhoneAssumption
<1>0. /\ TableOK /\ TableTypeOK /\ notify \in Maildir /\ TableInv /\ TypeInv
      /\ phase \in [Sessions -> Phases] /\ Screen(s)
  BY ScreenParts DEF TableOK, PhoneInv
<1>1. UNCHANGED <<state, callee, parts, invites, ticked>>
      /\ \A r \in Sessions : EventsOf(notify'[r]) \subseteq EventsOf(notify[r])
  <2>1. EventsOf(<< >>) = {}
    BY DEF EventsOf
  <2>2. QED
    BY <1>0, <2>1 DEF Login, Register, Disconnect, Drop, tableVars, Maildir
<1>2. TableStep /\ \A r \in Sessions : Keeps(r)
  BY <1>0, <1>1, QuietKeeps
<1>3. OnlyActs(s)
  BY <1>0 DEF OnlyActs, Login, Register, Disconnect, Drop, Live, SetApp,
              TypeInv, ScreensOK
<1>4. Screen(s)'
  <2>1. /\ launching'[s] = {} /\ prompt'[s] = NoCall
        /\ \/ mode'[s] = "lobby" /\ app'[s] = IdleApp
           \/ Live(s)' /\ mode'[s] = "app" /\ app'[s] = ForcedApp
    <3>1. CASE Login(s)
      <4>1. ~Live(s) /\ Live(s)'
        BY <1>0, <3>1 DEF Login, Register, Live
      <4>2. QED
        BY <1>0, <3>1, <4>1 DEF Login, Screen, ScreenShape, SetApp, TypeInv, ScreensOK
    <3>2. CASE Disconnect(s)
      BY <1>0, <3>2 DEF Disconnect, TypeInv, ScreensOK
    <3>3. QED
      BY <3>1, <3>2
  <2>2. /\ IdleApp.st = "idle" /\ IdleApp.call = NoCall /\ IdleApp.incoming = NoCall
        /\ ForcedApp.st = "forced" /\ ForcedApp.call = NoCall
        /\ ForcedApp.incoming = NoCall
    BY DEF IdleApp, ForcedApp
  <2>3. QED
    BY <2>1, <2>2 DEF Screen, ScreenShape, Busy, RungBy, Known, OneLaunch, Claims,
                      OneClaim, Backed
<1>5. QED
  BY <1>2, <1>3, <1>4, OthersKept DEF TableStep

(* What the actor still knows after a step that keeps it in its calls.     *)
LEMMA Carried ==
  ASSUME PhoneInv, TableStep, NEW s \in Sessions
  PROVE  /\ \A c \in CallIds \union {NoCall} : RungBy(s, c) => RungBy(s, c)'
         /\ \A a \in App : Known(a) => Known(a)'
         /\ Keeps(s) /\ ComesBack(s) =>
              \A a \in launching[s] : Backed(s, a)'
<1>1. Evolves
  BY DEF TableStep
<1>2. \A c \in CallIds \union {NoCall} : RungBy(s, c) => RungBy(s, c)'
  BY <1>1, RungKept
<1>3. \A a \in App : Known(a) => Known(a)'
  BY <1>1, KnownKept
<1>4. ASSUME Keeps(s), ComesBack(s), NEW a \in launching[s]
      PROVE  Backed(s, a)'
  BY <1>4, InFlightKept DEF Keeps, KeepsCall
<1>5. QED
  BY <1>2, <1>3, <1>4

(* DIAL, at the lobby and in PHONE.                                        *)
LEMMA DialKept ==
  ASSUME PhoneInv, NEW s \in Sessions, NEW u \in Users, NEW c \in CallIds,
         LobbyDial(s, u, c) \/ PhoneDial(s, u, c)
  PROVE  TableInv' /\ \A r \in Sessions : Screen(r)'
<1> USE PhoneAssumption
<1>0. /\ TableOK /\ TableTypeOK /\ notify \in Maildir /\ TableInv /\ TypeInv
      /\ mode[s] \in {"lobby", "app"} /\ Screen(s)
      /\ app[s] \in App /\ Shaped(app[s])
      /\ \A a \in launching[s] : a \in App /\ Shaped(a)
      /\ prompt[s] \in CallIds \union {NoCall}
      /\ app[s].incoming \in CallIds \union {NoCall}
  BY ScreenParts DEF PhoneInv, App
<1>1. Dial(s, u, c)
  BY DEF LobbyDial, PhoneDial
<1>2. TableStep /\ \A r \in Sessions : Keeps(r)
  BY <1>0, <1>1, DialKeeps
<1>3. /\ state[c] = "unused" /\ phase' = phase
      /\ state'[c] = "pending" /\ parts'[c] = {s}
  BY <1>0, <1>1 DEF Dial, TableTypeOK
<1>4. OnlyActs(s)
  BY <1>0, <1>3 DEF OnlyActs, LobbyDial, PhoneDial, Live, SetApp, LaunchApp,
                    TypeInv, ScreensOK
<1>5. /\ app[s].call # c /\ \A a \in launching[s] : a.call # c
      /\ Live(s) /\ Live(s)' /\ doors' = doors
      /\ mode'[s] = mode[s] /\ prompt'[s] = prompt[s]
  BY <1>3, FreshCall DEF LobbyDial, PhoneDial, AtLobby, InPhone, Live
<1>6. /\ \A d \in CallIds \union {NoCall} : RungBy(s, d) => RungBy(s, d)'
      /\ \A a \in App : Known(a) => Known(a)'
      /\ ComesBack(s) => \A a \in launching[s] : Backed(s, a)'
  BY <1>2, <1>5, Carried
<1>7. Screen(s)'
  <2>1. CASE LobbyDial(s, u, c)
    <3>1. /\ app' = app /\ mode[s] = "lobby" /\ Settled(s)
          /\ launching'[s] = launching[s] \union {CallingApp(c, u)}
      BY <1>0, <2>1 DEF LobbyDial, AtLobby, LaunchApp, TypeInv, ScreensOK
    <3>2. /\ CallingApp(c, u).st = "pending" /\ CallingApp(c, u).call = c
          /\ CallingApp(c, u).incoming = NoCall
      BY DEF CallingApp, IdleApp
    <3>3. app[s] = IdleApp
      BY <1>0, <3>1 DEF Screen, ScreenShape, Settled
    <3>4. ScreenShape(s)'
      BY <1>0, <1>5, <3>1, <3>2, <3>3 DEF Screen, ScreenShape, Busy
    <3>5. Known(app[s])' /\ \A a \in launching'[s] : Known(a)'
      BY <1>0, <1>3, <1>6, <3>1, <3>2, <3>3 DEF Screen, Known, IdleApp
    <3>6. OneLaunch(s)'
      BY <1>5, <3>1, <3>2, <3>3 DEF OneLaunch, Busy, Settled, Open, IdleApp
    <3>7. Claims(s)' /\ OneClaim(s)'
      <4>1. ComesBack(s)
        BY <3>1 DEF ComesBack
      <4>2. Backed(s, app[s])'
        BY <3>1, <3>3 DEF Backed, IdleApp
      <4>3. \A a \in launching'[s] : Backed(s, a)'
        BY <1>3, <1>6, <3>1, <3>2, <4>1 DEF Backed
      <4>4. OneClaim(s)'
        BY <1>0, <1>5, <3>1, <3>2, <4>1 DEF Screen, OneClaim
      <4>5. QED
        BY <4>2, <4>3, <4>4 DEF Claims
    <3>8. QED
      BY <1>0, <1>5, <1>6, <3>1, <3>4, <3>5, <3>6, <3>7 DEF Screen, RungBy
  <2>2. CASE PhoneDial(s, u, c)
    <3>1. /\ launching' = launching /\ mode[s] = "app" /\ app[s].st = "idle"
          /\ app'[s] = [app[s] EXCEPT !.st = "pending", !.call = c, !.peers = {u}]
      BY <1>0, <2>2 DEF PhoneDial, InPhone, SetApp, TypeInv, ScreensOK
    <3>2. /\ app'[s].st = "pending" /\ app'[s].call = c
          /\ app'[s].incoming = app[s].incoming
      BY <1>0, <3>1 DEF App
    <3>3. ScreenShape(s)' /\ OneLaunch(s)'
      BY <1>0, <1>5, <3>1, <3>2 DEF Screen, ScreenShape, OneLaunch, Busy, Open
    <3>4. Known(app[s])' /\ \A a \in launching'[s] : Known(a)'
      BY <1>0, <1>3, <1>6, <3>1, <3>2 DEF Screen, Known
    <3>5. Claims(s)' /\ OneClaim(s)'
      <4>1. ComesBack(s)' => ComesBack(s)
        BY <1>5, <3>1, <3>2 DEF ComesBack, Open
      <4>2. Backed(s, app[s])'
        BY <1>3, <3>2 DEF Backed
      <4>3. OneClaim(s)'
        BY <1>0, <1>5, <3>1, <3>2, <4>1 DEF Screen, OneClaim
      <4>4. QED
        BY <1>6, <3>1, <4>1, <4>2, <4>3 DEF Claims
    <3>6. QED
      BY <1>0, <1>5, <1>6, <3>2, <3>3, <3>4, <3>5 DEF Screen, RungBy
  <2>3. QED
    BY <2>1, <2>2
<1>8. QED
  BY <1>2, <1>4, <1>7, OthersKept DEF TableStep

(* ANSWER: c is answered, and a is the model that says so.                 *)
LEMMA AnsweredScreen ==
  ASSUME PhoneInv, TableStep, NEW s \in Sessions, NEW c \in CallIds,
         Live(s), Live(s)', doors' = doors, mode' = mode, prompt' = prompt,
         state'[c] # "unused",
         s \in parts'[c] /\ state'[c] = "active",
         app[s].st \in {"idle", "active", "answered"},
         ~Open("slowLaunch") => launching[s] = {},
         ComesBack(s) =>
           \A a \in launching[s] : Backed(s, a)' /\ a.call # c,
         NEW b \in App, b.st = "answered", b.call = c, b.incoming = NoCall,
         \/ SetApp(s, b) /\ UNCHANGED launching
         \/ ShowList(s, b)
  PROVE  Screen(s)'
<1> USE PhoneAssumption
<1> DEFINE d == AnsweredApp(b, PeersOf(s, b.call))
<1>0. /\ mode[s] \in {"lobby", "app"} /\ Screen(s)
      /\ mode'[s] = mode[s] /\ prompt'[s] = prompt[s]
      /\ app \in [Sessions -> App] /\ launching \in [Sessions -> SUBSET App]
      /\ \A a \in launching[s] : a \in App
      /\ prompt[s] \in CallIds \union {NoCall}
  BY ScreenParts DEF PhoneInv, TypeInv, ScreensOK
<1>1. /\ RungBy(s, prompt[s])' /\ \A a \in launching[s] : Known(a)'
      /\ ComesBack(s)' => ComesBack(s) \/ app'[s].st = "other"
  BY <1>0, Carried DEF Screen, RungBy, Open, ComesBack
<1>2. /\ d.st = "active" /\ d.call = c /\ d.incoming = NoCall
      /\ IdleApp.st = "idle" /\ IdleApp.call = NoCall /\ IdleApp.incoming = NoCall
  BY DEF AnsweredApp, App, IdleApp
<1> HIDE DEF d
<1>3. \/ /\ launching'[s] = launching[s]
         /\ app'[s].st \in {"active", "answered"}
         /\ app'[s].call = c /\ app'[s].incoming = NoCall
         /\ mode[s] = "lobby" => app'[s].st = "answered"
      \/ /\ launching'[s] = launching[s] \union {d}
         /\ app'[s] = IdleApp
         /\ mode[s] = "lobby"
  <2>1. CASE SetApp(s, b) /\ UNCHANGED launching
    BY <1>0, <2>1 DEF SetApp
  <2>2. CASE ShowList(s, b)
    BY <1>0, <1>2, <2>2 DEF ShowList, SetApp, LaunchApp, d
  <2>3. QED
    BY <2>1, <2>2
<1>4. ScreenShape(s)'
  BY <1>0, <1>2, <1>3 DEF Screen, ScreenShape, Busy
<1>5. RungBy(s, app[s].incoming)' /\ Known(app[s])'
      /\ \A a \in launching'[s] : Known(a)'
  BY <1>1, <1>2, <1>3 DEF RungBy, Known
<1>6. OneLaunch(s)'
  BY <1>0, <1>2, <1>3 DEF OneLaunch, Busy, Open
<1>7. Claims(s)' /\ OneClaim(s)'
  <2>1. ComesBack(s)' => ComesBack(s)
    BY <1>1, <1>2, <1>3
  <2>2. Backed(s, app[s])'
    BY <1>2, <1>3 DEF Backed
  <2>3. ComesBack(s)' => \A a \in launching'[s] : Backed(s, a)'
    BY <1>2, <1>3, <2>1 DEF Backed
  <2>4. OneClaim(s)'
    BY <1>0, <1>2, <1>3, <2>1 DEF Screen, OneClaim
  <2>5. QED
    BY <2>2, <2>3, <2>4 DEF Claims
<1>8. QED
  BY <1>0, <1>1, <1>4, <1>5, <1>6, <1>7 DEF Screen

LEMMA AnswerKept ==
  ASSUME PhoneInv, NEW s \in Sessions, NEW c \in CallIds, Answer(s, c),
         Live(s), ~Busy(s), RungBy(s, c), NEW a \in App,
         AfterAnswer(s, AnsweringApp(a, c)),
         app[s].st \in {"idle", "active"},
         mode[s] = "lobby" => Settled(s),
         UNCHANGED <<doors, mode, prompt, armed>>
  PROVE  TableInv' /\ \A r \in Sessions : Screen(r)'
<1>0. /\ TableOK /\ TableTypeOK /\ notify \in Maildir /\ TableInv /\ TypeInv
      /\ mode[s] \in {"lobby", "app"} /\ Screen(s)
  BY ScreenParts DEF PhoneInv
<1>1. TableStep /\ \A r \in Sessions : Keeps(r)
  BY <1>0, AnswerDialKeeps, AnswerAddKeeps DEF Answer, RungBy
<1>2. s \in parts'[c] /\ state'[c] = "active" /\ phase' = phase
  BY <1>0 DEF Answer, AnswerDial, AnswerAdd, TableTypeOK
<1>3. OnlyActs(s)
  BY <1>0, <1>2 DEF OnlyActs, AfterAnswer, ShowList, Live, SetApp, LaunchApp,
                    TypeInv, ScreensOK
<1>4. ~Open("slowLaunch") => launching[s] = {}
  BY <1>0 DEF Screen, OneLaunch, Settled
<1>5. ComesBack(s) =>
        \A b \in launching[s] : Backed(s, b)' /\ b.call # c
  BY <1>1, Carried, AnswerApart
<1>6. /\ AnsweringApp(a, c) \in App /\ AnsweringApp(a, c).st = "answered"
      /\ AnsweringApp(a, c).call = c /\ AnsweringApp(a, c).incoming = NoCall
  BY DEF AnsweringApp, App
<1>7. \/ SetApp(s, AnsweringApp(a, c)) /\ UNCHANGED launching
      \/ ShowList(s, AnsweringApp(a, c))
  BY DEF AfterAnswer
<1>8. Screen(s)'
  BY <1>1, <1>2, <1>4, <1>5, <1>6, <1>7, AnsweredScreen DEF Live
<1>9. QED
  BY <1>1, <1>3, <1>8, OthersKept DEF TableStep

(* What the screen of s alone takes part in.                               *)
LEMMA ListKept ==
  ASSUME PhoneInv, NEW s \in Sessions, ListParticipants(s)
  PROVE  TableInv' /\ \A r \in Sessions : Screen(r)'
<1>0. /\ TableOK /\ TableTypeOK /\ notify \in Maildir /\ TableInv /\ TypeInv
      /\ mode[s] \in {"lobby", "app"} /\ Screen(s)
      /\ app[s] \in App /\ Shaped(app[s]) /\ app[s].st = "answered"
  BY ScreenParts DEF PhoneInv, ListParticipants, Busy
<1>1. /\ UNCHANGED <<doors, regVars, tableVars, mode, prompt, armed>>
      /\ ShowList(s, app[s]) /\ Live(s)
  BY DEF ListParticipants
<1>2. TableStep /\ \A r \in Sessions : Keeps(r)
  BY <1>0, <1>1, QuietKeeps DEF regVars, tableVars
<1>3. OnlyActs(s)
  BY <1>0, <1>1 DEF OnlyActs, ShowList, Live, SetApp, LaunchApp, regVars,
                    TypeInv, ScreensOK
<1>4. /\ app[s].call \in CallIds /\ app[s].incoming = NoCall
      /\ state[app[s].call] # "unused"
      /\ s \in parts[app[s].call] /\ state[app[s].call] = "active"
      /\ ~Open("slowLaunch") => launching[s] = {}
  BY <1>0 DEF Screen, ScreenShape, OneLaunch, Busy, Known, Claims, Backed,
              Shaped, Showing, App
<1>5. ComesBack(s) =>
        \A a \in launching[s] :
          Backed(s, a)' /\ a.call # app[s].call
  BY <1>0, <1>2, <1>4, PhoneAssumption, Carried DEF Screen, OneClaim
<1>6. Screen(s)'
  <2>1. /\ Live(s)' /\ doors' = doors /\ mode' = mode /\ prompt' = prompt
        /\ state' = state /\ parts' = parts
    BY <1>1 DEF Live, regVars, tableVars
  <2>2. QED
    BY <1>0, <1>1, <1>2, <1>4, <1>5, <2>1, AnsweredScreen
<1>7. QED
  BY <1>2, <1>3, <1>6, OthersKept DEF TableStep

(* The actor keeps its call; its prompt, its ring or its target change.    *)
LEMMA SameCallKept ==
  ASSUME PhoneInv, TableStep, NEW s \in Sessions, \A r \in Sessions : Keeps(r),
         OnlyActs(s), Live(s), Live(s)',
         mode'[s] = mode[s], launching'[s] = launching[s],
         app'[s].st = app[s].st, app'[s].call = app[s].call,
         mode[s] = "lobby" \/ Busy(s) => app'[s] = app[s],
         prompt'[s] = prompt[s] \/ RungBy(s, prompt[s])',
         app'[s].incoming \in {app[s].incoming, NoCall} \/ RungBy(s, app[s].incoming)'
  PROVE  TableInv' /\ \A r \in Sessions : Screen(r)'
<1>1. /\ TypeInv /\ TableInv /\ Screen(s)
      /\ prompt[s] \in CallIds \union {NoCall}
      /\ app[s].incoming \in CallIds \union {NoCall}
  BY ScreenParts DEF PhoneInv, App
<1>2. RungBy(s, prompt[s])' /\ RungBy(s, app[s].incoming)'
  BY <1>1, Carried DEF Screen, RungBy
<1>3. doors' = doors
  BY DEF OnlyActs
<1>4. Screen(s)'
  BY <1>1, <1>2, <1>3, ScreenKept
<1>5. QED
  BY <1>4, OthersKept DEF TableStep

LEMMA AnswersKept ==
  ASSUME PhoneInv, NEW s \in Sessions, LobbyAnswer(s) \/ PhoneAnswer(s)
  PROVE  TableInv' /\ \A r \in Sessions : Screen(r)'
<1> USE PhoneAssumption
<1>0. /\ TableOK /\ TableTypeOK /\ notify \in Maildir /\ TableInv /\ TypeInv
      /\ mode[s] \in {"lobby", "app"} /\ Screen(s) /\ app[s] \in App
      /\ prompt[s] \in CallIds \union {NoCall}
      /\ app[s].incoming \in CallIds \union {NoCall}
  BY ScreenParts DEF PhoneInv, App
<1>1. CASE LobbyAnswer(s)
  <2>1. /\ prompt[s] \in CallIds /\ Answer(s, prompt[s]) /\ RungBy(s, prompt[s])
        /\ Live(s) /\ ~Busy(s) /\ Settled(s)
        /\ AfterAnswer(s, AnsweringApp(IdleApp, prompt[s]))
        /\ UNCHANGED <<doors, mode, prompt, armed>>
    BY <1>0, <1>1 DEF LobbyAnswer, AtLobby, Settled, Screen
  <2>2. IdleApp \in App /\ app[s].st = "idle"
    BY <1>0, <1>1 DEF LobbyAnswer, AtLobby, Settled, Screen, ScreenShape, IdleApp, App
  <2>3. QED
    BY <2>1, <2>2, AnswerKept
<1>2. CASE /\ PhoneAnswer(s) /\ Answer(s, app[s].incoming)
           /\ AfterAnswer(s, AnsweringApp(app[s], app[s].incoming))
  <2>1. /\ app[s].incoming \in CallIds /\ RungBy(s, app[s].incoming)
        /\ Live(s) /\ ~Busy(s) /\ mode[s] = "app" /\ app[s].st \in {"idle", "active"}
        /\ UNCHANGED <<doors, mode, prompt, armed>>
    BY <1>0, <1>2 DEF PhoneAnswer, InPhone, Busy, Screen
  <2>2. QED
    BY <1>0, <1>2, <2>1, AnswerKept
<1>3. CASE /\ PhoneAnswer(s)
           /\ SetApp(s, [app[s] EXCEPT !.incoming = NoCall])
           /\ UNCHANGED <<regVars, tableVars, launching>>
  <2>1. /\ Live(s) /\ ~Busy(s) /\ mode[s] = "app"
        /\ UNCHANGED <<doors, mode, prompt, armed>>
    BY <1>3 DEF PhoneAnswer, InPhone, Busy
  <2>2. TableStep /\ \A r \in Sessions : Keeps(r)
    BY <1>0, <1>3, QuietKeeps DEF regVars, tableVars
  <2>3. OnlyActs(s) /\ Live(s)'
    BY <1>0, <1>3, <2>1 DEF OnlyActs, Live, SetApp, regVars, TypeInv, ScreensOK
  <2>4. /\ app'[s].st = app[s].st /\ app'[s].call = app[s].call
        /\ app'[s].incoming = NoCall
    BY <1>0, <1>3 DEF SetApp, App, TypeInv, ScreensOK
  <2>5. QED
    BY <1>3, <2>1, <2>2, <2>3, <2>4, SameCallKept
<1>4. QED
  BY <1>1, <1>2, <1>3 DEF PhoneAnswer

(* REJECT, ADD and the key that cancels an ADD.                            *)
LEMMA RejectKept ==
  ASSUME PhoneInv, NEW s \in Sessions, LobbyReject(s) \/ PhoneReject(s)
  PROVE  TableInv' /\ \A r \in Sessions : Screen(r)'
<1> USE PhoneAssumption, RegistryAssumption
<1>0. /\ TableOK /\ TableTypeOK /\ notify \in Maildir /\ TableInv /\ TypeInv
      /\ Screen(s) /\ app[s] \in App /\ Owner[s] \in Users
      /\ prompt[s] \in CallIds \union {NoCall}
      /\ app[s].incoming \in CallIds \union {NoCall}
  BY ScreenParts DEF PhoneInv, App
<1>1. ASSUME NEW c \in CallIds, Reject(Owner[s], c)
      PROVE  TableStep /\ (\A r \in Sessions : Keeps(r)) /\ phase' = phase
  <2>1. CASE RejectDial(Owner[s], c)
    BY <1>0, <2>1, RejectDialKeeps DEF RejectDial
  <2>2. CASE RejectAdd(Owner[s], c)
    <3>1. state[c] # "unused"
      BY <2>2 DEF RejectAdd
    <3>2. QED
      BY <1>0, <2>2, <3>1, WithdrawKeeps DEF RejectAdd
  <2>3. QED
    BY <1>1, <2>1, <2>2 DEF Reject
<1>2. CASE LobbyReject(s)
  BY <1>0, <1>1, <1>2, IdleKept DEF LobbyReject, Live, TableStep
<1>3. CASE PhoneReject(s)
  <2>1. /\ Live(s) /\ ~Busy(s) /\ mode[s] = "app" /\ app[s].incoming \in CallIds
        /\ SetApp(s, [app[s] EXCEPT !.incoming = NoCall])
        /\ UNCHANGED <<doors, mode, prompt, launching, armed>>
    BY <1>0, <1>3 DEF PhoneReject, InPhone, Busy
  <2>2. TableStep /\ (\A r \in Sessions : Keeps(r)) /\ phase' = phase
    <3>1. CASE Reject(Owner[s], app[s].incoming)
      BY <1>1, <2>1, <3>1
    <3>2. CASE UNCHANGED <<regVars, tableVars>>
      BY <1>0, <3>2, QuietKeeps DEF regVars, tableVars
    <3>3. QED
      BY <1>3, <3>1, <3>2 DEF PhoneReject
  <2>3. OnlyActs(s) /\ Live(s)'
    BY <1>0, <2>1, <2>2 DEF OnlyActs, Live, SetApp, TypeInv, ScreensOK
  <2>4. /\ app'[s].st = app[s].st /\ app'[s].call = app[s].call
        /\ app'[s].incoming = NoCall
    BY <1>0, <2>1 DEF SetApp, App, TypeInv, ScreensOK
  <2>5. QED
    BY <2>1, <2>2, <2>3, <2>4, SameCallKept
<1>4. QED
  BY <1>2, <1>3

LEMMA InviteKept ==
  ASSUME PhoneInv, NEW s \in Sessions,
         PhoneCancelAdd(s) \/ \E u \in Users : PhoneAdd(s, u)
  PROVE  TableInv' /\ \A r \in Sessions : Screen(r)'
<1> USE PhoneAssumption, RegistryAssumption
<1>0. /\ TableOK /\ TableTypeOK /\ notify \in Maildir /\ TableInv /\ TypeInv
      /\ Screen(s) /\ app[s] \in App /\ Shaped(app[s]) /\ Owner[s] \in Users
  BY ScreenParts DEF PhoneInv
<1>1. /\ Live(s) /\ mode[s] = "app" /\ app[s].st = "active" /\ ~Busy(s)
      /\ UNCHANGED <<doors, mode, prompt, launching, armed>>
      /\ \E w \in Users \union {NoUser} : SetApp(s, [app[s] EXCEPT !.target = w])
  BY DEF PhoneCancelAdd, PhoneAdd, InPhone, Busy
<1>2. app[s].call \in CallIds /\ state[app[s].call] # "unused"
  BY <1>0, <1>1 DEF Shaped, Showing, App, Screen, Known
<1>3. TableStep /\ (\A r \in Sessions : Keeps(r)) /\ phase' = phase
  <2>1. CASE PhoneCancelAdd(s)
    <3>1. app[s].target \in Users /\ CancelAdd(Owner[s], app[s].target, app[s].call)
      BY <1>0, <2>1 DEF PhoneCancelAdd, App
    <3>2. QED
      BY <1>0, <1>2, <3>1, WithdrawKeeps DEF CancelAdd
  <2>2. ASSUME NEW u \in Users, PhoneAdd(s, u)
        PROVE  TableStep /\ (\A r \in Sessions : Keeps(r)) /\ phase' = phase
    BY <1>0, <1>2, <2>2, AddKeeps DEF PhoneAdd, Add
  <2>3. QED
    BY <2>1, <2>2
<1>4. OnlyActs(s) /\ Live(s)'
  BY <1>0, <1>1, <1>3 DEF OnlyActs, Live, SetApp, TypeInv, ScreensOK
<1>5. /\ app'[s].st = app[s].st /\ app'[s].call = app[s].call
      /\ app'[s].incoming = app[s].incoming
  BY <1>0, <1>1 DEF SetApp, App, TypeInv, ScreensOK
<1>6. QED
  BY <1>1, <1>3, <1>4, <1>5, SameCallKept

(* PHONE, or another app, is asked for; a launch arrives.                  *)
LEMMA LaunchKept ==
  ASSUME PhoneInv, NEW s \in Sessions, LobbyPhone(s) \/ Launch(s)
  PROVE  TableInv' /\ \A r \in Sessions : Screen(r)'
<1> USE PhoneAssumption
<1>0. /\ TableOK /\ TableTypeOK /\ notify \in Maildir /\ TableInv /\ TypeInv
      /\ mode[s] \in {"lobby", "app"} /\ Screen(s)
      /\ app[s] \in App /\ Shaped(app[s])
      /\ \A a \in launching[s] : a \in App /\ Shaped(a)
      /\ prompt[s] \in CallIds \union {NoCall}
  BY ScreenParts DEF PhoneInv
<1>1. UNCHANGED <<doors, regVars, tableVars, armed>> /\ Live(s)
  BY DEF LobbyPhone, Launch, AtLobby
<1>2. TableStep /\ \A r \in Sessions : Keeps(r)
  BY <1>0, <1>1, QuietKeeps DEF regVars, tableVars
<1>3. OnlyActs(s) /\ Live(s)'
  BY <1>0, <1>1 DEF OnlyActs, LobbyPhone, Launch, Live, LaunchApp, regVars,
                    TypeInv, ScreensOK
<1>4. /\ \A d \in CallIds \union {NoCall} : RungBy(s, d) => RungBy(s, d)'
      /\ \A a \in App : Known(a) => Known(a)'
      /\ ComesBack(s) => \A a \in launching[s] : Backed(s, a)'
  BY <1>1, <1>2, Carried
<1>5. CASE LobbyPhone(s)
  <2>1. PICK b \in {IdleApp, OtherApp} :
          launching'[s] = launching[s] \union {b}
    BY <1>0, <1>5 DEF LobbyPhone, LaunchApp, TypeInv, ScreensOK
  <2>2. /\ app' = app /\ mode' = mode /\ prompt' = prompt /\ mode[s] = "lobby"
        /\ Settled(s)
    BY <1>5 DEF LobbyPhone, AtLobby
  <2>3. b.st \in {"idle", "other"} /\ b.call = NoCall /\ b.incoming = NoCall
    BY DEF IdleApp, OtherApp
  <2>4. app[s] = IdleApp
    BY <1>0, <2>2 DEF Screen, ScreenShape, Settled
  <2>5. ScreenShape(s)' /\ OneLaunch(s)'
    BY <1>0, <1>1, <1>3, <2>1, <2>2, <2>3 DEF Screen, ScreenShape, OneLaunch, Busy,
                                              Settled, Open
  <2>6. Known(app[s])' /\ \A a \in launching'[s] : Known(a)'
    BY <1>0, <1>4, <2>1, <2>2, <2>3 DEF Screen, Known
  <2>7. RungBy(s, prompt[s])' /\ RungBy(s, app[s].incoming)'
    BY <1>0, <1>4, <2>2, <2>4 DEF Screen, RungBy, IdleApp
  <2>8. Claims(s)' /\ OneClaim(s)'
    <3>1. ComesBack(s)
      BY <2>2 DEF ComesBack
    <3>2. Backed(s, app[s])'
      BY <2>2, <2>4 DEF Backed, IdleApp
    <3>3. \A a \in launching'[s] : Backed(s, a)'
      BY <1>4, <2>1, <2>3, <3>1 DEF Backed
    <3>4. OneClaim(s)'
      BY <1>0, <2>1, <2>2, <2>3, <3>1 DEF Screen, OneClaim
    <3>5. QED
      BY <3>2, <3>3, <3>4 DEF Claims
  <2>9. Screen(s)'
    BY <1>4, <2>5, <2>6, <2>7, <2>8 DEF Screen
  <2>10. QED
    BY <1>2, <1>3, <2>9, OthersKept DEF TableStep
<1>6. CASE Launch(s)
  <2>1. PICK a \in launching[s] :
          /\ launching'[s] = launching[s] \ {a}
          /\ \/ /\ mode[s] = "lobby" /\ mode'[s] = "app"
                /\ app'[s] = a /\ prompt'[s] = NoCall
             \/ /\ mode[s] = "app" /\ UNCHANGED <<mode, app, prompt>>
    BY <1>0, <1>6 DEF Launch, TypeInv, ScreensOK
  <2>2. ~Busy(s)
    BY <1>6 DEF Launch
  <2>3. /\ a \in App /\ Shaped(a) /\ Known(a) /\ a.incoming = NoCall
        /\ a.st \notin {"answered", "forced"}
    BY <1>0, <2>1 DEF Screen, ScreenShape
  <2>4. ScreenShape(s)'
    BY <1>0, <1>3, <2>1, <2>2, <2>3 DEF Screen, ScreenShape, Busy
  <2>5. OneLaunch(s)'
    BY <1>0, <1>1, <2>1, <2>2 DEF Screen, OneLaunch, Busy, Open
  <2>6. Known(app[s])' /\ \A b \in launching'[s] : Known(b)'
    BY <1>0, <1>4, <2>1, <2>3 DEF Screen, Known
  <2>7. RungBy(s, prompt[s])' /\ RungBy(s, app[s].incoming)'
    <3>1. app[s].incoming \in CallIds \union {NoCall}
      BY <1>0 DEF App
    <3>2. QED
      BY <1>0, <1>4, <2>1, <2>3, <3>1 DEF Screen, RungBy
  <2>8. Claims(s)' /\ OneClaim(s)'
    <3>1. ComesBack(s)' => ComesBack(s)
      BY <1>1, <2>1 DEF ComesBack, Open
    <3>2. Backed(s, app[s])'
      <4>1. CASE mode[s] = "lobby"
        BY <1>4, <2>1, <4>1 DEF Backed, ComesBack
      <4>2. CASE mode[s] = "app"
        BY <1>0, <1>1, <2>1, <4>2 DEF Backed, Screen, Claims, regVars, tableVars
      <4>3. QED
        BY <1>0, <4>1, <4>2
    <3>3. ComesBack(s)' => \A b \in launching'[s] : Backed(s, b)'
      BY <1>4, <2>1, <3>1
    <3>4. OneClaim(s)'
      <4>1. CASE mode[s] = "lobby"
        BY <1>0, <2>1, <4>1 DEF Screen, OneClaim, ComesBack
      <4>2. CASE mode[s] = "app"
        BY <1>0, <2>1, <3>1, <4>2 DEF Screen, OneClaim
      <4>3. QED
        BY <1>0, <4>1, <4>2
    <3>5. QED
      BY <3>2, <3>3, <3>4 DEF Claims
  <2>9. Screen(s)'
    BY <1>4, <2>4, <2>5, <2>6, <2>7, <2>8 DEF Screen
  <2>10. QED
    BY <1>2, <1>3, <2>9, OthersKept DEF TableStep
<1>7. QED
  BY <1>5, <1>6

(* The call on screen is left, and the screen with it.                     *)
LEMMA LeftScreen ==
  ASSUME PhoneInv, TableStep, NEW s \in Sessions, Live(s)', mode[s] = "app",
         \A d \in CallIds : d # app[s].call => KeepsCall(s, d),
         doors' = doors, launching'[s] = launching[s], prompt'[s] = prompt[s],
         app'[s].st = "idle", app'[s].call = NoCall, app'[s].incoming = NoCall,
         \/ mode'[s] = "app"
         \/ mode'[s] = "lobby" /\ app'[s] = IdleApp /\ ComesBack(s)
  PROVE  Screen(s)'
<1> USE PhoneAssumption
<1>0. /\ Screen(s) /\ prompt[s] \in CallIds \union {NoCall}
      /\ \A a \in launching[s] : a \in App
  BY ScreenParts
<1>1. ScreenShape(s)' /\ OneLaunch(s)'
  BY <1>0 DEF Screen, ScreenShape, OneLaunch, Busy, Open
<1>2. /\ Known(app[s])' /\ \A a \in launching'[s] : Known(a)'
      /\ RungBy(s, prompt[s])' /\ RungBy(s, app[s].incoming)'
  BY <1>0, Carried DEF Screen, Known, RungBy
<1>3. Claims(s)' /\ OneClaim(s)'
  <2>1. ComesBack(s)' => ComesBack(s)
    BY DEF ComesBack, Open
  <2>2. ASSUME ComesBack(s), NEW a \in launching[s]
        PROVE  Backed(s, a)'
    <3>1. a.call \in CallIds => a.call # app[s].call
      BY <2>2, PhoneAssumption, InFlightApart
    <3>2. QED
      BY <2>2, <3>1, InFlightKept
  <2>3. Backed(s, app[s])'
    BY DEF Backed
  <2>4. OneClaim(s)'
    BY <1>0, <2>1 DEF Screen, OneClaim
  <2>5. QED
    BY <2>1, <2>2, <2>3, <2>4 DEF Claims
<1>4. QED
  BY <1>1, <1>2, <1>3 DEF Screen

LEMMA HangupKept ==
  ASSUME PhoneInv, NEW s \in Sessions, PhoneHangup(s) \/ PhoneExit(s)
  PROVE  TableInv' /\ \A r \in Sessions : Screen(r)'
<1>0. /\ notify \in Maildir /\ TypeInv /\ app[s] \in App
  BY ScreenParts DEF PhoneInv
<1>1. /\ HangupShown(s, notify) /\ UNCHANGED <<doors, phase, ticked, prompt, launching>>
      /\ Live(s) /\ mode[s] = "app"
      /\ app' \in {[app EXCEPT ![s] = IdleApp], [app EXCEPT ![s] = GoIdle(app[s])]}
  BY DEF PhoneHangup, PhoneExit, InPhone, SetApp
<1>2. /\ TableStep /\ \A r \in Sessions : r # s => Keeps(r)
      /\ \A d \in CallIds : d # app[s].call => KeepsCall(s, d)
  BY <1>0, <1>1, HangupKeeps
<1>3. OnlyActs(s) /\ Live(s)'
  BY <1>0, <1>1 DEF OnlyActs, PhoneHangup, PhoneExit, Live, TypeInv, ScreensOK
<1>4. app'[s].st = "idle" /\ app'[s].call = NoCall /\ app'[s].incoming = NoCall
  BY <1>0, <1>1 DEF GoIdle, IdleApp, TypeInv, ScreensOK
<1>5. \/ mode'[s] = "app"
      \/ mode'[s] = "lobby" /\ app'[s] = IdleApp /\ ComesBack(s)
  BY <1>0, <1>1 DEF PhoneHangup, PhoneExit, SetApp, InPhone, ComesBack, TypeInv, ScreensOK
<1>6. Screen(s)'
  BY <1>1, <1>2, <1>3, <1>4, <1>5, LeftScreen
<1>7. QED
  BY <1>2, <1>3, <1>6, OthersKept DEF TableStep

(* handlePhoneEvent: an event that waited in the queue never makes a       *)
(* screen claim more than the call table backs.                            *)
LEMMA EventBacked ==
  ASSUME TableTypeOK, CallShape, NEW r \in Sessions, NEW a \in App, Shaped(a),
         a.st # "answered", NEW e \in EventsOf(notify[r]), e \in Sent, EventOK(r, e),
         NEW w \in Users, NEW b, b = AppAfter(w, a, e)
  PROVE  /\ b.call \in {a.call, NoCall}
         /\ b.incoming \in {a.incoming, NoCall} \/ RungBy(r, b.incoming)
         /\ b.st # "answered" /\ (b.st = "other" => a.st = "other")
         /\ Backed(r, a) => Backed(r, b)
<1> USE PhoneAssumption
<1>0. /\ e.call \in CallIds /\ e.type \in EventTypes
      /\ GoIdle(a).st = "idle" /\ GoIdle(a).call = NoCall /\ GoIdle(a).incoming = NoCall
  BY DEF Sent, Event, GoIdle, IdleApp
<1>1. CASE e.type = "ring"
  <2>1. b = OnRing(a, e)
    BY <1>1 DEF AppAfter
  <2>2. b.st = a.st /\ b.call = a.call /\ b.incoming \in {a.incoming, e.call}
    BY <2>1 DEF OnRing, App
  <2>3. RungBy(r, e.call)
    BY <1>1 DEF EventOK, RungBy
  <2>4. QED
    BY <2>2, <2>3 DEF Backed
<1>2. CASE e.type = "elsewhere"
  <2>1. b = a \/ b = Dismiss(a)
    BY <1>2 DEF AppAfter, OnElsewhere
  <2>2. b.st = a.st /\ b.call = a.call /\ b.incoming \in {a.incoming, NoCall}
    BY <2>1 DEF Dismiss, App
  <2>3. QED
    BY <2>2 DEF Backed
<1>3. CASE e.type = "hangup"
  <2>1. b \in {a, Dismiss(a), GoIdle(a), Departs(w, a, e.from)}
    BY <1>3 DEF AppAfter, OnHangup
  <2>2. \/ b.st = a.st /\ b.call = a.call /\ b.incoming \in {a.incoming, NoCall}
        \/ b = GoIdle(a)
    <3>1. PICK n : n = Departs(w, a, e.from)
      OBVIOUS
    <3>2. SameButNames(n, a)
      BY <3>1, DepartsNames
    <3>3. QED
      BY <2>1, <3>1, <3>2 DEF Dismiss, App, SameButNames
  <2>3. QED
    BY <1>0, <2>2 DEF Backed
<1>4. CASE e.type = "answer"
  <2>1. b = OnAnswer(w, a, e)
    BY <1>4 DEF AppAfter
  <2>2. CASE a.st = "pending" /\ e.call = a.call
    <3>1. b.st = "active" /\ b.call = a.call /\ b.incoming = a.incoming
      BY <2>1, <2>2 DEF OnAnswer, App
    <3>2. Backed(r, a) => r \in parts[a.call] /\ state[a.call] = "active"
      BY <1>0, <1>4, <2>2 DEF Backed, EventOK, CallShape, Exists
    <3>3. QED
      BY <3>1, <3>2 DEF Backed
  <2>3. CASE a.st = "active" /\ e.call = a.call
    <3>1. PICK n : n = Joined(w, a, e.to)
      OBVIOUS
    <3>2. n \in App /\ SameButNames(n, a)
      <4>1. e.to \in Users
        BY <1>4 DEF Sent
      <4>2. QED
        BY <3>1, <4>1, JoinedNames
    <3>3. b.st = a.st /\ b.call = a.call /\ b.incoming = a.incoming
      BY <2>1, <2>3, <3>1, <3>2 DEF OnAnswer, Forget, App, SameButNames
    <3>4. QED
      BY <3>3 DEF Backed
  <2>4. CASE ~(a.st \in {"pending", "active"} /\ e.call = a.call)
    BY <2>1, <2>4 DEF OnAnswer
  <2>5. QED
    BY <2>2, <2>3, <2>4
<1>5. CASE e.type \in {"reject", "gone", "unavailable"}
  <2>1. b \in {a, Forget(a, e.to), GoIdle(a)}
    BY <1>5 DEF AppAfter, OnRefused
  <2>2. \/ b.st = a.st /\ b.call = a.call /\ b.incoming = a.incoming
        \/ b = GoIdle(a)
    BY <2>1 DEF Forget, App
  <2>3. QED
    BY <1>0, <2>2 DEF Backed
<1>6. CASE e.type = "ringing"
  BY <1>6 DEF AppAfter
<1>7. QED
  BY <1>0, <1>1, <1>2, <1>3, <1>4, <1>5, <1>6 DEF EventTypes

(* An event that waits in a queue.                                         *)
LEMMA QueuedEvent ==
  ASSUME notify \in Maildir, QueuesOK, NEW s \in Sessions, NEW i \in Deliverable(s)
  PROVE  /\ notify[s] \in Mailbox /\ i \in 1 .. Len(notify[s])
         /\ notify[s][i] \in EventsOf(notify[s]) /\ notify[s][i] \in Sent
         /\ EventOK(s, notify[s][i])
<1>1. notify[s] \in Mailbox /\ notify[s] \in Seq(Sent) /\ i \in 1 .. Len(notify[s])
  BY DEF Maildir, Mailbox, Deliverable
<1>2. notify[s][i] \in Sent
  BY <1>1, ElementOfSeq
<1>3. notify[s][i] \in EventsOf(notify[s])
  BY <1>1 DEF EventsOf
<1>4. QED
  BY <1>1, <1>2, <1>3 DEF QueuesOK

(* The queues once an event is taken.                                      *)
LEMMA TakenEvent ==
  ASSUME notify \in Maildir, NEW s \in Sessions, NEW i \in Deliverable(s),
         NEW queues, queues = [notify EXCEPT ![s] = Without(notify[s], i)]
  PROVE  /\ queues \in Maildir
         /\ \A r \in Sessions : EventsOf(queues[r]) \subseteq EventsOf(notify[r])
<1>1. notify[s] \in Mailbox /\ i \in 1 .. Len(notify[s])
  BY DEF Maildir, Deliverable
<1>2. /\ Without(notify[s], i) \in Mailbox
      /\ EventsOf(Without(notify[s], i)) \subseteq EventsOf(notify[s])
  BY <1>1, WithoutTyped, WithoutEvents
<1>3. QED
  BY <1>2 DEF Maildir

LEMMA HandleKept ==
  ASSUME PhoneInv, NEW s \in Sessions, Handle(s)
  PROVE  TableInv' /\ \A r \in Sessions : Screen(r)'
<1> USE PhoneAssumption
<1>0. /\ TableOK /\ TableTypeOK /\ notify \in Maildir /\ TableInv /\ TypeInv
      /\ CallShape /\ QueuesOK
      /\ mode[s] \in {"lobby", "app"} /\ Screen(s) /\ Owner[s] \in Users
      /\ app[s] \in App /\ Shaped(app[s])
      /\ app[s].incoming \in CallIds \union {NoCall}
      /\ prompt[s] \in CallIds \union {NoCall}
      /\ \A a \in launching[s] : a \in App
  BY ScreenParts, RegistryAssumption DEF PhoneInv, TableInv, App
<1>1. PICK i \in Deliverable(s) :
        LET e == notify[s][i]
            queues == [notify EXCEPT ![s] = Without(notify[s], i)]
        IN \/ /\ mode[s] = "lobby"
              /\ prompt' = [prompt EXCEPT ![s] = LobbyPrompt(prompt[s], e)]
              /\ notify' = queues
              /\ UNCHANGED <<state, callee, parts, invites, app>>
           \/ /\ mode[s] = "app"
              /\ SetApp(s, AppAfter(Owner[s], app[s], e))
              /\ IF LastPeerLeft(app[s], e) THEN HangupShown(s, queues)
                 ELSE notify' = queues /\ UNCHANGED <<state, callee, parts, invites>>
              /\ UNCHANGED prompt
  BY DEF Handle
<1> DEFINE e == notify[s][i]
           queues == [notify EXCEPT ![s] = Without(notify[s], i)]
           b == AppAfter(Owner[s], app[s], e)
<1>2. /\ Live(s) /\ Settled(s) /\ ~Busy(s)
      /\ UNCHANGED <<doors, phase, ticked, mode, launching, armed>>
  BY DEF Handle, Settled
<1>3. e \in EventsOf(notify[s]) /\ e \in Sent /\ EventOK(s, e) /\ e.call \in CallIds
  BY <1>0, QueuedEvent DEF Sent, Event
<1>4. /\ queues \in Maildir
      /\ \A r \in Sessions : EventsOf(queues[r]) \subseteq EventsOf(notify[r])
  BY <1>0, TakenEvent
<1>5. OnlyActs(s) /\ Live(s)'
  BY <1>0, <1>1, <1>2 DEF OnlyActs, Live, SetApp, TypeInv, ScreensOK
<1> HIDE DEF e, queues, b
<1>6. CASE mode[s] = "lobby"
  <2>1. /\ prompt'[s] = LobbyPrompt(prompt[s], e) /\ notify' = queues
        /\ UNCHANGED <<state, callee, parts, invites, app>>
    BY <1>0, <1>1, <1>6 DEF e, queues, TypeInv, ScreensOK
  <2>2. TableStep /\ \A r \in Sessions : Keeps(r)
    BY <1>0, <1>2, <1>4, <2>1, QuietKeeps
  <2>3. prompt'[s] = prompt[s] \/ RungBy(s, prompt[s])'
    BY <1>3, <2>1 DEF LobbyPrompt, EventOK, RungBy
  <2>4. QED
    BY <1>2, <1>5, <2>1, <2>2, <2>3, SameCallKept
<1>7. CASE mode[s] = "app" /\ LastPeerLeft(app[s], e)
  <2>1. HangupShown(s, queues) /\ app'[s] = b /\ prompt' = prompt
    BY <1>0, <1>1, <1>7 DEF e, queues, b, SetApp, TypeInv, ScreensOK
  <2>2. b = GoIdle(app[s])
    BY <1>7 DEF LastPeerLeft, AppAfter, OnHangup, b
  <2>3. app'[s].st = "idle" /\ app'[s].call = NoCall /\ app'[s].incoming = NoCall
    BY <2>1, <2>2 DEF GoIdle, IdleApp
  <2>4. /\ TableStep /\ \A r \in Sessions : r # s => Keeps(r)
        /\ \A d \in CallIds : d # app[s].call => KeepsCall(s, d)
    BY <1>2, <1>4, <2>1, HangupKeeps
  <2>5. Screen(s)'
    BY <1>2, <1>5, <1>7, <2>1, <2>3, <2>4, LeftScreen
  <2>6. QED
    BY <1>5, <2>4, <2>5, OthersKept DEF TableStep
<1>8. CASE mode[s] = "app" /\ ~LastPeerLeft(app[s], e)
  <2>1. /\ notify' = queues /\ app'[s] = b /\ prompt' = prompt
        /\ UNCHANGED <<state, callee, parts, invites>>
    BY <1>0, <1>1, <1>8 DEF e, queues, b, SetApp, TypeInv, ScreensOK
  <2>2. TableStep /\ \A r \in Sessions : Keeps(r)
    BY <1>0, <1>2, <1>4, <2>1, QuietKeeps
  <2>3. /\ b.call \in {app[s].call, NoCall}
        /\ b.incoming \in {app[s].incoming, NoCall} \/ RungBy(s, b.incoming)
        /\ b.st # "answered" /\ (b.st = "other" => app[s].st = "other")
        /\ Backed(s, app[s]) => Backed(s, b)
    BY <1>0, <1>2, <1>3, EventBacked DEF b, Busy
  <2>4. /\ \A d \in CallIds \union {NoCall} : RungBy(s, d) => RungBy(s, d)'
        /\ \A a \in App : Known(a) => Known(a)'
        /\ ComesBack(s) => \A a \in launching[s] : Backed(s, a)'
    BY <1>2, <2>2, Carried
  <2>5. ScreenShape(s)' /\ OneLaunch(s)'
    BY <1>0, <1>2, <1>5, <1>8, <2>1, <2>3 DEF Screen, ScreenShape, OneLaunch, Busy, Open
  <2>6. Known(app[s])' /\ \A a \in launching'[s] : Known(a)'
    BY <1>0, <1>2, <2>1, <2>3, <2>4 DEF Screen, Known
  <2>7. RungBy(s, prompt[s])' /\ RungBy(s, app[s].incoming)'
    BY <1>0, <2>1, <2>3, <2>4 DEF Screen, RungBy
  <2>8. Claims(s)' /\ OneClaim(s)'
    <3>1. ComesBack(s)' => ComesBack(s)
      BY <1>2, <1>8, <2>1, <2>3 DEF ComesBack, Open
    <3>2. Backed(s, app[s])'
      BY <1>0, <1>4, <2>1, <2>3 DEF Screen, Claims, Backed
    <3>3. OneClaim(s)'
      BY <1>0, <1>2, <2>1, <2>3, <3>1 DEF Screen, OneClaim
    <3>4. QED
      BY <1>2, <2>4, <3>1, <3>2, <3>3 DEF Claims
  <2>9. Screen(s)'
    BY <2>4, <2>5, <2>6, <2>7, <2>8 DEF Screen
  <2>10. QED
    BY <1>5, <2>2, <2>9, OthersKept DEF TableStep
<1>9. QED
  BY <1>0, <1>6, <1>7, <1>8

-----------------------------------------------------------------------------
LEMMA InitPhone == Init => PhoneInv
<1> SUFFICES ASSUME Init PROVE PhoneInv
  OBVIOUS
<1>1. TypeInv
  BY InitTyped
<1>2. TableInv
  BY DEF Init, RegInit, TableInit, TableInv, CallShape, Exists, AddRings, NoInvites,
         QueuesOK, EventsOf, TickedOK
<1>3. ASSUME NEW r \in Sessions PROVE Screen(r)
  <2>1. /\ app[r] = IdleApp /\ launching[r] = {} /\ prompt[r] = NoCall
        /\ mode[r] = "lobby"
    BY DEF Init
  <2>2. IdleApp.st = "idle" /\ IdleApp.call = NoCall /\ IdleApp.incoming = NoCall
    BY DEF IdleApp
  <2>3. QED
    BY <2>1, <2>2 DEF Screen, ScreenShape, Busy, RungBy, Known, OneLaunch, Claims,
                      OneClaim, Backed
<1>4. QED
  BY <1>1, <1>2, <1>3 DEF PhoneInv, ScreensInv

LEMMA NextPhone == PhoneInv /\ [Next]_vars => PhoneInv'
<1> SUFFICES ASSUME PhoneInv, [Next]_vars
             PROVE  PhoneInv'
  OBVIOUS
<1>1. TypeInv'
  BY NextTyped DEF PhoneInv
<1>2. TableInv' /\ \A r \in Sessions : Screen(r)'
  <2>1. ASSUME NEW s \in Sessions, Login(s) \/ Disconnect(s)
        PROVE  TableInv' /\ \A r \in Sessions : Screen(r)'
    BY <2>1, LoginKept
  <2>2. ASSUME NEW s \in Sessions, Teardown(s)
        PROVE  TableInv' /\ \A r \in Sessions : Screen(r)'
    BY <2>2, TeardownKept
  <2>3. ASSUME NEW s \in Sessions, Handle(s)
        PROVE  TableInv' /\ \A r \in Sessions : Screen(r)'
    BY <2>3, HandleKept
  <2>4. ASSUME NEW s \in Sessions, LobbyPhone(s) \/ Launch(s)
        PROVE  TableInv' /\ \A r \in Sessions : Screen(r)'
    BY <2>4, LaunchKept
  <2>5. ASSUME NEW s \in Sessions, ListParticipants(s)
        PROVE  TableInv' /\ \A r \in Sessions : Screen(r)'
    BY <2>5, ListKept
  <2>6. ASSUME NEW s \in Sessions, LobbyAnswer(s) \/ PhoneAnswer(s)
        PROVE  TableInv' /\ \A r \in Sessions : Screen(r)'
    BY <2>6, AnswersKept
  <2>7. ASSUME NEW s \in Sessions, LobbyReject(s) \/ PhoneReject(s)
        PROVE  TableInv' /\ \A r \in Sessions : Screen(r)'
    BY <2>7, RejectKept
  <2>8. ASSUME NEW s \in Sessions,
               PhoneCancelAdd(s) \/ \E u \in Users : PhoneAdd(s, u)
        PROVE  TableInv' /\ \A r \in Sessions : Screen(r)'
    BY <2>8, InviteKept
  <2>9. ASSUME NEW s \in Sessions, PhoneHangup(s) \/ PhoneExit(s)
        PROVE  TableInv' /\ \A r \in Sessions : Screen(r)'
    BY <2>9, HangupKept
  <2>10. ASSUME NEW s \in Sessions, NEW u \in Users, NEW c \in CallIds,
                LobbyDial(s, u, c) \/ PhoneDial(s, u, c)
         PROVE  TableInv' /\ \A r \in Sessions : Screen(r)'
    BY <2>10, DialKept
  <2>11. ASSUME NEW g \in Ringers, TickOf(g) \/ ReRingOf(g)
         PROVE  TableInv' /\ \A r \in Sessions : Screen(r)'
    BY <2>11, TickerKept
  <2>12. CASE UNCHANGED vars
    <3>1. /\ TableTypeOK /\ notify \in Maildir /\ TableInv /\ UNCHANGED uiVars
          /\ phase' = phase /\ notify' = notify
          /\ UNCHANGED <<state, callee, parts, invites, ticked>>
      BY <2>12 DEF vars, regVars, tableVars, PhoneInv, TypeInv, TableOK
    <3>2. TableStep /\ \A r \in Sessions : Keeps(r)
      BY <3>1, QuietKeeps
    <3>3. QED
      BY <3>1, <3>2, IdleKept DEF TableStep, Live
  <2>13. Captured \subseteq Ringers /\ ticked \subseteq Ringers
    BY DEF Captured, PhoneInv, TypeInv, TableOK, TableTypeOK
  <2>14. QED
    BY <2>1, <2>2, <2>3, <2>4, <2>5, <2>6, <2>7, <2>8, <2>9, <2>10, <2>11,
       <2>12, <2>13 DEF Next
<1>3. QED
  BY <1>1, <1>2 DEF PhoneInv, ScreensInv

(* Whatever the doors, the accounts and the number of receivers and of     *)
(* calls: a session that shows a live call is a participant of it, and so  *)
(* is one inside ANSWER (doAnswer and answerCommand, which list the        *)
(* participants after Answer let go of the lock).                          *)
THEOREM ShownIsReal == Spec => []ActiveIsReal
<1>1. PhoneInv => ActiveIsReal
  BY DEF PhoneInv, ScreensInv, Screen, Claims, Backed, ActiveIsReal, Busy
<1>2. QED
  BY InitPhone, NextPhone, <1>1, PTL DEF Spec

-----------------------------------------------------------------------------
(* What the call table promises this client too, with every door open: it  *)
(* may be in two calls at once, or cancel the ring of another, which the   *)
(* client of CallService may not.                                          *)

(* A step adds no ring, or one, for an account that nobody rings.          *)
OneMoreRing ==
  \/ \A c \in CallIds, u \in Users : Rings(c, u)' => Rings(c, u)
  \/ \E b \in CallIds, w \in Users :
       /\ ~BeingRung(w)
       /\ \A c \in CallIds, u \in Users : Rings(c, u)' => Rings(c, u) \/ (c = b /\ u = w)

(* Whoever joins a call places it, or is rung by it.                       *)
RungJoin ==
  \A c \in CallIds : \A r \in parts'[c] \ parts[c] :
    state[c] = "unused" \/ Rings(c, Owner[r])

LEMMA OneMoreKeepsOne ==
  ASSUME OneRingPerCallee, OneMoreRing
  PROVE  OneRingPerCallee'
BY DEF OneRingPerCallee, OneMoreRing, BeingRung

LEMMA DialRule ==
  ASSUME TableTypeOK, CallShape, NEW s \in Sessions, NEW u \in Users, NEW c \in CallIds,
         Dial(s, u, c)
  PROVE  OneMoreRing /\ RungJoin
<1> USE RegistryAssumption
<1>1. ~BeingRung(u)
  BY DEF Dial, Admit
<1>2. \A d \in CallIds, w \in Users : Rings(d, w)' => Rings(d, w) \/ (d = c /\ w = u)
  BY DEF Dial, TableTypeOK, Rings, DialRings, AddRings
<1>3. RungJoin
  BY DEF Dial, TableTypeOK, RungJoin
<1>4. QED
  BY <1>1, <1>2, <1>3 DEF OneMoreRing

LEMMA AnswerRule ==
  ASSUME TableTypeOK, NEW s \in Sessions, NEW c \in CallIds, RungBy(s, c), Answer(s, c)
  PROVE  OneMoreRing /\ RungJoin
<1> USE RegistryAssumption, PhoneAssumption
<1>1. \A d \in CallIds, w \in Users : Rings(d, w)' => Rings(d, w)
  BY DEF Answer, AnswerDial, AnswerAdd, TableTypeOK, Rings, DialRings, AddRings
<1>2. Rings(c, Owner[s])
  BY DEF Answer, AnswerDial, AnswerAdd, RungBy, Rings, DialRings
<1>3. \A d \in CallIds : \A r \in parts'[d] \ parts[d] : d = c /\ r = s
  BY DEF Answer, AnswerDial, AnswerAdd, TableTypeOK
<1>4. QED
  BY <1>1, <1>2, <1>3 DEF OneMoreRing, RungJoin

LEMMA AddRule ==
  ASSUME TableTypeOK, NEW from \in Users, NEW u \in Users, NEW c \in CallIds,
         Add(from, u, c)
  PROVE  OneMoreRing /\ RungJoin
<1>1. ~BeingRung(u)
  BY DEF Add, Admit
<1>2. \A d \in CallIds, w \in Users : Rings(d, w)' => Rings(d, w) \/ (d = c /\ w = u)
  BY DEF Add, TableTypeOK, Rings, DialRings, AddRings
<1>3. RungJoin
  BY DEF Add, RungJoin
<1>4. QED
  BY <1>1, <1>2, <1>3 DEF OneMoreRing

(* Nothing is added: calls and invitations end, participants leave.        *)
LEMMA LessRule ==
  ASSUME \A c \in CallIds : parts'[c] \subseteq parts[c],
         \A c \in CallIds : \/ state'[c] = state[c] /\ callee'[c] = callee[c]
                            \/ state'[c] = "over",
         \A c \in CallIds, u \in Users :
           invites'[c][u] = invites[c][u] \/ invites'[c][u] = NoUser
  PROVE  OneMoreRing /\ RungJoin
BY DEF OneMoreRing, RungJoin, Rings, DialRings, AddRings

LEMMA EndRule ==
  ASSUME TableTypeOK, NEW s \in Sessions, NEW c \in CallIds, NEW u \in Users,
         NEW from, NEW queues,
         Reject(u, c) \/ HangupLocked(c, s, queues) \/ CancelAdd(from, u, c)
  PROVE  OneMoreRing /\ RungJoin
<1> USE RegistryAssumption
<1>1. CASE RejectDial(u, c)
  BY <1>1, LessRule DEF RejectDial, TableTypeOK
<1>2. CASE RejectAdd(u, c) \/ CancelAdd(from, u, c)
  <2>1. /\ parts' = parts /\ state' = state /\ callee' = callee
        /\ invites' = [invites EXCEPT ![c][u] = NoUser]
    BY <1>2 DEF RejectAdd, CancelAdd
  <2>2. \A d \in CallIds, w \in Users :
          invites'[d][w] = invites[d][w] \/ invites'[d][w] = NoUser
    BY <2>1 DEF TableTypeOK
  <2>3. QED
    BY <2>1, <2>2, LessRule
<1>3. CASE HangupLocked(c, s, queues)
  BY <1>3, LessRule DEF HangupLocked, TableTypeOK, NoInvites
<1>4. QED
  BY <1>1, <1>2, <1>3 DEF Reject

LEMMA ReapRule ==
  ASSUME TableTypeOK, NEW u \in Users, ReapRings(u)
  PROVE  OneMoreRing /\ RungJoin
BY LessRule, RegistryAssumption DEF ReapRings, TableTypeOK

LEMMA NextRule ==
  ASSUME PhoneInv, [Next]_vars
  PROVE  OneMoreRing /\ RungJoin
<1> USE RegistryAssumption, PhoneAssumption
<1>0. TableTypeOK /\ CallShape
  BY DEF PhoneInv, TypeInv, TableOK, TableInv
<1>1. CASE UNCHANGED <<state, callee, parts, invites>>
  BY <1>1, LessRule
<1>2. ASSUME NEW s \in Sessions, NEW u \in Users, NEW c \in CallIds,
             LobbyDial(s, u, c) \/ PhoneDial(s, u, c)
      PROVE  OneMoreRing /\ RungJoin
  BY <1>0, <1>2, DialRule DEF LobbyDial, PhoneDial
<1>3. ASSUME NEW s \in Sessions, LobbyAnswer(s) \/ PhoneAnswer(s)
      PROVE  OneMoreRing /\ RungJoin
  <2>1. \/ UNCHANGED <<state, callee, parts, invites>>
        \/ \E c \in CallIds : RungBy(s, c) /\ Answer(s, c)
    BY <1>3, ScreenParts DEF LobbyAnswer, PhoneAnswer, tableVars, Screen, App
  <2>2. QED
    BY <1>0, <1>1, <2>1, AnswerRule
<1>4. ASSUME NEW s \in Sessions, NEW u \in Users, PhoneAdd(s, u)
      PROVE  OneMoreRing /\ RungJoin
  <2>1. app[s].call \in CallIds /\ Add(Owner[s], u, app[s].call)
    BY <1>4, ScreenParts DEF PhoneAdd, InPhone, Shaped, Showing, App
  <2>2. QED
    BY <1>0, <2>1, AddRule
<1>5. ASSUME NEW s \in Sessions,
             LobbyReject(s) \/ PhoneReject(s) \/ PhoneCancelAdd(s)
      PROVE  OneMoreRing /\ RungJoin
  <2>1. CASE PhoneCancelAdd(s)
    <3>1. /\ app[s].call \in CallIds /\ app[s].target \in Users
          /\ CancelAdd(Owner[s], app[s].target, app[s].call)
      BY <2>1, ScreenParts DEF PhoneCancelAdd, Shaped, Showing, App
    <3>2. QED
      BY <1>0, <3>1, EndRule
  <2>2. CASE LobbyReject(s) \/ PhoneReject(s)
    <3>1. \/ UNCHANGED <<state, callee, parts, invites>>
          \/ \E c \in CallIds : Reject(Owner[s], c)
      BY <2>2, ScreenParts DEF LobbyReject, PhoneReject, tableVars, App
    <3>2. QED
      BY <1>0, <1>1, <3>1, EndRule
  <2>3. QED
    BY <1>5, <2>1, <2>2
<1>6. ASSUME NEW s \in Sessions, NEW q, HangupShown(s, q)
      PROVE  OneMoreRing /\ RungJoin
  BY <1>0, <1>1, <1>6, EndRule DEF HangupShown
<1>7. ASSUME NEW s \in Sessions, PhoneHangup(s) \/ PhoneExit(s) \/ Handle(s)
      PROVE  OneMoreRing /\ RungJoin
  BY <1>1, <1>6, <1>7 DEF PhoneHangup, PhoneExit, Handle
<1>8. ASSUME NEW s \in Sessions, Teardown(s)
      PROVE  OneMoreRing /\ RungJoin
  <2>1. \/ UNCHANGED <<state, callee, parts, invites>>
        \/ \E c \in CallIds : HangupLocked(c, s, notify)
        \/ ReapRings(Owner[s])
    BY <1>8 DEF Teardown, HangupSession, ReapUnreachableRings, tableVars
  <2>2. QED
    BY <1>0, <1>1, <2>1, EndRule, ReapRule
<1>9. ASSUME NEW s \in Sessions,
             \/ Login(s) \/ Disconnect(s) \/ Launch(s)
             \/ ListParticipants(s) \/ LobbyPhone(s)
      PROVE  OneMoreRing /\ RungJoin
  BY <1>1, <1>9 DEF Login, Disconnect, Launch, ListParticipants, LobbyPhone, tableVars
<1>10. ASSUME NEW g, TickOf(g) \/ ReRingOf(g)
       PROVE  OneMoreRing /\ RungJoin
  BY <1>1, <1>10 DEF TickOf, ReRingOf, Tick, ReRing
<1>11. CASE UNCHANGED vars
  BY <1>1, <1>11 DEF vars, tableVars
<1>12. QED
  BY <1>2, <1>3, <1>4, <1>5, <1>7, <1>8, <1>9, <1>10, <1>11 DEF Next

(* An account is rung by one call at a time, whatever the sessions do: also *)
(* when one is in two calls, or cancels a ring that is not its own         *)
(* (admitLocked, from doDial and doAdd).                                   *)
THEOREM RingsAreSingle == Spec => []OneRingPerCallee
<1>1. Init => OneRingPerCallee
  BY RegistryAssumption DEF Init, TableInit, OneRingPerCallee, Rings, DialRings,
     AddRings, NoInvites
<1>2. PhoneInv /\ [Next]_vars /\ OneRingPerCallee => OneRingPerCallee'
  BY NextRule, OneMoreKeepsOne
<1>3. QED
  BY InitPhone, NextPhone, <1>1, <1>2, PTL DEF Spec

(* A pending call has its caller alone in it, an active one somebody, and a *)
(* call that was deleted nobody and no rings, although no method checks    *)
(* all of it (Answer, Reject, hangupLocked).                               *)
THEOREM TableIsShaped == Spec => []CallShape
<1>1. PhoneInv => CallShape
  BY DEF PhoneInv, TableInv
<1>2. QED
  BY InitPhone, NextPhone, <1>1, PTL DEF Spec

(* Nobody joins a call but by placing it or by a ring of that very call,   *)
(* with a prompt of whatever age, in the lobby or in PHONE, although       *)
(* doAnswer looks at nothing but pendingIncomingCallID.                    *)
THEOREM OnlyTheRungJoin == Spec => [][RungJoin]_vars
<1>1. PhoneInv /\ [Next]_vars => [RungJoin]_vars
  BY NextRule
<1>2. QED
  BY InitPhone, NextPhone, <1>1, PTL DEF Spec

-----------------------------------------------------------------------------
(* What a session waits for, with nothing dropped and the doors shut that  *)
(* Calm shuts: its queue tells what became of its call, in order.          *)

(* What may become of a call that still rings; and what ends the wait.     *)
Fates == {"answer", "reject", "gone", "unavailable"}
Ends == Fates \union {"hangup"}

(* Nothing in the queue ends the wait for call c.                          *)
Quiet(q, c) == \A i \in 1 .. Len(q) : q[i].call = c => q[i].type \notin Ends

(* The first event that ends the wait for call c is one of these.          *)
First(q, c, types) ==
  \E j \in 1 .. Len(q) :
    /\ q[j].call = c /\ q[j].type \in types
    /\ \A i \in 1 .. j - 1 : q[i].call = c => q[i].type \notin Ends

(* Queue n is queue q with events added at its end.                        *)
Extends(q, n) ==
  /\ Len(q) \in Nat /\ Len(n) \in Nat /\ Len(q) <= Len(n)
  /\ \A j \in 1 .. Len(q) : n[j] = q[j]

LEMMA ExtendsTwice ==
  ASSUME NEW q, NEW m, NEW n, Extends(q, m), Extends(m, n)
  PROVE  Extends(q, n)
BY DEF Extends

LEMMA FirstExtends ==
  ASSUME NEW q, NEW n, Extends(q, n), NEW c, NEW types, First(q, c, types)
  PROVE  First(n, c, types)
<1>1. PICK j \in 1 .. Len(q) :
        /\ q[j].call = c /\ q[j].type \in types
        /\ \A i \in 1 .. j - 1 : q[i].call = c => q[i].type \notin Ends
  BY DEF First
<1>2. j \in 1 .. Len(n) /\ n[j] = q[j] /\ \A i \in 1 .. j - 1 : n[i] = q[i]
  BY <1>1 DEF Extends
<1>3. QED
  BY <1>1, <1>2 DEF First

LEMMA QuietExtends ==
  ASSUME NEW q, NEW n, Extends(q, n), NEW c, Quiet(q, c),
         \A j \in Len(q) + 1 .. Len(n) : n[j].call = c => n[j].type \notin Ends
  PROVE  Quiet(n, c)
<1>1. ASSUME NEW i \in 1 .. Len(n), n[i].call = c
      PROVE  n[i].type \notin Ends
  <2>1. CASE i <= Len(q)
    BY <1>1, <2>1 DEF Extends, Quiet
  <2>2. CASE i > Len(q)
    BY <1>1, <2>2 DEF Extends
  <2>3. QED
    BY <2>1, <2>2 DEF Extends
<1>2. QED
  BY <1>1 DEF Quiet

LEMMA QuietThenFirst ==
  ASSUME NEW q, NEW n, Extends(q, n), NEW c, NEW types, Quiet(q, c),
         Len(q) + 1 <= Len(n), n[Len(q) + 1].call = c, n[Len(q) + 1].type \in types
  PROVE  First(n, c, types)
<1>1. \A i \in 1 .. Len(q) : n[i].call = c => n[i].type \notin Ends
  BY DEF Extends, Quiet
<1>2. Len(q) + 1 \in 1 .. Len(n) /\ (Len(q) + 1) - 1 = Len(q)
  BY DEF Extends
<1>3. QED
  BY <1>1, <1>2 DEF First

(* The event at the head of a queue is taken.                              *)
LEMMA HeadTaken ==
  ASSUME NEW q \in Mailbox, 1 \in 1 .. Len(q), NEW c, NEW types \in SUBSET Ends
  PROVE  /\ Quiet(q, c) => /\ Quiet(Without(q, 1), c)
                           /\ q[1].call = c => q[1].type \notin Ends
         /\ First(q, c, types) =>
              \/ q[1].call = c /\ q[1].type \in types
              \/ /\ q[1].call = c => q[1].type \notin Ends
                 /\ First(Without(q, 1), c, types)
<1> DEFINE n == Without(q, 1)
<1>1. /\ Len(q) \in Nat /\ Len(n) = Len(q) - 1
      /\ \A j \in 1 .. Len(q) - 1 : n[j] = q[j + 1]
  BY WithoutTyped, LenProperties DEF Mailbox
<1> HIDE DEF n
<1>2. Quiet(q, c) => Quiet(n, c) /\ (q[1].call = c => q[1].type \notin Ends)
  BY <1>1 DEF Quiet
<1>3. ASSUME First(q, c, types), ~(q[1].call = c /\ q[1].type \in types)
      PROVE  /\ q[1].call = c => q[1].type \notin Ends
             /\ First(n, c, types)
  <2>1. PICK j \in 1 .. Len(q) :
          /\ q[j].call = c /\ q[j].type \in types
          /\ \A i \in 1 .. j - 1 : q[i].call = c => q[i].type \notin Ends
    BY <1>3 DEF First
  <2>2. j # 1
    BY <1>3, <2>1
  <2>3. /\ j - 1 \in 1 .. Len(n) /\ n[j - 1] = q[j] /\ 1 \in 1 .. j - 1
        /\ \A i \in 1 .. (j - 1) - 1 : i + 1 \in 1 .. j - 1 /\ n[i] = q[i + 1]
    BY <1>1, <2>1, <2>2
  <2>4. \A i \in 1 .. (j - 1) - 1 : n[i].call = c => n[i].type \notin Ends
    BY <2>1, <2>3
  <2>5. QED
    BY <2>1, <2>3, <2>4 DEF First
<1>4. QED
  BY <1>2, <1>3 DEF n

(* Sending only adds to the queues, and adds what is sent.                 *)
LEMMA PostExtends ==
  ASSUME NEW queues \in Maildir, NEW mail, NEW r \in Sessions,
         NEW n, n = Post(queues, mail)[r]
  PROVE  /\ Extends(queues[r], n)
         /\ \A j \in Len(queues[r]) + 1 .. Len(n) : r \in DOMAIN mail /\ n[j] = mail[r]
         /\ r \in DOMAIN mail /\ Live(r) /\ Len(queues[r]) < NotifyCap =>
              Len(n) = Len(queues[r]) + 1 /\ n[Len(queues[r]) + 1] = mail[r]
<1>1. queues[r] \in Seq(Sent) /\ Len(queues[r]) \in Nat
  BY LenProperties DEF Maildir, Mailbox
<1>2. CASE r \in DOMAIN mail /\ phase[r] = "live" /\ Len(queues[r]) < NotifyCap
  <2>1. n = Append(queues[r], mail[r])
    BY <1>2 DEF Post
  <2>2. queues[r] \in Seq(Sent \union {mail[r]}) /\ mail[r] \in Sent \union {mail[r]}
    BY <1>1, SeqMonotonic
  <2>3. /\ Len(n) = Len(queues[r]) + 1 /\ n[Len(queues[r]) + 1] = mail[r]
        /\ \A j \in 1 .. Len(queues[r]) : n[j] = queues[r][j]
    BY <2>1, <2>2, AppendProperties
  <2>4. QED
    BY <1>1, <1>2, <2>3 DEF Extends
<1>3. CASE ~(r \in DOMAIN mail /\ phase[r] = "live" /\ Len(queues[r]) < NotifyCap)
  <2>1. n = queues[r]
    BY <1>3 DEF Post
  <2>2. QED
    BY <1>1, <1>3, <2>1 DEF Extends, Live
<1>4. QED
  BY <1>2, <1>3

LEMMA SendExtends ==
  ASSUME NEW queues \in Maildir, NEW targets, NEW event, NEW r \in Sessions,
         NEW n, n = Send(queues, targets, event)[r]
  PROVE  /\ Extends(queues[r], n)
         /\ \A j \in Len(queues[r]) + 1 .. Len(n) : r \in targets /\ n[j] = event
         /\ r \in targets /\ Live(r) /\ Len(queues[r]) < NotifyCap =>
              Len(n) = Len(queues[r]) + 1 /\ n[Len(queues[r]) + 1] = event
BY PostExtends DEF Send

LEMMA TwiceSentExtends ==
  ASSUME NEW queues \in Maildir, NEW S, NEW T, NEW d \in Sent, NEW f,
         NEW r \in Sessions
  PROVE  LET n == Send(Send(queues, S, d), T, f)[r]
         IN /\ Extends(queues[r], n)
            /\ \A j \in Len(queues[r]) + 1 .. Len(n) : n[j] = d \/ n[j] = f
            /\ r \in S /\ Live(r) /\ Len(queues[r]) < NotifyCap =>
                 Len(n) >= Len(queues[r]) + 1 /\ n[Len(queues[r]) + 1] = d
<1> DEFINE sent == Send(queues, S, d)
           m == sent[r]
           n == Send(sent, T, f)[r]
<1>1. /\ Extends(queues[r], m)
      /\ \A j \in Len(queues[r]) + 1 .. Len(m) : m[j] = d
      /\ r \in S /\ Live(r) /\ Len(queues[r]) < NotifyCap =>
           Len(m) = Len(queues[r]) + 1 /\ m[Len(queues[r]) + 1] = d
  BY SendExtends
<1>2. Extends(m, n) /\ \A j \in Len(m) + 1 .. Len(n) : n[j] = f
  <2>1. sent \in Maildir
    BY SendTyped
  <2> HIDE DEF sent
  <2>2. QED
    BY <2>1, SendExtends
<1> HIDE DEF sent, m, n
<1>3. Extends(queues[r], n)
  BY <1>1, <1>2, ExtendsTwice
<1>4. ASSUME NEW j \in Len(queues[r]) + 1 .. Len(n)
      PROVE  n[j] = d \/ n[j] = f
  <2>1. CASE j <= Len(m)
    BY <1>1, <1>2, <2>1 DEF Extends
  <2>2. CASE j > Len(m)
    BY <1>1, <1>2, <2>2 DEF Extends
  <2>3. QED
    BY <1>1, <1>2, <2>1, <2>2 DEF Extends
<1>5. r \in S /\ Live(r) /\ Len(queues[r]) < NotifyCap =>
        Len(n) >= Len(queues[r]) + 1 /\ n[Len(queues[r]) + 1] = d
  BY <1>1, <1>2 DEF Extends
<1>6. QED
  BY <1>3, <1>4, <1>5 DEF n, sent

Room == \A r \in Sessions : Len(notify[r]) < NotifyCap

(* A step keeps the queue of r in order, and a caller r that rings either  *)
(* goes on ringing, hearing nothing, or hears first what became of it.     *)
Serves(r) ==
  /\ Extends(notify[r], notify'[r])
  /\ \A c \in CallIds :
       Live(r) /\ r \in parts[c] /\ state[c] = "pending" =>
         \/ /\ state'[c] = "pending" /\ r \in parts'[c]
            /\ \A j \in Len(notify[r]) + 1 .. Len(notify'[r]) :
                 notify'[r][j].call = c => notify'[r][j].type \notin Ends
         \/ /\ Len(notify[r]) + 1 <= Len(notify'[r])
            /\ notify'[r][Len(notify[r]) + 1].call = c
            /\ \/ /\ state'[c] = "active" /\ r \in parts'[c]
                  /\ notify'[r][Len(notify[r]) + 1].type = "answer"
               \/ /\ state'[c] = "over"
                  /\ notify'[r][Len(notify[r]) + 1].type \in Fates

Joins(r, c) == r \in parts'[c] /\ r \notin parts[c]

LEMMA DialServes ==
  ASSUME TableOK, notify \in Maildir,
         NEW s \in Sessions, NEW u \in Users, NEW c \in CallIds, Dial(s, u, c)
  PROVE  \A r \in Sessions :
           Serves(r) /\ \A d \in CallIds : Joins(r, d) => r = s /\ d = c
<1>0. /\ TableTypeOK /\ state[c] = "unused"
      /\ notify' = Send(notify, Ringable(u), Ring(c, u))
      /\ state' = [state EXCEPT ![c] = "pending"]
      /\ parts' = [parts EXCEPT ![c] = {s}]
  BY DEF TableOK, Dial
<1>1. ASSUME NEW r \in Sessions
      PROVE  /\ Extends(notify[r], notify'[r])
             /\ \A j \in Len(notify[r]) + 1 .. Len(notify'[r]) :
                  notify'[r][j].type = "ring"
  BY <1>0, SendExtends DEF Ring
<1>2. QED
  BY <1>0, <1>1 DEF Serves, Joins, TableTypeOK, Ends, Fates

LEMMA AnswerDialServes ==
  ASSUME TableOK, notify \in Maildir, Room,
         NEW s \in Sessions, NEW c \in CallIds, AnswerDial(s, c)
  PROVE  \A r \in Sessions :
           Serves(r) /\ \A d \in CallIds : Joins(r, d) => r = s /\ d = c
<1>0. /\ TableTypeOK /\ state[c] = "pending" /\ Owner[s] \in Users
      /\ notify' = Send(Send(notify, parts[c], Answered(c, Owner[s])),
                        SessionsOf(Owner[s]) \ {s}, Elsewhere(c, Owner[s]))
      /\ state' = [state EXCEPT ![c] = "active"]
      /\ parts' = [parts EXCEPT ![c] = parts[c] \union {s}]
  BY RegistryAssumption DEF TableOK, AnswerDial
<1>1. /\ Answered(c, Owner[s]) \in Sent
      /\ Answered(c, Owner[s]).type = "answer" /\ Answered(c, Owner[s]).call = c
      /\ Elsewhere(c, Owner[s]).call = c
  BY <1>0, EventsTyped DEF Answered, Elsewhere
<1>2. ASSUME NEW r \in Sessions
      PROVE  /\ Extends(notify[r], notify'[r])
             /\ \A j \in Len(notify[r]) + 1 .. Len(notify'[r]) : notify'[r][j].call = c
             /\ r \in parts[c] /\ Live(r) =>
                  /\ Len(notify'[r]) >= Len(notify[r]) + 1
                  /\ notify'[r][Len(notify[r]) + 1] = Answered(c, Owner[s])
  BY <1>0, <1>1, TwiceSentExtends DEF Room
<1>3. ASSUME NEW r \in Sessions
      PROVE  Serves(r)
  <2>1. ASSUME NEW d \in CallIds, Live(r), r \in parts[d], state[d] = "pending"
        PROVE  \/ /\ state'[d] = "pending" /\ r \in parts'[d]
                  /\ \A j \in Len(notify[r]) + 1 .. Len(notify'[r]) :
                       notify'[r][j].call = d => notify'[r][j].type \notin Ends
               \/ /\ Len(notify[r]) + 1 <= Len(notify'[r])
                  /\ notify'[r][Len(notify[r]) + 1].call = d
                  /\ state'[d] = "active" /\ r \in parts'[d]
                  /\ notify'[r][Len(notify[r]) + 1].type = "answer"
    <3>1. CASE d = c
      BY <1>0, <1>1, <1>2, <2>1, <3>1 DEF TableTypeOK, Extends
    <3>2. CASE d # c
      BY <1>0, <1>2, <2>1, <3>2 DEF TableTypeOK
    <3>3. QED
      BY <3>1, <3>2
  <2>2. QED
    BY <1>2, <2>1 DEF Serves
<1>4. \A r \in Sessions, d \in CallIds : Joins(r, d) => r = s /\ d = c
  BY <1>0 DEF Joins, TableTypeOK
<1>5. QED
  BY <1>3, <1>4

LEMMA AnswerAddServes ==
  ASSUME TableOK, notify \in Maildir,
         NEW s \in Sessions, NEW c \in CallIds, AnswerAdd(s, c)
  PROVE  \A r \in Sessions :
           Serves(r) /\ \A d \in CallIds : Joins(r, d) => r = s /\ d = c
<1>0. /\ TableTypeOK /\ state[c] = "active"
      /\ notify' = Send(notify, parts[c] \ {s}, Answered(c, Owner[s]))
      /\ state' = state
      /\ parts' = [parts EXCEPT ![c] = parts[c] \union {s}]
  BY DEF TableOK, AnswerAdd
<1>1. ASSUME NEW r \in Sessions
      PROVE  /\ Extends(notify[r], notify'[r])
             /\ \A j \in Len(notify[r]) + 1 .. Len(notify'[r]) : notify'[r][j].call = c
  <2> DEFINE e == Answered(c, Owner[s])
             others == parts[c] \ {s}
  <2>1. e.call = c /\ notify' = Send(notify, others, e)
    BY <1>0 DEF Answered
  <2> HIDE DEF e, others
  <2>2. QED
    BY <2>1, SendExtends
<1>2. QED
  BY <1>0, <1>1 DEF Serves, Joins, TableTypeOK

LEMMA RejectServes ==
  ASSUME TableOK, notify \in Maildir, Room,
         NEW u \in Users, NEW c \in CallIds, Reject(u, c)
  PROVE  \A r \in Sessions : Serves(r) /\ \A d \in CallIds : ~Joins(r, d)
<1>0. TableTypeOK /\ notify' = Send(notify, parts[c], Declined(c, u))
  BY DEF TableOK, Reject, RejectDial, RejectAdd
<1>1. ASSUME NEW r \in Sessions
      PROVE  /\ Extends(notify[r], notify'[r])
             /\ \A j \in Len(notify[r]) + 1 .. Len(notify'[r]) : notify'[r][j].call = c
             /\ r \in parts[c] /\ Live(r) =>
                  /\ Len(notify'[r]) = Len(notify[r]) + 1
                  /\ notify'[r][Len(notify[r]) + 1].call = c
                  /\ notify'[r][Len(notify[r]) + 1].type = "reject"
  BY <1>0, SendExtends DEF Declined, Room
<1>2. CASE RejectDial(u, c)
  <2>1. /\ state' = [state EXCEPT ![c] = "over"]
        /\ parts' = [parts EXCEPT ![c] = {}]
    BY <1>2 DEF RejectDial
  <2>2. QED
    BY <1>0, <1>1, <2>1 DEF Serves, Joins, TableTypeOK, Fates, Extends
<1>3. CASE RejectAdd(u, c)
  <2>1. state[c] = "active" /\ state' = state /\ parts' = parts
    BY <1>3 DEF RejectAdd
  <2>2. QED
    BY <1>0, <1>1, <2>1 DEF Serves, Joins
<1>4. QED
  BY <1>2, <1>3 DEF Reject

LEMMA InviteServes ==
  ASSUME TableOK, notify \in Maildir, NEW w \in Users, NEW u \in Users,
         NEW c \in CallIds, state[c] = "active", Add(w, u, c) \/ CancelAdd(w, u, c)
  PROVE  \A r \in Sessions : Serves(r) /\ \A d \in CallIds : ~Joins(r, d)
<1>0. /\ state' = state /\ parts' = parts
      /\ \/ notify' = Send(Send(notify, Ringable(u), Ring(c, u)),
                           Others(c, w), Ringing(c, u))
         \/ notify' = Send(Send(notify, SessionsOf(u), Cancelled(c, w, u)),
                           Others(c, w), Cancelled(c, w, u))
  BY DEF Add, CancelAdd
<1>1. /\ Ring(c, u) \in Sent /\ Cancelled(c, w, u) \in Sent
      /\ Ring(c, u).call = c /\ Ringing(c, u).call = c /\ Cancelled(c, w, u).call = c
  BY EventsTyped DEF Ring, Ringing, Cancelled
<1>2. ASSUME NEW r \in Sessions
      PROVE  /\ Extends(notify[r], notify'[r])
             /\ \A j \in Len(notify[r]) + 1 .. Len(notify'[r]) : notify'[r][j].call = c
  <2>1. CASE notify' = Send(Send(notify, Ringable(u), Ring(c, u)),
                            Others(c, w), Ringing(c, u))
    <3> DEFINE e == Ring(c, u)
               f == Ringing(c, u)
               idle == Ringable(u)
               rest == Others(c, w)
    <3>1. /\ e \in Sent /\ e.call = c /\ f.call = c
          /\ notify' = Send(Send(notify, idle, e), rest, f)
      BY <1>1, <2>1
    <3> HIDE DEF e, f, idle, rest
    <3>2. /\ Extends(notify[r], notify'[r])
          /\ \A j \in Len(notify[r]) + 1 .. Len(notify'[r]) :
               notify'[r][j] = e \/ notify'[r][j] = f
      BY <3>1, TwiceSentExtends
    <3>3. QED
      BY <3>1, <3>2
  <2>2. CASE notify' = Send(Send(notify, SessionsOf(u), Cancelled(c, w, u)),
                            Others(c, w), Cancelled(c, w, u))
    <3> DEFINE e == Cancelled(c, w, u)
    <3>1. /\ e \in Sent /\ e.call = c
          /\ notify' = Send(Send(notify, SessionsOf(u), e), Others(c, w), e)
      BY <1>1, <2>2
    <3> HIDE DEF e
    <3>2. QED
      BY <3>1, TwiceSentExtends
  <2>3. QED
    BY <1>0, <2>1, <2>2
<1>3. \A r \in Sessions, d \in CallIds : ~Joins(r, d)
  BY <1>0 DEF Joins
<1>4. \A r \in Sessions : Serves(r)
  BY <1>0, <1>2 DEF Serves
<1>5. QED
  BY <1>3, <1>4

(* A departure from c: with queues that only s has taken an event from.    *)
LEMMA LeaveServes ==
  ASSUME TableOK, CallShape, NEW s \in Sessions, NEW c \in CallIds,
         NEW queues \in Maildir, s \in parts[c], HangupLocked(c, s, queues)
  PROVE  /\ \A r \in Sessions : r # s /\ queues[r] = notify[r] => Serves(r)
         /\ \A r \in Sessions, d \in CallIds : ~Joins(r, d)
         /\ s \notin parts'[c]
<1> DEFINE rang == {r \in Sessions : Rings(c, Owner[r])}
           mail == [r \in rang |->
                      Cancelled(c, Canceller(c, s, Owner[r]), Owner[r])]
<1>1. /\ parts' = [parts EXCEPT ![c] = parts[c] \ {s}]
      /\ state' = state \/ state' = [state EXCEPT ![c] = "over"]
      /\ \/ notify' = Send(queues, parts[c] \ {s}, Left(c, Owner[s]))
         \/ notify' = Post(queues, mail)
  BY DEF HangupLocked
<1>2. ASSUME NEW r \in Sessions
      PROVE  /\ Extends(queues[r], notify'[r])
             /\ \A j \in Len(queues[r]) + 1 .. Len(notify'[r]) : notify'[r][j].call = c
  <2>1. CASE notify' = Send(queues, parts[c] \ {s}, Left(c, Owner[s]))
    BY <2>1, SendExtends DEF Left
  <2>2. CASE notify' = Post(queues, mail)
    <3>1. \A t \in DOMAIN mail : mail[t].call = c
      BY DEF Cancelled
    <3> HIDE DEF mail
    <3>2. /\ Extends(queues[r], notify'[r])
          /\ \A j \in Len(queues[r]) + 1 .. Len(notify'[r]) :
               r \in DOMAIN mail /\ notify'[r][j] = mail[r]
      BY <2>2, PostExtends
    <3>3. QED
      BY <3>1, <3>2
  <2>3. QED
    BY <1>1, <2>1, <2>2
<1> HIDE DEF rang, mail
<1>3. ASSUME NEW r \in Sessions, r # s, queues[r] = notify[r]
      PROVE  Serves(r)
  <2>1. \A d \in CallIds : r \in parts[d] /\ state[d] = "pending" => d # c
    BY <1>3 DEF CallShape
  <2>2. QED
    BY <1>1, <1>2, <1>3, <2>1 DEF Serves, TableOK, TableTypeOK
<1>4. QED
  BY <1>1, <1>3 DEF Joins, TableOK, TableTypeOK

(* The queues only grow, by nothing that ends a wait; nobody joins a call. *)
LEMMA QuietServes ==
  ASSUME UNCHANGED <<state, parts>>, NEW r \in Sessions,
         Extends(notify[r], notify'[r]),
         \A j \in Len(notify[r]) + 1 .. Len(notify'[r]) :
           notify'[r][j].type \notin Ends
  PROVE  Serves(r) /\ \A d \in CallIds : ~Joins(r, d)
BY DEF Serves, Joins

LEMMA SameQueue ==
  ASSUME notify \in Maildir, NEW r \in Sessions, notify'[r] = notify[r]
  PROVE  /\ Extends(notify[r], notify'[r])
         /\ Len(notify[r]) + 1 .. Len(notify'[r]) = {}
<1>1. Len(notify[r]) \in Nat
  BY LenProperties DEF Maildir, Mailbox
<1>2. QED
  BY <1>1 DEF Extends

LEMMA ReapServes ==
  ASSUME TableOK, notify \in Maildir, Room, CallShape, OneCallPerSession,
         NEW u \in Users, ReapRings(u)
  PROVE  \A r \in Sessions : Serves(r) /\ \A d \in CallIds : ~Joins(r, d)
<1> DEFINE why == IF Connected(u) THEN "unavailable" ELSE "gone"
           dead == {c \in CallIds : DialRings(c, u)}
           lost == dead \union {c \in CallIds : AddRings(c, u)}
           told == {s \in Sessions : \E c \in lost : s \in parts[c]}
           mail == [s \in told |-> Lost(why, CHOOSE c \in lost : s \in parts[c], u)]
<1>0. TableTypeOK
  BY DEF TableOK
<1>1. /\ \A c \in CallIds :
           IF c \in dead THEN state'[c] = "over" /\ parts'[c] = {}
           ELSE state'[c] = state[c] /\ parts'[c] = parts[c]
      /\ notify' = Post(notify, mail)
  BY <1>0 DEF ReapRings, TableTypeOK
<1>2. ASSUME NEW r \in Sessions, NEW c \in CallIds, r \in parts[c]
      PROVE  /\ r \in told <=> c \in lost
             /\ r \in told => mail[r].call = c /\ mail[r].type \in Fates
  <2>1. \A d \in lost : r \in parts[d] => d = c
    BY <1>2 DEF OneCallPerSession
  <2>2. r \in told <=> c \in lost
    BY <1>2, <2>1
  <2>3. r \in told => (CHOOSE d \in lost : r \in parts[d]) = c
    BY <1>2, <2>1, <2>2
  <2>4. QED
    BY <2>2, <2>3 DEF Lost, Fates
<1>3. \A c \in CallIds : state[c] = "pending" /\ c \in lost => c \in dead
  BY DEF CallShape
<1>4. DOMAIN mail = told
  OBVIOUS
<1>5. \A c \in dead : c \in lost /\ state[c] = "pending"
  BY DEF DialRings
<1> HIDE DEF why, dead, lost, told, mail
<1>6. ASSUME NEW r \in Sessions
      PROVE  /\ Extends(notify[r], notify'[r])
             /\ \A j \in Len(notify[r]) + 1 .. Len(notify'[r]) : r \in told
             /\ r \in told /\ Live(r) =>
                  /\ Len(notify'[r]) = Len(notify[r]) + 1
                  /\ notify'[r][Len(notify[r]) + 1] = mail[r]
  BY <1>1, <1>4, PostExtends DEF Room
<1>7. ASSUME NEW r \in Sessions, NEW c \in CallIds,
             Live(r), r \in parts[c], state[c] = "pending"
      PROVE  \/ /\ state'[c] = "pending" /\ r \in parts'[c]
                /\ Len(notify[r]) + 1 .. Len(notify'[r]) = {}
             \/ /\ state'[c] = "over"
                /\ Len(notify[r]) + 1 <= Len(notify'[r])
                /\ notify'[r][Len(notify[r]) + 1].call = c
                /\ notify'[r][Len(notify[r]) + 1].type \in Fates
  <2>1. CASE c \in dead
    <3>1. r \in told /\ mail[r].call = c /\ mail[r].type \in Fates
      BY <1>2, <1>5, <1>7, <2>1
    <3>2. QED
      BY <1>1, <1>6, <1>7, <2>1, <3>1 DEF Extends
  <2>2. CASE c \notin dead
    <3>1. r \notin told
      BY <1>2, <1>3, <1>7, <2>2
    <3>2. QED
      BY <1>1, <1>6, <1>7, <2>2, <3>1
  <2>3. QED
    BY <2>1, <2>2
<1>8. \A r \in Sessions, d \in CallIds : ~Joins(r, d)
  BY <1>1 DEF Joins
<1>9. \A r \in Sessions : Serves(r)
  BY <1>6, <1>7 DEF Serves
<1>10. QED
  BY <1>8, <1>9

LEMMA RingerServes ==
  ASSUME TableOK, notify \in Maildir, NEW g \in Ringers, Tick(g) \/ ReRing(g)
  PROVE  \A r \in Sessions : Serves(r) /\ \A d \in CallIds : ~Joins(r, d)
<1>0. /\ g.call \in CallIds /\ g.to \in Users /\ UNCHANGED <<state, parts>>
      /\ Ring(g.call, g.to) \in Sent
  BY EventsTyped DEF Ringers, Tick, ReRing
<1>1. ASSUME NEW r \in Sessions
      PROVE  /\ Extends(notify[r], notify'[r])
             /\ \A j \in Len(notify[r]) + 1 .. Len(notify'[r]) :
                  notify'[r][j].type \in {"ring", "ringing"}
  <2>1. CASE notify' = notify
    BY <2>1, SameQueue
  <2>2. CASE notify' = Send(notify, Ringable(g.to), Ring(g.call, g.to))
    BY <2>2, SendExtends DEF Ring
  <2>3. CASE notify' = Send(Send(notify, Ringable(g.to), Ring(g.call, g.to)),
                            Others(g.call, g.by), Ringing(g.call, g.to))
    <3>1. /\ Extends(notify[r], notify'[r])
          /\ \A j \in Len(notify[r]) + 1 .. Len(notify'[r]) :
               \/ notify'[r][j] = Ring(g.call, g.to)
               \/ notify'[r][j] = Ringing(g.call, g.to)
      BY <1>0, <2>3, TwiceSentExtends
    <3>2. QED
      BY <3>1 DEF Ring, Ringing
  <2>4. QED
    BY <2>1, <2>2, <2>3 DEF Tick, ReRing
<1>2. QED
  BY <1>0, <1>1, QuietServes DEF Ends, Fates

LEMMA TeardownServes ==
  ASSUME TableOK, notify \in Maildir, Room, CallShape, OneCallPerSession,
         NEW s \in Sessions, Teardown(s)
  PROVE  \A r \in Sessions :
           (Live(r) => Serves(r)) /\ \A d \in CallIds : ~Joins(r, d)
<1>1. CASE HangupSession(s)
  <2>1. ~Live(s)
    BY <1>1 DEF HangupSession, Live
  <2>2. CASE \E c \in CallIds : s \in parts[c] /\ HangupLocked(c, s, notify)
    BY <2>1, <2>2, LeaveServes
  <2>3. CASE UNCHANGED <<state, callee, parts, invites, notify>>
    BY <2>3, SameQueue, QuietServes
  <2>4. QED
    BY <1>1, <2>2, <2>3 DEF HangupSession
<1>2. CASE Unregister(s) /\ UNCHANGED tableVars
  BY <1>2, SameQueue, QuietServes DEF Unregister, tableVars
<1>3. CASE ReapUnreachableRings(s)
  <2>1. CASE ReapRings(Owner[s])
    BY <2>1, ReapServes, RegistryAssumption
  <2>2. CASE UNCHANGED <<state, callee, parts, invites, notify>>
    BY <2>2, SameQueue, QuietServes
  <2>3. QED
    BY <1>3, <2>1, <2>2 DEF ReapUnreachableRings
<1>4. QED
  BY <1>1, <1>2, <1>3 DEF Teardown

-----------------------------------------------------------------------------
(* What holds of a session in addition, while nothing is dropped and the   *)
(* doors that Calm shuts are shut.                                         *)

(* A model that waits for its callee: the call rings and nothing has been  *)
(* said of it, or the queue tells first what became of it.                 *)
Waits(r, a) ==
  a.st = "pending" =>
    \/ /\ state[a.call] = "pending" /\ r \in parts[a.call]
       /\ Quiet(notify[r], a.call)
    \/ /\ state[a.call] = "active" /\ r \in parts[a.call]
       /\ First(notify[r], a.call, {"answer"})
    \/ /\ state[a.call] = "over"
       /\ First(notify[r], a.call, Fates)

CalmScreen(r) ==
  /\ armed[r] <= 1
  /\ app[r].incoming # NoCall => app[r].st = "idle"
  /\ app[r].st \notin {"other", "forced"} /\ \A a \in launching[r] : a.st # "other"
  /\ phase[r] = "new" => \A c \in CallIds : r \notin parts[c]
  /\ \A c \in CallIds : Live(r) /\ r \in parts[c] => Shows(r, c)
  /\ \A c, d \in CallIds : r \in parts[c] /\ r \in parts[d] => c = d
  /\ Waits(r, app[r]) /\ \A a \in launching[r] : Waits(r, a)

CalmScreens == \A r \in Sessions : CalmScreen(r)

LEMMA WaitsKept ==
  ASSUME TableTypeOK, TableInv, TableStep, NEW r \in Sessions, Live(r),
         Keeps(r), Serves(r), NEW a \in App, Shaped(a), Waits(r, a)
  PROVE  Waits(r, a)'
<1> SUFFICES ASSUME a.st = "pending"
             PROVE  Waits(r, a)'
  BY DEF Waits
<1> USE PhoneAssumption
<1>0. /\ Evolves /\ CallShape' /\ a.call \in CallIds
      /\ Extends(notify[r], notify'[r])
  BY DEF TableStep, TableInv, Shaped, Showing, App, Serves
<1>1. CASE /\ state[a.call] = "pending" /\ r \in parts[a.call]
           /\ Quiet(notify[r], a.call)
  <2>1. CASE /\ state'[a.call] = "pending" /\ r \in parts'[a.call]
             /\ \A j \in Len(notify[r]) + 1 .. Len(notify'[r]) :
                  notify'[r][j].call = a.call => notify'[r][j].type \notin Ends
    BY <1>0, <1>1, <2>1, QuietExtends DEF Waits
  <2>2. CASE /\ Len(notify[r]) + 1 <= Len(notify'[r])
             /\ notify'[r][Len(notify[r]) + 1].call = a.call
             /\ state'[a.call] = "active" /\ r \in parts'[a.call]
             /\ notify'[r][Len(notify[r]) + 1].type = "answer"
    <3>1. First(notify'[r], a.call, {"answer"})
      BY <1>0, <1>1, <2>2, QuietThenFirst
    <3>2. QED
      BY <2>2, <3>1 DEF Waits
  <2>3. CASE /\ Len(notify[r]) + 1 <= Len(notify'[r])
             /\ notify'[r][Len(notify[r]) + 1].call = a.call
             /\ state'[a.call] = "over"
             /\ notify'[r][Len(notify[r]) + 1].type \in Fates
    <3>1. First(notify'[r], a.call, Fates)
      BY <1>0, <1>1, <2>3, QuietThenFirst
    <3>2. QED
      BY <2>3, <3>1 DEF Waits
  <2>4. QED
    BY <1>0, <1>1, <2>1, <2>2, <2>3 DEF Serves
<1>2. CASE /\ state[a.call] = "active" /\ r \in parts[a.call]
           /\ First(notify[r], a.call, {"answer"})
  <2>1. r \in parts'[a.call] /\ state'[a.call] = "active"
    BY <1>0, <1>2 DEF Keeps, Evolves, CallShape, Exists
  <2>2. First(notify'[r], a.call, {"answer"})
    BY <1>0, <1>2, FirstExtends
  <2>3. QED
    BY <2>1, <2>2 DEF Waits
<1>3. CASE state[a.call] = "over" /\ First(notify[r], a.call, Fates)
  <2>1. First(notify'[r], a.call, Fates)
    BY <1>0, <1>3, FirstExtends
  <2>2. QED
    BY <1>0, <1>3, <2>1 DEF Waits, Evolves
<1>4. QED
  BY <1>1, <1>2, <1>3 DEF Waits

(* A session that does not move keeps all this, and so does one whose ring *)
(* goes off its screen.                                                    *)
LEMMA CalmKept ==
  ASSUME PhoneInv, TableStep, NEW r \in Sessions, CalmScreen(r),
         Live(r) => Keeps(r) /\ Serves(r), \A d \in CallIds : ~Joins(r, d),
         Live(r)' <=> Live(r), phase'[r] = "new" => phase[r] = "new",
         armed'[r] = armed[r], launching'[r] = launching[r],
         app'[r].st = app[r].st, app'[r].call = app[r].call,
         app'[r].incoming \in {app[r].incoming, NoCall}
  PROVE  CalmScreen(r)'
<1>0. /\ TableTypeOK /\ TableInv /\ app[r] \in App /\ Shaped(app[r]) /\ Screen(r)
      /\ \A a \in launching[r] : a \in App /\ Shaped(a)
  BY ScreenParts
<1>1. Waits(r, app[r])' /\ \A a \in launching'[r] : Waits(r, a)'
  <2>1. CASE Live(r)
    <3>1. \A a \in App : Shaped(a) /\ Waits(r, a) => Waits(r, a)'
      BY <1>0, <2>1, WaitsKept
    <3>2. QED
      BY <1>0, <3>1 DEF CalmScreen, Waits
  <2>2. CASE ~Live(r)
    BY <1>0, <2>2 DEF Screen, ScreenShape, IdleApp, Waits
  <2>3. QED
    BY <2>1, <2>2
<1>2. \A c \in CallIds : Live(r)' /\ r \in parts'[c] => Shows(r, c)'
  BY DEF CalmScreen, Joins, Shows
<1>3. QED
  BY <1>1, <1>2 DEF CalmScreen, Joins

LEMMA OthersCalm ==
  ASSUME PhoneInv, TableStep, CalmScreens, NEW s \in Sessions, OnlyActs(s),
         \A r \in Sessions :
           r # s => /\ armed'[r] = armed[r] /\ phase'[r] = phase[r]
                    /\ Live(r) => Keeps(r) /\ Serves(r)
                    /\ \A d \in CallIds : ~Joins(r, d)
  PROVE  \A r \in Sessions : r # s => CalmScreen(r)'
BY CalmKept DEF OnlyActs, CalmScreens

LEMMA IdleCalm ==
  ASSUME PhoneInv, TableStep, CalmScreens, UNCHANGED uiVars,
         \A r \in Sessions :
           /\ Live(r)' <=> Live(r)
           /\ phase'[r] = "new" => phase[r] = "new"
           /\ Live(r) => Keeps(r) /\ Serves(r)
           /\ \A d \in CallIds : ~Joins(r, d)
  PROVE  CalmScreens'
BY CalmKept DEF uiVars, CalmScreens

(* A session whose screen shows no call is in none.                        *)
LEMMA NoCallShown ==
  ASSUME PhoneInv, CalmScreens, NEW s \in Sessions, Live(s),
         app[s].call = NoCall, launching[s] = {}, NEW c \in CallIds
  PROVE  s \notin parts[c]
BY PhoneAssumption DEF CalmScreens, CalmScreen, Shows

(* Calm shuts the other doors.                                             *)
LEMMA CalmDoors ==
  ASSUME Calm
  PROVE  /\ ~Open("dialOverRing") /\ ~Open("slowLaunch") /\ ~Open("reopen")
         /\ ~Open("otherApps")
BY DEF Calm, Open

-----------------------------------------------------------------------------
(* One lemma per action.                                                   *)
CalmState == Calm /\ Room /\ PhoneInv /\ CalmScreens

LEMMA CalmParts ==
  ASSUME CalmState, NEW s \in Sessions
  PROVE  /\ TableOK /\ TableTypeOK /\ notify \in Maildir /\ TableInv /\ TypeInv
         /\ CallShape /\ QueuesOK /\ OneCallPerSession /\ Room /\ Calm
         /\ phase \in [Sessions -> Phases]
         /\ mode[s] \in {"lobby", "app"} /\ prompt[s] \in CallIds \union {NoCall}
         /\ app[s] \in App /\ Shaped(app[s])
         /\ app[s].incoming \in CallIds \union {NoCall}
         /\ \A a \in launching[s] : a \in App /\ Shaped(a)
         /\ Screen(s) /\ CalmScreen(s)
         /\ ~Open("slowLaunch") /\ ~Open("reopen") /\ ~Open("otherApps")
         /\ mode[s] = "app" \/ Busy(s) => launching[s] = {}
         /\ mode[s] = "lobby" /\ ~Busy(s) => app[s] = IdleApp
         /\ Settled(s) => launching[s] = {}
         /\ app \in [Sessions -> App] /\ launching \in [Sessions -> SUBSET App]
         /\ mode \in [Sessions -> {"lobby", "app"}]
         /\ armed \in [Sessions -> 0 .. MaxReceivers]
<1>1. /\ PhoneInv /\ Room /\ Calm /\ CalmScreens /\ CalmScreen(s)
      /\ ~Open("slowLaunch") /\ ~Open("reopen") /\ ~Open("otherApps")
  BY CalmDoors DEF CalmState, CalmScreens
<1>2. OneCallPerSession
  BY <1>1 DEF CalmScreens, CalmScreen, OneCallPerSession
<1>3. /\ app \in [Sessions -> App] /\ launching \in [Sessions -> SUBSET App]
      /\ mode \in [Sessions -> {"lobby", "app"}]
      /\ armed \in [Sessions -> 0 .. MaxReceivers]
      /\ phase \in [Sessions -> Phases] /\ QueuesOK
  BY <1>1 DEF PhoneInv, TypeInv, ScreensOK, TableOK, TableInv
<1>4. /\ mode[s] = "app" \/ Busy(s) => launching[s] = {}
      /\ mode[s] = "lobby" /\ ~Busy(s) => app[s] = IdleApp
      /\ Settled(s) => launching[s] = {}
  BY <1>1, ScreenParts DEF Screen, OneLaunch, ScreenShape, Settled
<1>5. app[s].incoming \in CallIds \union {NoCall}
  BY <1>3 DEF App
<1>6. QED
  BY <1>1, <1>2, <1>3, <1>4, <1>5, ScreenParts DEF PhoneInv

LEMMA LifeCalm ==
  ASSUME CalmState, NEW s \in Sessions, Login(s) \/ Disconnect(s) \/ Teardown(s)
  PROVE  CalmScreens'
<1> USE PhoneAssumption
<1>0. /\ TableOK /\ TableTypeOK /\ notify \in Maildir /\ TableInv /\ PhoneInv
      /\ CallShape /\ OneCallPerSession /\ Room /\ CalmScreens /\ CalmScreen(s)
      /\ phase \in [Sessions -> Phases] /\ ~Open("otherApps") /\ Screen(s)
      /\ app \in [Sessions -> App] /\ launching \in [Sessions -> SUBSET App]
      /\ mode \in [Sessions -> {"lobby", "app"}]
      /\ armed \in [Sessions -> 0 .. MaxReceivers]
  BY CalmParts DEF CalmState
<1>1. CASE Teardown(s)
  <2>1. UNCHANGED uiVars
    BY <1>1 DEF Teardown
  <2>2. \A r \in Sessions :
          (Live(r)' <=> Live(r)) /\ (phase'[r] = "new" => phase[r] = "new")
    BY <1>0, <1>1 DEF Teardown, HangupSession, Unregister, ReapUnreachableRings, Live
  <2>3. TableStep /\ \A r \in Sessions : Live(r) => Keeps(r)
    BY <1>0, <1>1, TeardownKeeps
  <2>4. QED
    BY <1>0, <1>1, <2>1, <2>2, <2>3, TeardownServes, IdleCalm
<1>2. CASE Login(s) \/ Disconnect(s)
  <2>1. /\ UNCHANGED <<state, callee, parts, invites, ticked>>
        /\ \A r \in Sessions : EventsOf(notify'[r]) \subseteq EventsOf(notify[r])
        /\ \A r \in Sessions : r # s => notify'[r] = notify[r]
    <3>1. EventsOf(<< >>) = {}
      BY DEF EventsOf
    <3>2. QED
      BY <1>0, <1>2, <3>1 DEF Login, Register, Disconnect, Drop, tableVars, Maildir
  <2>2. TableStep /\ \A r \in Sessions : Keeps(r)
    BY <1>0, <2>1, QuietKeeps
  <2>3. OnlyActs(s) /\ \A r \in Sessions : r # s => armed'[r] = armed[r] /\ phase'[r] = phase[r]
    BY <1>0, <1>2 DEF OnlyActs, Login, Register, Disconnect, Drop, Live, SetApp,
                      PhoneInv, TypeInv, ScreensOK
  <2>4. \A r \in Sessions : r # s => Serves(r) /\ \A d \in CallIds : ~Joins(r, d)
    BY <1>0, <2>1, SameQueue, QuietServes
  <2>5. /\ app'[s] = IdleApp /\ launching'[s] = {} /\ armed'[s] <= 1
        /\ phase'[s] # "new"
        /\ Live(s)' => phase[s] = "new"
    <3>1. CASE Login(s)
      BY <1>0, <3>1 DEF Login, Register, Live, Screen, ScreenShape
    <3>2. CASE Disconnect(s)
      BY <1>0, <3>2 DEF Disconnect, Drop, Live
    <3>3. QED
      BY <1>2, <3>1, <3>2
  <2>6. CalmScreen(s)'
    BY <1>0, <2>1, <2>5 DEF CalmScreen, Waits, IdleApp
  <2>7. QED
    BY <1>0, <2>2, <2>3, <2>4, <2>6, OthersCalm DEF CalmScreens
<1>3. QED
  BY <1>1, <1>2

LEMMA TickerCalm ==
  ASSUME CalmState, NEW g \in Ringers, TickOf(g) \/ ReRingOf(g)
  PROVE  CalmScreens'
<1>0. /\ TableOK /\ TableTypeOK /\ notify \in Maildir /\ TableInv
      /\ PhoneInv /\ CalmScreens
  BY DEF CalmState, PhoneInv, TypeInv, TableOK
<1>1. UNCHANGED uiVars /\ phase' = phase /\ (Tick(g) \/ ReRing(g))
  BY DEF TickOf, ReRingOf, Tick, ReRing
<1>2. /\ TableStep
      /\ \A r \in Sessions : Keeps(r) /\ Serves(r) /\ \A d \in CallIds : ~Joins(r, d)
  BY <1>0, <1>1, RingerKeeps, RingerServes
<1>3. QED
  BY <1>0, <1>1, <1>2, IdleCalm DEF Live

LEMMA DialCalm ==
  ASSUME CalmState, NEW s \in Sessions, NEW u \in Users, NEW c \in CallIds,
         LobbyDial(s, u, c) \/ PhoneDial(s, u, c)
  PROVE  CalmScreens'
<1> USE PhoneAssumption
<1>0. /\ TableOK /\ TableTypeOK /\ notify \in Maildir /\ TableInv /\ PhoneInv
      /\ QueuesOK /\ CalmScreens /\ CalmScreen(s) /\ Screen(s)
      /\ app \in [Sessions -> App] /\ launching \in [Sessions -> SUBSET App]
      /\ app[s] \in App /\ Shaped(app[s]) /\ ~Open("dialOverRing")
      /\ Calm
  BY CalmParts, CalmDoors DEF CalmState
<1>1. Dial(s, u, c)
  BY DEF LobbyDial, PhoneDial
<1>2. /\ TableStep
      /\ \A r \in Sessions : Keeps(r) /\ Serves(r)
      /\ \A r \in Sessions, d \in CallIds : Joins(r, d) => r = s /\ d = c
  BY <1>0, <1>1, DialKeeps, DialServes
<1>3. /\ state[c] = "unused" /\ phase' = phase
      /\ state'[c] = "pending" /\ parts' = [parts EXCEPT ![c] = {s}]
      /\ notify' = Send(notify, Ringable(u), Ring(c, u))
  BY <1>0, <1>1 DEF Dial, TableTypeOK
<1>4. /\ OnlyActs(s) /\ armed' = armed
  BY <1>0, <1>3 DEF OnlyActs, LobbyDial, PhoneDial, Live, SetApp, LaunchApp,
                    PhoneInv, TypeInv, ScreensOK
<1>5. /\ Live(s) /\ launching[s] = {} /\ app[s].call = NoCall
      /\ app[s].incoming = NoCall
      /\ \/ app'[s] = app[s] /\ launching'[s] = {CallingApp(c, u)}
         \/ /\ launching'[s] = {}
            /\ app'[s].st = "pending" /\ app'[s].call = c /\ app'[s].incoming = NoCall
  <2>1. CASE LobbyDial(s, u, c)
    <3>1. /\ Live(s) /\ mode[s] = "lobby" /\ Settled(s) /\ ~Busy(s)
          /\ app' = app /\ LaunchApp(s, CallingApp(c, u))
      BY <2>1 DEF LobbyDial, AtLobby, Settled
    <3>2. launching[s] = {} /\ app[s] = IdleApp
      BY <3>1, CalmParts
    <3>3. QED
      BY <1>0, <3>1, <3>2 DEF LaunchApp, IdleApp
  <2>2. CASE PhoneDial(s, u, c)
    <3>1. /\ Live(s) /\ mode[s] = "app" /\ app[s].st = "idle" /\ app[s].incoming = NoCall
          /\ SetApp(s, [app[s] EXCEPT !.st = "pending", !.call = c, !.peers = {u}])
          /\ launching' = launching
      BY <1>0, <2>2 DEF PhoneDial, InPhone
    <3>2. launching[s] = {}
      BY <3>1, CalmParts
    <3>3. QED
      BY <1>0, <3>1, <3>2 DEF SetApp, Shaped, Showing, App
  <2>3. QED
    BY <2>1, <2>2
<1>6. \A d \in CallIds : s \notin parts[d]
  BY <1>0, <1>5, NoCallShown
<1>7. Quiet(notify'[s], c)
  <2>1. notify[s] \in Mailbox
    BY <1>0 DEF Maildir
  <2>2. Quiet(notify[s], c)
    BY <1>0, <1>3 DEF Quiet, QueuesOK, EventOK, EventsOf
  <2>3. /\ Extends(notify[s], notify'[s])
        /\ \A j \in Len(notify[s]) + 1 .. Len(notify'[s]) :
             notify'[s][j].type = "ring"
    BY <1>0, <1>3, SendExtends DEF Ring
  <2>4. QED
    BY <2>2, <2>3, QuietExtends DEF Ends, Fates
<1>8. CalmScreen(s)'
  <2>1. /\ CallingApp(c, u).st = "pending" /\ CallingApp(c, u).call = c
    BY DEF CallingApp, IdleApp
  <2>2. /\ s \in parts'[c] /\ \A d \in CallIds : s \in parts'[d] => d = c
    BY <1>0, <1>3, <1>6 DEF TableTypeOK
  <2>3. Shows(s, c)'
    BY <1>5, <2>1 DEF Shows
  <2>4. Waits(s, app[s])' /\ \A a \in launching'[s] : Waits(s, a)'
    BY <1>0, <1>3, <1>5, <1>7, <2>1, <2>2 DEF Waits, Shaped, Showing
  <2>5. phase'[s] # "new"
    BY <1>3, <1>5 DEF Live
  <2>6. QED
    BY <1>0, <1>4, <1>5, <2>1, <2>2, <2>3, <2>4, <2>5 DEF CalmScreen
<1>9. QED
  BY <1>0, <1>2, <1>3, <1>4, <1>8, OthersCalm DEF CalmScreens

(* The table steps in which nobody joins a call but s, and s a new one.    *)
LEMMA AnswerServes ==
  ASSUME CalmState, NEW s \in Sessions, NEW c \in CallIds, Answer(s, c), RungBy(s, c)
  PROVE  /\ TableStep /\ \A r \in Sessions : Keeps(r) /\ Serves(r)
         /\ \A r \in Sessions, d \in CallIds : Joins(r, d) => r = s /\ d = c
         /\ phase' = phase
<1>0. TableOK /\ notify \in Maildir /\ TableInv /\ Room
  BY CalmParts
<1>1. CASE AnswerDial(s, c)
  BY <1>0, <1>1, AnswerDialKeeps, AnswerDialServes DEF AnswerDial
<1>2. CASE AnswerAdd(s, c)
  BY <1>0, <1>2, AnswerAddKeeps, AnswerAddServes DEF AnswerAdd
<1>3. QED
  BY <1>1, <1>2 DEF Answer

(* ANSWER: the screen of s, or the launch to come, shows the call that it  *)
(* joins, and it was in none before.                                       *)
LEMMA AnswerCalm ==
  ASSUME CalmState, NEW s \in Sessions, NEW c \in CallIds, Answer(s, c), RungBy(s, c),
         Live(s), ~Busy(s), NEW a \in App, AfterAnswer(s, AnsweringApp(a, c)),
         app[s].st = "idle", mode[s] = "lobby" => Settled(s),
         UNCHANGED <<doors, mode, prompt, armed>>
  PROVE  CalmScreens'
<1> USE PhoneAssumption
<1> DEFINE b == AnsweringApp(a, c)
           d == AnsweredApp(b, PeersOf(s, b.call))
<1>0. /\ PhoneInv /\ CalmScreens /\ CalmScreen(s) /\ TableTypeOK
      /\ app \in [Sessions -> App] /\ launching \in [Sessions -> SUBSET App]
      /\ mode[s] \in {"lobby", "app"} /\ launching[s] = {} /\ app[s].call = NoCall
  BY CalmParts DEF CalmState, Shaped, Showing
<1>1. /\ TableStep /\ \A r \in Sessions : Keeps(r) /\ Serves(r)
      /\ \A r \in Sessions, k \in CallIds : Joins(r, k) => r = s /\ k = c
      /\ phase' = phase
  BY AnswerServes
<1>2. OnlyActs(s)
  BY <1>0, <1>1 DEF OnlyActs, AfterAnswer, ShowList, Live, SetApp, LaunchApp
<1>3. \A k \in CallIds : s \notin parts[k]
  BY <1>0, NoCallShown
<1>4. /\ b.st = "answered" /\ b.call = c /\ b.incoming = NoCall
      /\ d.st = "active" /\ d.call = c /\ d.incoming = NoCall
      /\ IdleApp.st = "idle" /\ IdleApp.incoming = NoCall
  BY DEF AnsweringApp, AnsweredApp, IdleApp, App
<1>5. \/ app'[s] \in {b, d} /\ launching'[s] = {}
      \/ app'[s] = IdleApp /\ launching'[s] = {d}
  BY <1>0 DEF AfterAnswer, ShowList, SetApp, LaunchApp
<1> HIDE DEF b, d
<1>6. CalmScreen(s)'
  <2>1. \A k \in CallIds : s \in parts'[k] => k = c
    BY <1>1, <1>3 DEF Joins
  <2>2. Shows(s, c)'
    BY <1>4, <1>5 DEF Shows
  <2>3. Waits(s, app[s])' /\ \A m \in launching'[s] : Waits(s, m)'
    BY <1>4, <1>5 DEF Waits
  <2>4. phase'[s] # "new" /\ armed'[s] <= 1
    BY <1>0, <1>1 DEF Live, CalmScreen
  <2>5. QED
    BY <1>4, <1>5, <2>1, <2>2, <2>3, <2>4 DEF CalmScreen
<1>7. QED
  BY <1>0, <1>1, <1>2, <1>6, OthersCalm DEF CalmScreens

(* The actor shows the call that it showed before.                         *)
LEMMA SameCallCalm ==
  ASSUME CalmState, TableStep, NEW s \in Sessions, OnlyActs(s), Live(s),
         \A r \in Sessions :
           Keeps(r) /\ Serves(r) /\ \A d \in CallIds : ~Joins(r, d),
         phase' = phase, armed' = armed, launching'[s] = launching[s],
         app'[s].st = app[s].st, app'[s].call = app[s].call,
         app'[s].incoming \in {app[s].incoming, NoCall}
  PROVE  CalmScreens'
<1>0. PhoneInv /\ CalmScreens /\ CalmScreen(s)
  BY CalmParts DEF CalmState
<1>1. CalmScreen(s)'
  BY <1>0, CalmKept DEF Live
<1>2. QED
  BY <1>0, <1>1, OthersCalm DEF CalmScreens

LEMMA AnswersCalm ==
  ASSUME CalmState, NEW s \in Sessions, LobbyAnswer(s) \/ PhoneAnswer(s)
  PROVE  CalmScreens'
<1> USE PhoneAssumption
<1>0. /\ TableOK /\ TableTypeOK /\ notify \in Maildir /\ TableInv
      /\ Screen(s) /\ app[s] \in App /\ CalmScreen(s)
      /\ prompt[s] \in CallIds \union {NoCall}
      /\ app[s].incoming \in CallIds \union {NoCall}
      /\ app \in [Sessions -> App]
      /\ mode[s] = "lobby" /\ ~Busy(s) => app[s] = IdleApp
  BY CalmParts
<1>1. CASE LobbyAnswer(s)
  <2>1. /\ prompt[s] \in CallIds /\ Answer(s, prompt[s]) /\ RungBy(s, prompt[s])
        /\ Live(s) /\ ~Busy(s) /\ Settled(s) /\ mode[s] = "lobby"
        /\ AfterAnswer(s, AnsweringApp(IdleApp, prompt[s]))
        /\ UNCHANGED <<doors, mode, prompt, armed>>
    BY <1>0, <1>1 DEF LobbyAnswer, AtLobby, Settled, Screen
  <2>2. IdleApp \in App /\ app[s].st = "idle"
    BY <1>0, <2>1 DEF IdleApp, App
  <2>3. QED
    BY <2>1, <2>2, AnswerCalm
<1>2. CASE /\ PhoneAnswer(s) /\ Answer(s, app[s].incoming)
           /\ AfterAnswer(s, AnsweringApp(app[s], app[s].incoming))
  <2>1. /\ app[s].incoming \in CallIds /\ RungBy(s, app[s].incoming)
        /\ Live(s) /\ ~Busy(s) /\ mode[s] = "app"
        /\ UNCHANGED <<doors, mode, prompt, armed>>
    BY <1>0, <1>2 DEF PhoneAnswer, InPhone, Busy, Screen
  <2>2. app[s].st = "idle"
    BY <2>1 , <1>0 DEF CalmScreen
  <2>3. QED
    BY <1>0, <1>2, <2>1, <2>2, AnswerCalm
<1>3. CASE /\ PhoneAnswer(s)
           /\ SetApp(s, [app[s] EXCEPT !.incoming = NoCall])
           /\ UNCHANGED <<regVars, tableVars, launching>>
  <2>1. /\ Live(s) /\ UNCHANGED <<doors, mode, prompt, armed>>
    BY <1>3 DEF PhoneAnswer, InPhone
  <2>2. TableStep /\ \A r \in Sessions : Keeps(r)
    BY <1>0, <1>3, QuietKeeps DEF regVars, tableVars
  <2>3. \A r \in Sessions : Serves(r) /\ \A d \in CallIds : ~Joins(r, d)
    BY <1>0, <1>3, SameQueue, QuietServes DEF regVars, tableVars
  <2>4. OnlyActs(s) /\ phase' = phase
    BY <1>0, <1>3, <2>1 DEF OnlyActs, Live, SetApp, regVars
  <2>5. /\ app'[s].st = app[s].st /\ app'[s].call = app[s].call
        /\ app'[s].incoming = NoCall
    BY <1>0, <1>3 DEF SetApp, App
  <2>6. QED
    BY <1>3, <2>1, <2>2, <2>3, <2>4, <2>5, SameCallCalm
<1>4. QED
  BY <1>1, <1>2, <1>3 DEF PhoneAnswer

LEMMA RejectCalm ==
  ASSUME CalmState, NEW s \in Sessions, LobbyReject(s) \/ PhoneReject(s)
  PROVE  CalmScreens'
<1> USE PhoneAssumption, RegistryAssumption
<1>0. /\ TableOK /\ TableTypeOK /\ notify \in Maildir /\ TableInv /\ Room
      /\ PhoneInv /\ CalmScreens
      /\ app[s] \in App /\ Owner[s] \in Users /\ app \in [Sessions -> App]
      /\ prompt[s] \in CallIds \union {NoCall}
      /\ app[s].incoming \in CallIds \union {NoCall}
  BY CalmParts DEF CalmState
<1>1. ASSUME NEW c \in CallIds, Reject(Owner[s], c)
      PROVE  /\ TableStep /\ phase' = phase
             /\ \A r \in Sessions :
                  Keeps(r) /\ Serves(r) /\ \A d \in CallIds : ~Joins(r, d)
  <2>1. \A r \in Sessions : Serves(r) /\ \A d \in CallIds : ~Joins(r, d)
    BY <1>0, <1>1, RejectServes
  <2>2. CASE RejectDial(Owner[s], c)
    BY <1>0, <2>1, <2>2, RejectDialKeeps DEF RejectDial
  <2>3. CASE RejectAdd(Owner[s], c)
    <3>1. state[c] # "unused"
      BY <2>3 DEF RejectAdd
    <3>2. QED
      BY <1>0, <2>1, <2>3, <3>1, WithdrawKeeps DEF RejectAdd
  <2>4. QED
    BY <1>1, <2>2, <2>3 DEF Reject
<1>2. CASE LobbyReject(s)
  <2>1. prompt[s] \in CallIds /\ Reject(Owner[s], prompt[s]) /\ UNCHANGED uiVars
    BY <1>0, <1>2 DEF LobbyReject
  <2>2. QED
    BY <1>0, <1>1, <2>1, IdleCalm DEF Live
<1>3. CASE PhoneReject(s)
  <2>1. /\ Live(s) /\ app[s].incoming \in CallIds
        /\ SetApp(s, [app[s] EXCEPT !.incoming = NoCall])
        /\ UNCHANGED <<doors, mode, prompt, launching, armed>>
    BY <1>0, <1>3 DEF PhoneReject, InPhone
  <2>2. /\ TableStep /\ phase' = phase
        /\ \A r \in Sessions :
             Keeps(r) /\ Serves(r) /\ \A d \in CallIds : ~Joins(r, d)
    <3>1. CASE Reject(Owner[s], app[s].incoming)
      BY <1>1, <2>1, <3>1
    <3>2. CASE UNCHANGED <<regVars, tableVars>>
      BY <1>0, <3>2, QuietKeeps, SameQueue, QuietServes DEF regVars, tableVars
    <3>3. QED
      BY <1>3, <3>1, <3>2 DEF PhoneReject
  <2>3. OnlyActs(s)
    BY <1>0, <2>1, <2>2 DEF OnlyActs, Live, SetApp
  <2>4. /\ app'[s].st = app[s].st /\ app'[s].call = app[s].call
        /\ app'[s].incoming = NoCall
    BY <1>0, <2>1 DEF SetApp, App
  <2>5. QED
    BY <2>1, <2>2, <2>3, <2>4, SameCallCalm
<1>4. QED
  BY <1>2, <1>3

LEMMA InviteCalm ==
  ASSUME CalmState, NEW s \in Sessions,
         PhoneCancelAdd(s) \/ \E u \in Users : PhoneAdd(s, u)
  PROVE  CalmScreens'
<1> USE PhoneAssumption, RegistryAssumption
<1>0. /\ TableOK /\ TableTypeOK /\ notify \in Maildir /\ TableInv
      /\ Screen(s) /\ app \in [Sessions -> App]
      /\ app[s] \in App /\ Shaped(app[s]) /\ Owner[s] \in Users
  BY CalmParts
<1>1. /\ Live(s) /\ app[s].st = "active"
      /\ UNCHANGED <<doors, mode, prompt, launching, armed>>
      /\ \E w \in Users \union {NoUser} : SetApp(s, [app[s] EXCEPT !.target = w])
  BY DEF PhoneCancelAdd, PhoneAdd, InPhone
<1>2. app[s].call \in CallIds /\ state[app[s].call] = "active"
  BY <1>0, <1>1 DEF Shaped, Showing, App, Screen, Claims, Backed
<1>3. ASSUME NEW u \in Users,
             Add(Owner[s], u, app[s].call) \/ CancelAdd(Owner[s], u, app[s].call)
      PROVE  /\ TableStep /\ phase' = phase
             /\ \A r \in Sessions :
                  Keeps(r) /\ Serves(r) /\ \A d \in CallIds : ~Joins(r, d)
  <2>1. TableStep /\ \A r \in Sessions : Keeps(r)
    BY <1>0, <1>2, <1>3, AddKeeps, WithdrawKeeps
  <2>2. \A r \in Sessions : Serves(r) /\ \A d \in CallIds : ~Joins(r, d)
    BY <1>0, <1>2, <1>3, InviteServes
  <2>3. QED
    BY <1>3, <2>1, <2>2 DEF Add, CancelAdd
<1>4. /\ TableStep /\ phase' = phase
      /\ \A r \in Sessions :
           Keeps(r) /\ Serves(r) /\ \A d \in CallIds : ~Joins(r, d)
  <2>1. \E u \in Users :
          Add(Owner[s], u, app[s].call) \/ CancelAdd(Owner[s], u, app[s].call)
    BY <1>0 DEF PhoneCancelAdd, PhoneAdd, App
  <2>2. QED
    BY <1>3, <2>1
<1>5. OnlyActs(s)
  BY <1>0, <1>1, <1>4 DEF OnlyActs, Live, SetApp
<1>6. /\ app'[s].st = app[s].st /\ app'[s].call = app[s].call
      /\ app'[s].incoming = app[s].incoming
  BY <1>0, <1>1 DEF SetApp, App
<1>7. QED
  BY <1>1, <1>4, <1>5, <1>6, SameCallCalm

(* The launch of PHONE, its arrival, and the second half of ANSWER.        *)
LEMMA LaunchCalm ==
  ASSUME CalmState, NEW s \in Sessions,
         LobbyPhone(s) \/ Launch(s) \/ ListParticipants(s)
  PROVE  CalmScreens'
<1> USE PhoneAssumption
<1>0. /\ TableOK /\ TableTypeOK /\ notify \in Maildir /\ TableInv
      /\ PhoneInv /\ CalmScreens /\ CalmScreen(s) /\ Screen(s)
      /\ mode[s] \in {"lobby", "app"} /\ app[s] \in App /\ Shaped(app[s])
      /\ app \in [Sessions -> App] /\ launching \in [Sessions -> SUBSET App]
      /\ mode \in [Sessions -> {"lobby", "app"}]
      /\ mode[s] = "app" \/ Busy(s) => launching[s] = {}
      /\ mode[s] = "lobby" /\ ~Busy(s) => app[s] = IdleApp
      /\ Settled(s) => launching[s] = {}
      /\ ~Open("otherApps") /\ ~Open("slowLaunch")
  BY CalmParts DEF CalmState
<1>1. UNCHANGED <<doors, regVars, tableVars, armed>> /\ Live(s)
  BY DEF LobbyPhone, Launch, AtLobby, ListParticipants
<1>2. TableStep /\ \A r \in Sessions : Keeps(r)
  BY <1>0, <1>1, QuietKeeps DEF regVars, tableVars
<1>3. \A r \in Sessions : Serves(r) /\ \A d \in CallIds : ~Joins(r, d)
  BY <1>0, <1>1, SameQueue, QuietServes DEF regVars, tableVars
<1>4. OnlyActs(s)
  BY <1>0, <1>1 DEF OnlyActs, LobbyPhone, Launch, ListParticipants, ShowList,
                    SetApp, LaunchApp, Live, regVars, PhoneInv, TypeInv, ScreensOK
<1>5. IdleApp.st = "idle" /\ IdleApp.call = NoCall /\ IdleApp.incoming = NoCall
  BY DEF IdleApp
<1>6. CalmScreen(s)'
  <2>1. SUFFICES /\ app'[s].incoming # NoCall => app'[s].st = "idle"
                 /\ app'[s].st \notin {"other", "forced"}
                 /\ \A a \in launching'[s] : a.st # "other"
                 /\ \A c \in CallIds : Shows(s, c) => Shows(s, c)'
                 /\ Waits(s, app[s])' /\ \A a \in launching'[s] : Waits(s, a)'
    BY <1>0, <1>1 DEF CalmScreen, Live, regVars, tableVars
  <2>2. CASE LobbyPhone(s)
    <3>1. app'[s] = app[s] /\ launching'[s] = {IdleApp} /\ launching[s] = {}
          /\ app[s] = IdleApp
      BY <1>0, <2>2 DEF LobbyPhone, AtLobby, LaunchApp, Settled
    <3>2. QED
      BY <1>5, <3>1 DEF Shows, Waits
  <2>3. CASE Launch(s)
    <3>1. PICK a \in launching[s] :
            /\ launching'[s] = launching[s] \ {a}
            /\ mode[s] = "lobby" => app'[s] = a
      BY <1>0, <2>3 DEF Launch
    <3>2. ~Busy(s) /\ mode[s] = "lobby" /\ app[s] = IdleApp
      BY <1>0, <2>3, <3>1 DEF Launch
    <3>3. launching[s] = {a}
      BY <1>0, <3>1 DEF Screen, OneLaunch
    <3>4. a.incoming = NoCall /\ a.st \notin {"other", "forced"} /\ Waits(s, a)
      BY <1>0, <3>1 DEF Screen, ScreenShape, CalmScreen
    <3>5. Waits(s, app[s])'
      BY <1>1, <3>1, <3>2, <3>4 DEF Waits, regVars, tableVars
    <3>6. QED
      BY <1>5, <3>1, <3>2, <3>3, <3>4, <3>5 DEF Shows
  <2>4. CASE ListParticipants(s)
    <3> DEFINE d == AnsweredApp(app[s], PeersOf(s, app[s].call))
    <3>1. /\ d.st = "active" /\ d.call = app[s].call /\ d.incoming = app[s].incoming
          /\ app[s].incoming = NoCall /\ launching[s] = {}
      BY <1>0, <2>4 DEF ListParticipants, Screen, ScreenShape, AnsweredApp, App
    <3>2. \/ app'[s] = d /\ launching'[s] = {}
          \/ app'[s] = IdleApp /\ launching'[s] = {d}
      BY <1>0, <2>4, <3>1 DEF ListParticipants, ShowList, SetApp, LaunchApp
    <3> HIDE DEF d
    <3>3. QED
      BY <1>5, <3>1, <3>2 DEF Shows, Waits
  <2>5. QED
    BY <2>1, <2>2, <2>3, <2>4
<1>7. \A r \in Sessions : armed'[r] = armed[r] /\ phase'[r] = phase[r]
  BY <1>1 DEF regVars
<1>8. QED
  BY <1>0, <1>2, <1>3, <1>4, <1>6, <1>7, OthersCalm DEF CalmScreens

(* The screen of s goes idle and s leaves the call that it showed, the only*)
(* one that it was in.                                                     *)
LEMMA HangupLeaves ==
  ASSUME CalmState, NEW s \in Sessions, Live(s), launching[s] = {},
         NEW queues \in Maildir, \A r \in Sessions : r # s => queues[r] = notify[r],
         HangupShown(s, queues)
  PROVE  /\ \A r \in Sessions : r # s => Serves(r)
         /\ \A r \in Sessions, d \in CallIds : ~Joins(r, d)
         /\ \A d \in CallIds : s \notin parts'[d]
<1>0. /\ TableOK /\ notify \in Maildir /\ CallShape /\ CalmScreen(s)
      /\ app[s] \in App
  BY CalmParts
<1>1. \A d \in CallIds : s \in parts[d] => d = app[s].call
  BY <1>0 DEF CalmScreen, Shows
<1>2. CASE /\ app[s].call \in CallIds
           /\ s \in parts[app[s].call]
           /\ HangupLocked(app[s].call, s, queues)
  <2>1. /\ \A r \in Sessions : r # s => Serves(r)
        /\ \A r \in Sessions, d \in CallIds : ~Joins(r, d)
        /\ s \notin parts'[app[s].call]
    BY <1>0, <1>2, LeaveServes
  <2>2. QED
    BY <1>1, <2>1 DEF Joins
<1>3. CASE /\ app[s].call \in CallIds => s \notin parts[app[s].call]
           /\ notify' = queues
           /\ UNCHANGED <<state, callee, parts, invites>>
  <2>1. \A d \in CallIds : s \notin parts'[d]
    BY <1>1, <1>3
  <2>2. \A r \in Sessions : r # s => Serves(r)
    BY <1>0, <1>3, SameQueue, QuietServes
  <2>3. QED
    BY <1>3, <2>1, <2>2 DEF Joins
<1>4. QED
  BY <1>2, <1>3 DEF HangupShown

LEMMA LeftCalm ==
  ASSUME CalmState, TableStep, NEW s \in Sessions, OnlyActs(s), Live(s),
         \A r \in Sessions : r # s => Keeps(r) /\ Serves(r),
         \A r \in Sessions, d \in CallIds : ~Joins(r, d),
         \A d \in CallIds : s \notin parts'[d],
         phase' = phase, armed' = armed,
         launching[s] = {}, launching'[s] = {},
         app'[s].st = "idle"
  PROVE  CalmScreens'
<1>0. PhoneInv /\ CalmScreens /\ CalmScreen(s)
  BY CalmParts DEF CalmState
<1>1. CalmScreen(s)'
  BY <1>0 DEF CalmScreen, Waits, Live
<1>2. QED
  BY <1>0, <1>1, OthersCalm DEF CalmScreens

LEMMA HangupCalm ==
  ASSUME CalmState, NEW s \in Sessions, PhoneHangup(s) \/ PhoneExit(s)
  PROVE  CalmScreens'
<1>0. /\ notify \in Maildir /\ PhoneInv /\ CalmScreen(s) /\ ~Open("reopen")
      /\ app \in [Sessions -> App] /\ launching \in [Sessions -> SUBSET App]
      /\ mode[s] = "app" => launching[s] = {}
  BY CalmParts DEF CalmState
<1>1. PhoneHangup(s)
  BY <1>0 DEF PhoneExit, InPhone, CalmScreen
<1>2. /\ HangupShown(s, notify) /\ Live(s) /\ mode[s] = "app"
      /\ SetApp(s, GoIdle(app[s]))
      /\ UNCHANGED <<doors, phase, ticked, mode, prompt, launching, armed>>
  BY <1>1 DEF PhoneHangup
<1>3. /\ TableStep /\ \A r \in Sessions : r # s => Keeps(r)
  BY <1>0, <1>2, HangupKeeps
<1>4. /\ \A r \in Sessions : r # s => Serves(r)
      /\ \A r \in Sessions, d \in CallIds : ~Joins(r, d)
      /\ \A d \in CallIds : s \notin parts'[d]
  BY <1>0, <1>2, HangupLeaves
<1>5. OnlyActs(s)
  BY <1>0, <1>2 DEF OnlyActs, Live, SetApp
<1>6. app'[s].st = "idle"
  BY <1>0, <1>2 DEF SetApp, GoIdle, IdleApp
<1>7. QED
  BY <1>0, <1>2, <1>3, <1>4, <1>5, <1>6, LeftCalm

(* The event at the head of the queue, to one who waits.                   *)
LEMMA WaitsHead ==
  ASSUME CallShape, NEW s \in Sessions, notify[s] \in Mailbox,
         1 \in 1 .. Len(notify[s]), NEW a \in App, Shaped(a), a.st = "pending",
         Waits(s, a)
  PROVE  /\ notify[s][1].call = a.call =>
              /\ notify[s][1].type # "hangup"
              /\ notify[s][1].type \in {"reject", "gone", "unavailable"} =>
                   s \notin parts[a.call]
         /\ /\ notify[s][1].call = a.call => notify[s][1].type \notin Fates
            /\ notify'[s] = Without(notify[s], 1)
            /\ UNCHANGED <<state, parts>>
            => Waits(s, a)'
<1> USE PhoneAssumption
<1> DEFINE q == notify[s]
           c == a.call
<1>0. c \in CallIds /\ {"answer"} \in SUBSET Ends /\ Fates \in SUBSET Ends
  BY DEF Shaped, Showing, App, Ends, Fates
<1>1. /\ Quiet(q, c) => /\ Quiet(Without(q, 1), c)
                        /\ q[1].call = c => q[1].type \notin Ends
      /\ \A types \in {{"answer"}, Fates} :
           First(q, c, types) =>
             \/ q[1].call = c /\ q[1].type \in types
             \/ /\ q[1].call = c => q[1].type \notin Ends
                /\ First(Without(q, 1), c, types)
  BY <1>0, HeadTaken
<1>2. CASE state[c] = "pending" /\ s \in parts[c] /\ Quiet(q, c)
  BY <1>1, <1>2 DEF Waits, Ends, Fates
<1>3. CASE state[c] = "active" /\ s \in parts[c] /\ First(q, c, {"answer"})
  BY <1>1, <1>3 DEF Waits, Ends, Fates
<1>4. CASE state[c] = "over" /\ First(q, c, Fates)
  <2>1. s \notin parts[c]
    BY <1>0, <1>4 DEF CallShape, Exists
  <2>2. q[1].call = c => q[1].type # "hangup"
    BY <1>1, <1>4 DEF Ends, Fates
  <2>3. (q[1].call = c => q[1].type \notin Fates) => First(Without(q, 1), c, Fates)
    BY <1>1, <1>4
  <2>4. QED
    BY <1>4, <2>1, <2>2, <2>3 DEF Waits
<1>5. QED
  BY <1>2, <1>3, <1>4 DEF Waits

(* handlePhoneEvent with the event at the head of the queue.               *)
LEMMA CalmEvent ==
  ASSUME CalmState, NEW s \in Sessions, ~Busy(s), 1 \in 1 .. Len(notify[s]),
         NEW e, e = notify[s][1], NEW b, b = AppAfter(Owner[s], app[s], e),
         ~LastPeerLeft(app[s], e),
         app'[s] = b, notify'[s] = Without(notify[s], 1),
         UNCHANGED <<state, parts>>
  PROVE  /\ b.incoming # NoCall => b.st = "idle"
         /\ b.st \notin {"other", "forced"}
         /\ \/ b.call = app[s].call
            \/ app[s].call \in CallIds /\ s \notin parts[app[s].call]
         /\ Waits(s, app[s])'
<1> USE PhoneAssumption
<1>a. PICK a : a = app[s]
  OBVIOUS
<1>0. /\ CallShape /\ a \in App /\ Shaped(a) /\ notify[s] \in Mailbox
      /\ a.incoming # NoCall => a.st = "idle"
      /\ a.st \in {"idle", "pending", "active"} /\ Waits(s, a)
  BY <1>a, CalmParts DEF CalmScreen, Maildir, Busy, App
<1>1. e \in Sent /\ e.call \in CallIds /\ e.type \in EventTypes
  BY <1>a, <1>0, ElementOfSeq DEF Mailbox, Sent, Event
<1>2. GoIdle(a).st = "idle" /\ GoIdle(a).call = NoCall /\ GoIdle(a).incoming = NoCall
  BY DEF GoIdle, IdleApp
<1>3. a.st = "pending" =>
        /\ e.call = a.call =>
             /\ e.type # "hangup"
             /\ e.type \in {"reject", "gone", "unavailable"} => s \notin parts[a.call]
        /\ (e.call = a.call => e.type \notin Fates) => Waits(s, a)'
  BY <1>a, <1>0, WaitsHead
<1>4. ASSUME b.st = a.st, b.call = a.call,
             a.st = "pending" /\ e.call = a.call => e.type \notin Fates
      PROVE  Waits(s, app[s])'
  <2>1. CASE a.st = "pending"
    <3>1. Waits(s, a)'
      BY <1>a, <1>3, <1>4, <2>1
    <3>2. QED
      BY <1>a, <1>4, <3>1 DEF Waits
  <2>2. CASE a.st # "pending"
    BY <1>a, <1>4, <2>2 DEF Waits
  <2>3. QED
    BY <2>1, <2>2
<1>5. CASE e.type = "ring"
  <2>1. b = OnRing(a, e)
    BY <1>a, <1>5 DEF AppAfter
  <2>2. /\ b.st = a.st /\ b.call = a.call
        /\ b.incoming = a.incoming \/ a.st = "idle"
    BY <1>a, <1>0, <2>1 DEF OnRing, App
  <2>3. QED
    BY <1>a, <1>0, <1>4, <1>5, <2>2 DEF Fates
<1>6. CASE e.type \in {"elsewhere", "ringing"}
  <2>1. b = a \/ b = Dismiss(a)
    BY <1>a, <1>6 DEF AppAfter, OnElsewhere
  <2>2. b.st = a.st /\ b.call = a.call /\ b.incoming \in {a.incoming, NoCall}
    BY <1>a, <1>0, <2>1 DEF Dismiss, App
  <2>3. QED
    BY <1>a, <1>0, <1>4, <1>6, <2>2 DEF Fates
<1>7. CASE e.type = "hangup"
  <2>1. ~(a.st = "pending" /\ e.call = a.call)
    BY <1>a, <1>3, <1>7
  <2>2. b \in {a, Dismiss(a), Departs(Owner[s], a, e.from)}
    BY <1>a, <1>7, <2>1 DEF AppAfter, OnHangup
  <2>3. b.st = a.st /\ b.call = a.call /\ b.incoming \in {a.incoming, NoCall}
    <3>1. PICK n : n = Departs(Owner[s], a, e.from)
      OBVIOUS
    <3>2. SameButNames(n, a)
      BY <1>0, <3>1, DepartsNames
    <3>3. QED
      BY <1>0, <2>2, <3>1, <3>2 DEF Dismiss, App, SameButNames
  <2>4. QED
    BY <1>a, <1>0, <1>4, <2>1, <2>3
<1>8. CASE e.type = "answer"
  <2>1. b = OnAnswer(Owner[s], a, e)
    BY <1>a, <1>8 DEF AppAfter
  <2>2. CASE a.st = "pending" /\ e.call = a.call
    <3>1. b.st = "active" /\ b.call = a.call /\ b.incoming = a.incoming
      BY <1>a, <1>0, <2>1, <2>2 DEF OnAnswer, App
    <3>2. QED
      BY <1>a, <1>0, <2>2, <3>1 DEF Waits
  <2>3. CASE a.st = "active" /\ e.call = a.call
    <3>1. PICK n : n = Joined(Owner[s], a, e.to)
      OBVIOUS
    <3>2. n \in App /\ SameButNames(n, a)
      <4>1. e.to \in Users
        BY <1>1, <1>8 DEF Sent
      <4>2. QED
        BY <1>a, <1>0, <3>1, <4>1, JoinedNames
    <3>3. b.st = a.st /\ b.call = a.call /\ b.incoming = a.incoming
      BY <2>1, <2>3, <3>1, <3>2 DEF OnAnswer, Forget, App, SameButNames
    <3>4. QED
      BY <1>a, <1>0, <1>4, <2>3, <3>3
  <2>4. CASE ~(a.st \in {"pending", "active"} /\ e.call = a.call)
    <3>1. b = a
      BY <2>1, <2>4 DEF OnAnswer
    <3>2. QED
      BY <1>a, <1>0, <1>4, <2>4, <3>1
  <2>5. QED
    BY <2>2, <2>3, <2>4
<1>9. CASE e.type \in {"reject", "gone", "unavailable"}
  <2>1. b = OnRefused(a, e)
    BY <1>a, <1>9 DEF AppAfter
  <2>2. CASE e.call # a.call \/ a.st = "active"
    <3>1. b.st = a.st /\ b.call = a.call /\ b.incoming = a.incoming
      BY <1>a, <1>0, <2>1, <2>2 DEF OnRefused, Forget, App
    <3>2. QED
      BY <1>a, <1>0, <1>4, <2>2, <3>1
  <2>3. CASE e.call = a.call /\ a.st # "active"
    <3>1. b = GoIdle(a)
      BY <2>1, <2>3 DEF OnRefused
    <3>2. a.st = "pending"
      BY <1>a, <1>0, <1>1, <2>3 DEF Shaped, Showing
    <3>3. a.call \in CallIds /\ s \notin parts[a.call]
      BY <1>a, <1>1, <1>3, <1>9, <2>3, <3>2
    <3>4. QED
      BY <1>a, <1>2, <3>1, <3>3 DEF Waits
  <2>4. QED
    BY <2>2, <2>3
<1>10. QED
  BY <1>a, <1>1, <1>5, <1>6, <1>7, <1>8, <1>9 DEF EventTypes

LEMMA HandleCalm ==
  ASSUME CalmState, NEW s \in Sessions, Handle(s)
  PROVE  CalmScreens'
<1> USE PhoneAssumption
<1>0. /\ TableOK /\ TableTypeOK /\ notify \in Maildir /\ TableInv
      /\ PhoneInv /\ CalmScreens /\ CalmScreen(s)
      /\ mode[s] \in {"lobby", "app"}
      /\ app \in [Sessions -> App] /\ launching \in [Sessions -> SUBSET App]
      /\ armed \in [Sessions -> 0 .. MaxReceivers]
      /\ mode[s] = "lobby" /\ ~Busy(s) => app[s] = IdleApp
      /\ Settled(s) => launching[s] = {}
  BY CalmParts DEF CalmState
<1>1. /\ Live(s) /\ ~Busy(s) /\ launching[s] = {}
      /\ UNCHANGED <<doors, phase, ticked, mode, launching, armed>>
  BY <1>0 DEF Handle, Settled
<1>2. /\ 1 \in Deliverable(s) /\ 1 \in 1 .. Len(notify[s])
      /\ \A i \in Deliverable(s) : i = 1
  <2>1. \A i \in Deliverable(s) : i = 1
    BY <1>0 DEF Deliverable, CalmScreen
  <2>2. QED
    BY <2>1 DEF Handle, Deliverable
<1> DEFINE e == notify[s][1]
           queues == [notify EXCEPT ![s] = Without(notify[s], 1)]
           b == AppAfter(Owner[s], app[s], e)
<1>3. \/ /\ mode[s] = "lobby"
         /\ notify' = queues
         /\ UNCHANGED <<state, callee, parts, invites, app>>
      \/ /\ mode[s] = "app"
         /\ SetApp(s, b)
         /\ IF LastPeerLeft(app[s], e) THEN HangupShown(s, queues)
            ELSE notify' = queues /\ UNCHANGED <<state, callee, parts, invites>>
  BY <1>2 DEF Handle
<1>4. /\ queues \in Maildir /\ queues[s] = Without(notify[s], 1)
      /\ \A r \in Sessions : EventsOf(queues[r]) \subseteq EventsOf(notify[r])
      /\ \A r \in Sessions : r # s => queues[r] = notify[r]
  BY <1>0, <1>2, TakenEvent DEF Maildir
<1>5. OnlyActs(s)
  BY <1>0, <1>1 DEF OnlyActs, Handle, Live, SetApp, PhoneInv, TypeInv, ScreensOK
<1> HIDE DEF queues, b
<1>6. CASE notify' = queues /\ UNCHANGED <<state, callee, parts, invites>>
  <2>1. TableStep /\ \A r \in Sessions : Keeps(r)
    BY <1>0, <1>1, <1>4, <1>6, QuietKeeps
  <2>2. \A r \in Sessions : r # s => Serves(r) /\ \A d \in CallIds : ~Joins(r, d)
    BY <1>0, <1>4, <1>6, SameQueue, QuietServes
  <2>3. CalmScreen(s)'
    <3>1. CASE mode[s] = "lobby"
      BY <1>0, <1>1, <1>3, <1>6, <3>1 DEF CalmScreen, Waits, IdleApp, Live, Shows
    <3>2. CASE mode[s] = "app" /\ ~LastPeerLeft(app[s], e)
      <4>1. app'[s] = b
        BY <1>0, <1>3, <3>2 DEF SetApp
      <4>2. notify'[s] = Without(notify[s], 1)
        BY <1>4, <1>6
      <4>3. /\ b.incoming # NoCall => b.st = "idle"
            /\ b.st \notin {"other", "forced"}
            /\ \/ b.call = app[s].call
               \/ app[s].call \in CallIds /\ s \notin parts[app[s].call]
            /\ Waits(s, app[s])'
        BY <1>1, <1>2, <1>6, <3>2, <4>1, <4>2, CalmEvent DEF b
      <4>4. \A c \in CallIds : s \in parts'[c] => Shows(s, c)'
        BY <1>0, <1>1, <1>6, <4>1, <4>3 DEF CalmScreen, Shows
      <4>5. QED
        BY <1>0, <1>1, <1>6, <4>1, <4>3, <4>4 DEF CalmScreen, Live
    <3>3. CASE mode[s] = "app" /\ LastPeerLeft(app[s], e)
      <4>1. HangupShown(s, queues)
        BY <1>3, <3>3
      <4>2. \A d \in CallIds : s \notin parts'[d]
        BY <1>1, <1>4, <4>1, HangupLeaves
      <4>3. app'[s] = GoIdle(app[s])
        BY <1>0, <1>3, <3>3 DEF b, SetApp, LastPeerLeft, AppAfter, OnHangup
      <4>4. app'[s].st = "idle"
        BY <4>3 DEF GoIdle, IdleApp
      <4>5. QED
        BY <1>0, <1>1, <4>2, <4>4 DEF CalmScreen, Waits, Live
    <3>4. QED
      BY <1>0, <3>1, <3>2, <3>3
  <2>4. QED
    BY <1>0, <1>1, <1>5, <2>1, <2>2, <2>3, OthersCalm DEF CalmScreens
<1>7. CASE mode[s] = "app" /\ LastPeerLeft(app[s], e) /\ HangupShown(s, queues)
  <2>1. TableStep /\ \A r \in Sessions : r # s => Keeps(r)
    BY <1>0, <1>1, <1>4, <1>7, HangupKeeps
  <2>2. /\ \A r \in Sessions : r # s => Serves(r)
        /\ \A r \in Sessions, d \in CallIds : ~Joins(r, d)
        /\ \A d \in CallIds : s \notin parts'[d]
    BY <1>1, <1>4, <1>7, HangupLeaves
  <2>3. app'[s] = GoIdle(app[s])
    BY <1>0, <1>3, <1>7 DEF b, SetApp, LastPeerLeft, AppAfter, OnHangup
  <2>4. app'[s].st = "idle"
    BY <2>3 DEF GoIdle, IdleApp
  <2>5. QED
    BY <1>0, <1>1, <1>5, <2>1, <2>2, <2>4, LeftCalm
<1>8. QED
  BY <1>3, <1>6, <1>7

-----------------------------------------------------------------------------
CalmInv == Calm => CalmScreens

LEMMA InitCalm == Init => CalmInv
<1> SUFFICES ASSUME Init, Calm, NEW r \in Sessions
             PROVE  CalmScreen(r)
  BY DEF CalmInv, CalmScreens
<1>1. /\ armed[r] = 0 /\ launching[r] = {} /\ app[r] = IdleApp
      /\ phase[r] = "new" /\ \A c \in CallIds : parts[c] = {}
  BY DEF Init, RegInit, TableInit
<1>2. QED
  BY <1>1 DEF CalmScreen, Waits, IdleApp

LEMMA NextCalm == PhoneInv /\ CalmInv /\ Room /\ [Next]_vars => CalmInv'
<1> SUFFICES ASSUME PhoneInv, CalmInv, Room, [Next]_vars, Calm'
             PROVE  CalmScreens'
  BY DEF CalmInv
<1>1. doors' = doors
  <2>1. CASE Next
    BY <2>1 DEF Next, Login, Disconnect, Teardown, Handle, Launch, ListParticipants,
                LobbyAnswer, LobbyReject, LobbyPhone, PhoneAnswer, PhoneReject,
                PhoneHangup, PhoneCancelAdd, PhoneExit, PhoneAdd, LobbyDial,
                PhoneDial, TickOf, ReRingOf, uiVars
  <2>2. CASE UNCHANGED vars
    BY <2>2 DEF vars, uiVars
  <2>3. QED
    BY <2>1, <2>2
<1>2. CalmState
  BY <1>1 DEF CalmState, CalmInv, Calm
<1>3. CASE Next
  <2>1. Captured \subseteq Ringers /\ ticked \subseteq Ringers
    BY DEF Captured, PhoneInv, TypeInv, TableOK, TableTypeOK
  <2>2. ASSUME NEW s \in Sessions,
               \/ Login(s) \/ Disconnect(s) \/ Teardown(s)
               \/ Handle(s) \/ Launch(s) \/ ListParticipants(s)
               \/ LobbyAnswer(s) \/ LobbyReject(s) \/ LobbyPhone(s)
               \/ PhoneAnswer(s) \/ PhoneReject(s) \/ PhoneHangup(s)
               \/ PhoneCancelAdd(s) \/ PhoneExit(s)
               \/ \E u \in Users : PhoneAdd(s, u)
               \/ \E u \in Users, c \in CallIds : LobbyDial(s, u, c) \/ PhoneDial(s, u, c)
        PROVE  CalmScreens'
    BY <1>2, <2>2, LifeCalm, HandleCalm, LaunchCalm, AnswersCalm, RejectCalm,
       HangupCalm, InviteCalm, DialCalm
  <2>3. ASSUME NEW g \in Ringers, TickOf(g) \/ ReRingOf(g)
        PROVE  CalmScreens'
    BY <1>2, <2>3, TickerCalm
  <2>4. QED
    BY <1>3, <2>1, <2>2, <2>3 DEF Next
<1>4. CASE UNCHANGED vars
  <2>1. /\ TableTypeOK /\ notify \in Maildir /\ TableInv /\ UNCHANGED uiVars
        /\ CalmScreens /\ phase' = phase /\ notify' = notify
        /\ UNCHANGED <<state, callee, parts, invites, ticked>>
    BY <1>2, <1>4 DEF vars, regVars, tableVars, CalmState, PhoneInv, TypeInv, TableOK
  <2>2. TableStep /\ \A r \in Sessions : Keeps(r)
    BY <2>1, QuietKeeps
  <2>3. \A r \in Sessions : Serves(r) /\ \A d \in CallIds : ~Joins(r, d)
    BY <2>1, SameQueue, QuietServes
  <2>4. QED
    BY <2>1, <2>2, <2>3, IdleCalm DEF Live
<1>5. QED
  BY <1>3, <1>4

LEMMA CalmProved == Spec /\ []Room => [](PhoneInv /\ CalmInv)
BY InitPhone, NextPhone, InitCalm, NextCalm, PTL DEF Spec

(* As long as no event is dropped, a session takes part only in the call   *)
(* that its screen shows or is about to show, whoever dials, answers,      *)
(* hangs up and disconnects meanwhile (doDial, doAnswer, handlePhoneEvent) *)
THEOREM NothingHidden == Spec /\ []Room => [](Calm => NoHiddenCall)
<1>1. CalmInv => (Calm => NoHiddenCall)
  BY DEF CalmInv, CalmScreens, CalmScreen, NoHiddenCall
<1>2. QED
  BY CalmProved, <1>1, PTL

(* Nor is it ever in two calls ("one call per session", the comment in      *)
(* HangupSession, which leaves the first call that it finds).              *)
THEOREM OneCallAtATime == Spec /\ []Room => [](Calm => OneCallPerSession)
<1>1. CalmInv => (Calm => OneCallPerSession)
  BY DEF CalmInv, CalmScreens, CalmScreen, OneCallPerSession
<1>2. QED
  BY CalmProved, <1>1, PTL

(* A caller who waits is in a call that rings, or its channel holds what   *)
(* became of the call (Answer, Reject, ReapUnreachableRings and the ticker *)
(* of Dial, each of which tells the caller in the step that decides).      *)
THEOREM CallerHears == Spec /\ []Room => []CallerIsTold
<1>1. PhoneInv /\ CalmInv => CallerIsTold
  <2> SUFFICES ASSUME PhoneInv, CalmScreens, NEW s \in Sessions,
                      app[s].st = "pending"
               PROVE  \/ state[app[s].call] = "pending" /\ s \in parts[app[s].call]
                      \/ Expects(s, app[s].call, {"answer", "reject", "gone", "unavailable"})
    BY DEF CalmInv, CallerIsTold
  <2>1. Waits(s, app[s])
    BY DEF CalmScreens, CalmScreen
  <2>2. QED
    BY <2>1 DEF Waits, First, Expects, Fates
<1>2. QED
  BY CalmProved, <1>1, PTL

(* No EventHangup of its own call reaches a caller who still waits, for    *)
(* which handlePhoneEvent has no case: it would wait on a call that is     *)
(* over.                                                                   *)
THEOREM NoHangupToWaiting == Spec /\ []Room => []NoHangupWhilePending
<1>1. PhoneInv /\ CalmInv => NoHangupWhilePending
  <2> SUFFICES ASSUME PhoneInv, CalmScreens, NEW s \in Sessions,
                      app[s].st = "pending", NEW i \in Deliverable(s)
               PROVE  ~(notify[s][i].type = "hangup" /\ notify[s][i].call = app[s].call)
    BY DEF CalmInv, NoHangupWhilePending
  <2>1. /\ Waits(s, app[s]) /\ armed[s] <= 1 /\ CallShape /\ notify[s] \in Mailbox
        /\ app[s] \in App /\ Shaped(app[s]) /\ armed[s] \in 0 .. MaxReceivers
    BY ScreenParts DEF CalmScreens, CalmScreen, Maildir, PhoneInv, TypeInv, ScreensOK
  <2>2. i = 1 /\ 1 \in 1 .. Len(notify[s])
    BY <2>1, PhoneAssumption DEF Deliverable
  <2>3. QED
    BY <2>1, <2>2, WaitsHead
<1>2. QED
  BY CalmProved, <1>1, PTL

-----------------------------------------------------------------------------
(* The client and the table together as the switchboard.                   *)
LEMMA CalmSteps ==
  ASSUME CalmState, OneRingPerCallee, [Next]_vars
  PROVE  SwitchStep
<1> USE PhoneAssumption, RegistryAssumption
<1>0. SwitchTable
  BY DEF SwitchTable, CalmState, PhoneInv, TypeInv, TableOK, TableInv
<1>1. ASSUME NEW s \in Sessions, Live(s), app[s].call = NoCall, launching[s] = {}
      PROVE  ~InCall(s)
  BY <1>1, NoCallShown DEF InCall, CalmState
<1>2. ASSUME NEW s \in Sessions, NEW u \in Users, NEW c \in CallIds,
             LobbyDial(s, u, c) \/ PhoneDial(s, u, c)
      PROVE  SwitchStep
  <2>1. Live(s) /\ app[s].call = NoCall /\ launching[s] = {} /\ Dial(s, u, c)
    BY <1>2, CalmParts DEF LobbyDial, PhoneDial, AtLobby, InPhone, Settled, IdleApp,
       Shaped, Showing
  <2>2. QED
    BY <1>0, <1>1, <2>1, PlaceStep
<1>3. ASSUME NEW s \in Sessions, LobbyAnswer(s) \/ PhoneAnswer(s)
      PROVE  SwitchStep
  <2>1. CASE UNCHANGED tableVars
    BY <2>1, SameStep DEF tableVars
  <2>2. ASSUME NEW c \in CallIds, c = prompt[s] \/ c = app[s].incoming, Answer(s, c),
               Live(s), app[s].call = NoCall, launching[s] = {}
        PROVE  SwitchStep
    <3>1. state[c] = "pending" => callee[c] = Owner[s]
      BY <2>2, CalmParts DEF Screen, RungBy
    <3>2. QED
      BY <1>0, <1>1, <2>2, <3>1, JoinStep
  <2>3. CASE LobbyAnswer(s)
    <3>1. /\ prompt[s] \in CallIds /\ Answer(s, prompt[s])
          /\ Live(s) /\ app[s].call = NoCall /\ launching[s] = {}
      BY <2>3, CalmParts DEF LobbyAnswer, AtLobby, Settled, IdleApp
    <3>2. QED
      BY <2>2, <3>1
  <2>4. CASE PhoneAnswer(s) /\ ~UNCHANGED tableVars
    <3>1. /\ app[s].incoming \in CallIds /\ Answer(s, app[s].incoming)
          /\ Live(s) /\ mode[s] = "app" /\ app[s].incoming # NoCall
      BY <2>4, CalmParts DEF PhoneAnswer, InPhone
    <3>2. app[s].call = NoCall /\ launching[s] = {}
      BY <3>1, CalmParts DEF CalmScreen, Shaped, Showing
    <3>3. QED
      BY <2>2, <3>1, <3>2
  <2>5. QED
    BY <1>3, <2>1, <2>3, <2>4
<1>4. ASSUME NEW s \in Sessions, LobbyReject(s) \/ PhoneReject(s)
      PROVE  SwitchStep
  <2>1. CASE UNCHANGED tableVars
    BY <2>1, SameStep DEF tableVars
  <2>2. ASSUME ~UNCHANGED tableVars
        PROVE  \E c \in CallIds : /\ c = prompt[s] \/ c = app[s].incoming
                                  /\ Reject(Owner[s], c)
    BY <1>4, <2>2, CalmParts DEF LobbyReject, PhoneReject
  <2>3. ASSUME NEW c \in CallIds, c = prompt[s] \/ c = app[s].incoming,
               Reject(Owner[s], c)
        PROVE  SwitchStep
    <3>1. state[c] = "pending" => callee[c] = Owner[s]
      BY <2>3, CalmParts DEF Screen, RungBy
    <3>2. QED
      BY <1>0, <2>3, <3>1, RefuseStep
  <2>4. QED
    BY <2>1, <2>2, <2>3
<1>5. ASSUME NEW s \in Sessions, NEW u \in Users, PhoneAdd(s, u)
      PROVE  SwitchStep
  <2>1. app[s].call \in CallIds /\ Add(Owner[s], u, app[s].call)
    BY <1>5, CalmParts DEF PhoneAdd, InPhone, Shaped, Showing, App
  <2>2. QED
    BY <1>0, <2>1, InviteStep
<1>6. ASSUME NEW s \in Sessions, PhoneCancelAdd(s)
      PROVE  SwitchStep
  <2>1. /\ app[s].call \in CallIds /\ app[s].target \in Users
        /\ CancelAdd(Owner[s], app[s].target, app[s].call)
    BY <1>6, CalmParts DEF PhoneCancelAdd, Shaped, Showing, App
  <2>2. state[app[s].call] = "active"
    BY <1>6, CalmParts DEF PhoneCancelAdd, Screen, Claims, Backed
  <2>3. QED
    BY <1>0, <2>1, <2>2, WithdrawStep DEF CancelAdd
<1>7. ASSUME NEW s \in Sessions, NEW q, HangupShown(s, q)
      PROVE  SwitchStep
  <2>1. CASE /\ app[s].call \in CallIds /\ s \in parts[app[s].call]
             /\ HangupLocked(app[s].call, s, q)
    BY <1>0, <2>1, LeaveStep DEF SwitchStep
  <2>2. CASE UNCHANGED <<state, callee, parts, invites>>
    BY <2>2, SameStep
  <2>3. QED
    BY <1>7, <2>1, <2>2 DEF HangupShown
<1>8. ASSUME NEW s \in Sessions, PhoneHangup(s) \/ PhoneExit(s) \/ Handle(s)
      PROVE  SwitchStep
  BY <1>7, <1>8, SameStep DEF PhoneHangup, PhoneExit, Handle
<1>9. ASSUME NEW s \in Sessions, Teardown(s)
      PROVE  SwitchStep
  BY <1>0, <1>9, TeardownStep DEF Teardown
<1>10. ASSUME NEW s \in Sessions, Login(s) \/ Disconnect(s) \/ Launch(s)
                \/ ListParticipants(s) \/ LobbyPhone(s)
       PROVE  SwitchStep
  BY <1>10, SameStep DEF Login, Disconnect, Launch, ListParticipants, LobbyPhone, tableVars
<1>11. ASSUME NEW g, TickOf(g) \/ ReRingOf(g)
       PROVE  SwitchStep
  BY <1>11, SameStep DEF TickOf, ReRingOf, Tick, ReRing
<1>12. CASE UNCHANGED vars
  BY <1>12, SameStep DEF vars, tableVars
<1>13. QED
  BY <1>2, <1>3, <1>4, <1>5, <1>6, <1>8, <1>9, <1>10, <1>11, <1>12 DEF Next

(* As long as no event is dropped, the lobby and the PHONE app of every    *)
(* session use the call table as the switchboard: nobody places or joins a *)
(* call from within another, joins without a ring, or ends another's ring  *)
(* (doDial, doAnswer, doReject, cancelPendingAdd, HangupSession).          *)
THEOREM PhoneRefinement == Spec /\ []Room /\ []Calm => Implements
<1>1. Init => SW!Init /\ OneRingPerCallee
  BY SwitchInit, RegistryAssumption DEF Init, TableInit, OneRingPerCallee, Rings,
     DialRings, AddRings, NoInvites
<1>2. PhoneInv /\ CalmInv /\ Room /\ Calm /\ OneRingPerCallee /\ [Next]_vars
        => [SW!Next]_(SW!swVars) /\ OneRingPerCallee'
  BY CalmSteps, OneRingKept, SwitchNext DEF CalmState, CalmInv
<1>3. QED
  BY CalmProved, <1>1, <1>2, PTL DEF Spec, Implements, SW!Spec

-----------------------------------------------------------------------------
(* The names on screen.  What a queue says about account u and call c:     *)
(* that u joined (an answer) or left (a hangup that names no callee).      *)
Tells(e, c, u) ==
  /\ e.call = c
  /\ \/ e.type = "answer" /\ e.to = u
     \/ e.type = "hangup" /\ e.to = NoUser /\ e.from = u

(* Queue q says nothing of them.                                           *)
Unnamed(q, c, u) == \A i \in 1 .. Len(q) : ~Tells(q[i], c, u)

(* What queue q says last about u and c agrees with the names W.           *)
LastWord(q, c, W, u) ==
  \E i \in 1 .. Len(q) :
    /\ Tells(q[i], c, u)
    /\ \A j \in i .. Len(q) : Tells(q[j], c, u) => (q[j].type = "answer" <=> u \in W)

(* Whoever lists the names V and reads queue q ends by listing u, or not,  *)
(* as W does.                                                              *)
Foretells(q, c, V, W, u) ==
  \/ /\ \A i \in 1 .. Len(q) : ~Tells(q[i], c, u)
     /\ u \in V <=> u \in W
  \/ LastWord(q, c, W, u)

(* The first event that ends the wait for call c is the answer of one of V.*)
Told(q, c, V) ==
  \E j \in 1 .. Len(q) :
    /\ q[j].call = c /\ q[j].type = "answer" /\ q[j].to \in V
    /\ \A i \in 1 .. j - 1 : q[i].call = c => q[i].type \notin Ends

(* What is new in queue n since it was q.                                  *)
New(q, n) == Len(q) + 1 .. Len(n)

LEMMA UnnamedExtends ==
  ASSUME NEW q, NEW n, Extends(q, n), NEW c, NEW u, Unnamed(q, c, u),
         \A j \in New(q, n) : ~Tells(n[j], c, u)
  PROVE  Unnamed(n, c, u)
<1>1. \A j \in 1 .. Len(n) : j \in 1 .. Len(q) \/ j \in New(q, n)
  BY DEF Extends, New
<1>2. QED
  BY <1>1 DEF Extends, Unnamed

LEMMA UnnamedRest ==
  ASSUME NEW q \in Mailbox, 1 \in 1 .. Len(q), NEW c, NEW u, Unnamed(q, c, u)
  PROVE  Unnamed(Without(q, 1), c, u)
<1> DEFINE n == Without(q, 1)
<1>1. /\ Len(q) \in Nat /\ Len(n) = Len(q) - 1
      /\ \A j \in 1 .. Len(q) - 1 : n[j] = q[j + 1]
  BY WithoutTyped, LenProperties DEF Mailbox
<1> HIDE DEF n
<1>2. ASSUME NEW i \in 1 .. Len(n)
      PROVE  ~Tells(n[i], c, u)
  <2>1. i + 1 \in 1 .. Len(q) /\ n[i] = q[i + 1]
    BY <1>1
  <2>2. QED
    BY <2>1 DEF Unnamed
<1>3. QED
  BY <1>2 DEF Unnamed, n

LEMMA ForetellsExtends ==
  ASSUME NEW q, NEW n, Extends(q, n), NEW c, NEW u, NEW V, NEW W, NEW X, NEW Y,
         Foretells(q, c, V, W, u),
         \A j \in New(q, n) : Tells(n[j], c, u) => (n[j].type = "answer" <=> u \in Y),
         \/ (u \in W <=> u \in Y) /\ (u \in V <=> u \in X)
         \/ \E j \in New(q, n) : Tells(n[j], c, u)
  PROVE  Foretells(n, c, X, Y, u)
<1>1. CASE \E j \in New(q, n) : Tells(n[j], c, u)
  <2>1. PICK j \in New(q, n) : Tells(n[j], c, u)
    BY <1>1
  <2>2. j \in 1 .. Len(n) /\ \A k \in j .. Len(n) : k \in New(q, n)
    BY DEF New, Extends
  <2>3. LastWord(n, c, Y, u)
    BY <2>1, <2>2 DEF LastWord
  <2>4. QED
    BY <2>3 DEF Foretells
<1>2. CASE /\ \A j \in New(q, n) : ~Tells(n[j], c, u)
           /\ (u \in W <=> u \in Y) /\ (u \in V <=> u \in X)
  <2>1. \A j \in 1 .. Len(n) : j \in 1 .. Len(q) \/ j \in New(q, n)
    BY DEF Extends, New
  <2>2. CASE /\ \A i \in 1 .. Len(q) : ~Tells(q[i], c, u)
             /\ u \in V <=> u \in W
    <3>1. \A i \in 1 .. Len(n) : ~Tells(n[i], c, u)
      BY <1>2, <2>1, <2>2 DEF Extends
    <3>2. QED
      BY <1>2, <2>2, <3>1 DEF Foretells
  <2>3. CASE LastWord(q, c, W, u)
    <3>1. PICK i \in 1 .. Len(q) :
            /\ Tells(q[i], c, u)
            /\ \A j \in i .. Len(q) : Tells(q[j], c, u) => (q[j].type = "answer" <=> u \in W)
      BY <2>3 DEF LastWord
    <3>2. i \in 1 .. Len(n) /\ Tells(n[i], c, u)
      BY <3>1 DEF Extends
    <3>3. ASSUME NEW j \in i .. Len(n), Tells(n[j], c, u)
          PROVE  n[j].type = "answer" <=> u \in Y
      <4>1. j \in 1 .. Len(q)
        BY <1>2, <2>1, <3>1, <3>2, <3>3 DEF Extends
      <4>2. j \in i .. Len(q) /\ n[j] = q[j]
        BY <3>3, <4>1 DEF Extends
      <4>3. QED
        BY <1>2, <3>1, <3>3, <4>2
    <3>4. QED
      BY <3>2, <3>3 DEF Foretells, LastWord
  <2>4. QED
    BY <2>2, <2>3 DEF Foretells
<1>3. QED
  BY <1>1, <1>2

(* The event at the head of the queue is read: the names change from V to  *)
(* X as it says.                                                           *)
LEMMA ForetellsHead ==
  ASSUME NEW q \in Mailbox, 1 \in 1 .. Len(q), NEW c, NEW u, NEW V, NEW W, NEW X,
         Foretells(q, c, V, W, u),
         Tells(q[1], c, u) => (u \in X <=> q[1].type = "answer"),
         ~Tells(q[1], c, u) => (u \in X <=> u \in V)
  PROVE  Foretells(Without(q, 1), c, X, W, u)
<1> DEFINE n == Without(q, 1)
<1>1. /\ Len(q) \in Nat /\ Len(n) = Len(q) - 1
      /\ \A j \in 1 .. Len(q) - 1 : n[j] = q[j + 1]
  BY WithoutTyped, LenProperties DEF Mailbox
<1> HIDE DEF n
<1>2. CASE \A i \in 1 .. Len(n) : ~Tells(n[i], c, u)
  <2>1. \A i \in 1 .. Len(q) : i = 1 \/ (i - 1 \in 1 .. Len(n) /\ q[i] = n[i - 1])
    BY <1>1
  <2>2. u \in X <=> u \in W
    <3>1. CASE Tells(q[1], c, u)
      <4>1. LastWord(q, c, W, u)
        BY <3>1 DEF Foretells
      <4>2. PICK i \in 1 .. Len(q) :
              /\ Tells(q[i], c, u)
              /\ \A j \in i .. Len(q) : Tells(q[j], c, u) => (q[j].type = "answer" <=> u \in W)
        BY <4>1 DEF LastWord
      <4>3. i = 1 /\ 1 \in i .. Len(q)
        BY <1>1, <1>2, <2>1, <4>2
      <4>4. QED
        BY <3>1, <4>2, <4>3
    <3>2. CASE ~Tells(q[1], c, u)
      <4>1. \A i \in 1 .. Len(q) : ~Tells(q[i], c, u)
        BY <1>2, <2>1, <3>2
      <4>2. u \in V <=> u \in W
        BY <4>1 DEF Foretells, LastWord
      <4>3. QED
        BY <3>2, <4>2
    <3>3. QED
      BY <3>1, <3>2
  <2>3. QED
    BY <1>2, <2>2 DEF Foretells, n
<1>3. CASE \E k \in 1 .. Len(n) : Tells(n[k], c, u)
  <2>1. PICK k \in 1 .. Len(n) : Tells(n[k], c, u)
    BY <1>3
  <2>2. k + 1 \in 1 .. Len(q) /\ n[k] = q[k + 1]
    BY <1>1
  <2>3. LastWord(q, c, W, u)
    BY <2>1, <2>2 DEF Foretells
  <2>4. PICK i \in 1 .. Len(q) :
          /\ Tells(q[i], c, u)
          /\ \A j \in i .. Len(q) : Tells(q[j], c, u) => (q[j].type = "answer" <=> u \in W)
    BY <2>3 DEF LastWord
  <2> DEFINE m == IF i = 1 THEN k ELSE i - 1
  <2>5. m \in 1 .. Len(n) /\ Tells(n[m], c, u)
    BY <1>1, <2>1, <2>4
  <2>6. \A j \in m .. Len(n) : j + 1 \in i .. Len(q) /\ n[j] = q[j + 1]
    BY <1>1, <2>4
  <2> HIDE DEF m
  <2>7. LastWord(n, c, W, u)
    BY <2>4, <2>5, <2>6 DEF LastWord
  <2>8. QED
    BY <2>7 DEF Foretells, n
<1>4. QED
  BY <1>2, <1>3

LEMMA ToldExtends ==
  ASSUME NEW q, NEW n, Extends(q, n), NEW c, NEW V, Told(q, c, V)
  PROVE  Told(n, c, V)
<1>1. PICK j \in 1 .. Len(q) :
        /\ q[j].call = c /\ q[j].type = "answer" /\ q[j].to \in V
        /\ \A i \in 1 .. j - 1 : q[i].call = c => q[i].type \notin Ends
  BY DEF Told
<1>2. j \in 1 .. Len(n) /\ n[j] = q[j] /\ \A i \in 1 .. j - 1 : n[i] = q[i]
  BY <1>1 DEF Extends
<1>3. QED
  BY <1>1, <1>2 DEF Told

LEMMA QuietThenTold ==
  ASSUME NEW q, NEW n, Extends(q, n), NEW c, NEW V, Quiet(q, c),
         Len(q) + 1 <= Len(n), n[Len(q) + 1].call = c,
         n[Len(q) + 1].type = "answer", n[Len(q) + 1].to \in V
  PROVE  Told(n, c, V)
<1>1. \A i \in 1 .. Len(q) : n[i].call = c => n[i].type \notin Ends
  BY DEF Extends, Quiet
<1>2. Len(q) + 1 \in 1 .. Len(n) /\ (Len(q) + 1) - 1 = Len(q)
  BY DEF Extends
<1>3. QED
  BY <1>1, <1>2 DEF Told

LEMMA ToldHead ==
  ASSUME NEW q \in Mailbox, 1 \in 1 .. Len(q), NEW c, NEW V, Told(q, c, V)
  PROVE  \/ q[1].call = c /\ q[1].type = "answer" /\ q[1].to \in V
         \/ /\ q[1].call = c => q[1].type \notin Ends
            /\ Told(Without(q, 1), c, V)
<1> DEFINE n == Without(q, 1)
<1>1. /\ Len(q) \in Nat /\ Len(n) = Len(q) - 1
      /\ \A j \in 1 .. Len(q) - 1 : n[j] = q[j + 1]
  BY WithoutTyped, LenProperties DEF Mailbox
<1> HIDE DEF n
<1>2. PICK j \in 1 .. Len(q) :
        /\ q[j].call = c /\ q[j].type = "answer" /\ q[j].to \in V
        /\ \A i \in 1 .. j - 1 : q[i].call = c => q[i].type \notin Ends
  BY DEF Told
<1>3. CASE j = 1
  BY <1>2, <1>3
<1>4. CASE j # 1
  <2>1. /\ j - 1 \in 1 .. Len(n) /\ n[j - 1] = q[j] /\ 1 \in 1 .. j - 1
        /\ \A i \in 1 .. (j - 1) - 1 : i + 1 \in 1 .. j - 1 /\ n[i] = q[i + 1]
    BY <1>1, <1>2, <1>4
  <2>2. Told(n, c, V)
    BY <1>2, <2>1 DEF Told
  <2>3. QED
    BY <1>2, <2>1, <2>2 DEF n
<1>5. QED
  BY <1>3, <1>4

(* A queue that ends no wait for c says nothing of who is in it.           *)
LEMMA QuietTellsNothing ==
  ASSUME NEW q, NEW c, Quiet(q, c), NEW i \in 1 .. Len(q), NEW u
  PROVE  ~Tells(q[i], c, u)
BY DEF Quiet, Tells, Ends, Fates

(* What the step tells r of account u and call c, in which r stays, is what*)
(* becomes of u in c, and no change is kept from it.                       *)
Heard(r, c, u) ==
  /\ \A j \in New(notify[r], notify'[r]) :
       Tells(notify'[r][j], c, u) =>
         (notify'[r][j].type = "answer" <=> u \in PeersOf(r, c)')
  /\ \/ u \in PeersOf(r, c) <=> u \in PeersOf(r, c)'
     \/ \E j \in New(notify[r], notify'[r]) : Tells(notify'[r][j], c, u)

(* The step announces to r every change in the call that r stays in, and   *)
(* nothing under the name of r; a caller hears first that its callee       *)
(* answered.                                                               *)
Heralds(r) ==
  /\ Extends(notify[r], notify'[r])
  /\ \A c \in CallIds :
       Live(r) /\ r \in parts[c] /\ r \in parts'[c] =>
         /\ callee'[c] = callee[c]
         /\ state[c] = "active" => state'[c] = "active"
         /\ \A u \in Users \ {Owner[r]} : Heard(r, c, u)
         /\ \A j \in New(notify[r], notify'[r]) : ~Tells(notify'[r][j], c, Owner[r])
         /\ state[c] = "pending" /\ state'[c] = "active" =>
              /\ Len(notify[r]) + 1 <= Len(notify'[r])
              /\ notify'[r][Len(notify[r]) + 1].call = c
              /\ notify'[r][Len(notify[r]) + 1].type = "answer"
              /\ notify'[r][Len(notify[r]) + 1].to = callee[c]

(* An event that says nothing of who is in a call.                         *)
Silent(e) == e.type # "answer" /\ (e.type = "hangup" => e.to # NoUser)

LEMMA QuietHeralds ==
  ASSUME NEW r \in Sessions, Extends(notify[r], notify'[r]),
         \A j \in New(notify[r], notify'[r]) : Silent(notify'[r][j]),
         \A c \in CallIds :
           r \in parts[c] /\ r \in parts'[c] =>
             parts'[c] = parts[c] /\ callee'[c] = callee[c] /\ state'[c] = state[c]
  PROVE  Heralds(r)
<1>1. ASSUME NEW c \in CallIds, r \in parts[c], r \in parts'[c], NEW u
      PROVE  /\ Heard(r, c, u)
             /\ \A j \in New(notify[r], notify'[r]) : ~Tells(notify'[r][j], c, u)
  <2>1. \A j \in New(notify[r], notify'[r]) : ~Tells(notify'[r][j], c, u)
    BY DEF Silent, Tells
  <2>2. PeersOf(r, c)' = PeersOf(r, c)
    BY <1>1 DEF PeersOf
  <2>3. QED
    BY <2>1, <2>2 DEF Heard
<1>2. QED
  BY <1>1 DEF Heralds

LEMMA SameHeralds ==
  ASSUME notify \in Maildir, NEW r \in Sessions, notify'[r] = notify[r],
         UNCHANGED <<state, callee, parts>>
  PROVE  Heralds(r)
<1>1. /\ Extends(notify[r], notify'[r])
      /\ New(notify[r], notify'[r]) = {}
  BY SameQueue DEF New
<1>2. QED
  BY <1>1, QuietHeralds

LEMMA DialHeralds ==
  ASSUME TableOK, notify \in Maildir, CallShape,
         NEW s \in Sessions, NEW u \in Users, NEW c \in CallIds, Dial(s, u, c)
  PROVE  \A r \in Sessions : Heralds(r)
<1>0. /\ TableTypeOK /\ state[c] = "unused" /\ parts[c] = {}
      /\ notify' = Send(notify, Ringable(u), Ring(c, u))
      /\ state' = [state EXCEPT ![c] = "pending"]
      /\ callee' = [callee EXCEPT ![c] = u]
      /\ parts' = [parts EXCEPT ![c] = {s}]
  BY DEF TableOK, Dial, CallShape, Exists
<1>1. ASSUME NEW r \in Sessions
      PROVE  /\ Extends(notify[r], notify'[r])
             /\ \A j \in New(notify[r], notify'[r]) : Silent(notify'[r][j])
  BY <1>0, SendExtends DEF Ring, New, Silent
<1>2. QED
  BY <1>0, <1>1, QuietHeralds DEF TableTypeOK

(* The answer of a pending call is told to its caller, who is in it alone. *)
LEMMA AnswerDialHeralds ==
  ASSUME TableOK, notify \in Maildir, Room, CallShape,
         NEW s \in Sessions, NEW c \in CallIds, AnswerDial(s, c),
         Owner[s] = callee[c]
  PROVE  \A r \in Sessions : Heralds(r)
<1> DEFINE e == Answered(c, Owner[s])
           f == Elsewhere(c, Owner[s])
           idle == SessionsOf(Owner[s]) \ {s}
           told == parts[c]
<1>0. /\ TableTypeOK /\ state[c] = "pending" /\ Owner[s] \in Users
      /\ notify' = Send(Send(notify, told, e), idle, f)
      /\ state' = [state EXCEPT ![c] = "active"]
      /\ callee' = callee
      /\ parts' = [parts EXCEPT ![c] = parts[c] \union {s}]
  BY RegistryAssumption DEF TableOK, AnswerDial
<1>1. /\ e \in Sent /\ e.type = "answer" /\ e.call = c /\ e.to = Owner[s]
      /\ f.call = c /\ f.type = "elsewhere"
  BY <1>0, EventsTyped DEF Answered, Elsewhere
<1> HIDE DEF e, f, idle
<1>2. ASSUME NEW r \in Sessions
      PROVE  /\ Extends(notify[r], notify'[r])
             /\ \A j \in New(notify[r], notify'[r]) :
                  notify'[r][j] = e \/ notify'[r][j] = f
             /\ r \in parts[c] /\ Live(r) =>
                  /\ Len(notify'[r]) >= Len(notify[r]) + 1
                  /\ notify'[r][Len(notify[r]) + 1] = e
  BY <1>0, <1>1, TwiceSentExtends DEF Room, New
<1>3. ASSUME NEW r \in Sessions, NEW d \in CallIds, Live(r), r \in parts[d],
             r \in parts'[d]
      PROVE  /\ callee'[d] = callee[d]
             /\ state[d] = "active" => state'[d] = "active"
             /\ \A u \in Users \ {Owner[r]} : Heard(r, d, u)
             /\ \A j \in New(notify[r], notify'[r]) :
                  ~Tells(notify'[r][j], d, Owner[r])
             /\ state[d] = "pending" /\ state'[d] = "active" =>
                  /\ Len(notify[r]) + 1 <= Len(notify'[r])
                  /\ notify'[r][Len(notify[r]) + 1].call = d
                  /\ notify'[r][Len(notify[r]) + 1].type = "answer"
                  /\ notify'[r][Len(notify[r]) + 1].to = callee[d]
  <2>0. Len(notify[r]) \in Nat /\ Len(notify'[r]) \in Nat
    BY <1>2 DEF Extends
  <2>1. CASE d = c
    <3>1. /\ Len(notify[r]) + 1 \in New(notify[r], notify'[r])
          /\ Len(notify[r]) + 1 <= Len(notify'[r])
          /\ notify'[r][Len(notify[r]) + 1] = e
      BY <1>2, <1>3, <2>0, <2>1 DEF New
    <3>2. ASSUME NEW u \in Users \ {Owner[r]}
          PROVE  Heard(r, d, u)
      <4>1. CASE u = Owner[s]
        <5>1. u \in PeersOf(r, c)'
          BY <1>0, <3>2, <4>1 DEF PeersOf, TableTypeOK
        <5>2. \A j \in New(notify[r], notify'[r]) :
                Tells(notify'[r][j], c, u) => notify'[r][j].type = "answer"
          BY <1>1, <1>2 DEF Tells
        <5>3. Tells(notify'[r][Len(notify[r]) + 1], c, u)
          BY <1>1, <3>1, <4>1 DEF Tells
        <5>4. QED
          BY <2>1, <3>1, <5>1, <5>2, <5>3 DEF Heard
      <4>2. CASE u # Owner[s]
        <5>1. u \in PeersOf(r, c) <=> u \in PeersOf(r, c)'
          BY <1>0, <4>2 DEF PeersOf, TableTypeOK
        <5>2. \A j \in New(notify[r], notify'[r]) : ~Tells(notify'[r][j], c, u)
          BY <1>1, <1>2, <4>2 DEF Tells
        <5>3. QED
          BY <2>1, <5>1, <5>2 DEF Heard
      <4>3. QED
        BY <4>1, <4>2
    <3>3. Owner[r] # Owner[s]
      <4>1. PICK t \in Sessions : parts[c] = {t} /\ Owner[t] # callee[c]
        BY <1>0 DEF CallShape
      <4>2. QED
        BY <1>3, <2>1, <4>1
    <3>4. \A j \in New(notify[r], notify'[r]) : ~Tells(notify'[r][j], d, Owner[r])
      BY <1>1, <1>2, <3>3 DEF Tells
    <3>5. QED
      BY <1>0, <1>1, <2>1, <3>1, <3>2, <3>4
  <2>2. CASE d # c
    <3>1. parts'[d] = parts[d] /\ state'[d] = state[d] /\ callee'[d] = callee[d]
      BY <1>0, <2>2 DEF TableTypeOK
    <3>2. \A u : \A j \in New(notify[r], notify'[r]) : ~Tells(notify'[r][j], d, u)
      BY <1>1, <1>2, <2>2 DEF Tells
    <3>3. PeersOf(r, d)' = PeersOf(r, d)
      BY <3>1 DEF PeersOf
    <3>4. QED
      BY <3>1, <3>2, <3>3 DEF Heard
  <2>3. QED
    BY <2>1, <2>2
<1>4. QED
  BY <1>2, <1>3 DEF Heralds

(* Two sessions of one account are never in the same call: a call is known *)
(* to its screens by the names of the accounts.                            *)
Apart == \A c \in CallIds : \A s, t \in parts[c] : Owner[s] = Owner[t] => s = t

(* The answer of a conference ring is told to everyone who is in the call. *)
LEMMA AnswerAddHeralds ==
  ASSUME TableOK, notify \in Maildir, Room, Apart',
         NEW s \in Sessions, NEW c \in CallIds, AnswerAdd(s, c)
  PROVE  \A r \in Sessions : Heralds(r)
<1> DEFINE e == Answered(c, Owner[s])
           told == parts[c] \ {s}
<1>0. /\ TableTypeOK /\ state[c] = "active" /\ state' = state /\ callee' = callee
      /\ notify' = Send(notify, told, e)
      /\ parts' = [parts EXCEPT ![c] = parts[c] \union {s}]
  BY DEF TableOK, AnswerAdd
<1>1. e.type = "answer" /\ e.call = c /\ e.to = Owner[s]
  BY DEF Answered
<1> HIDE DEF e
<1>2. ASSUME NEW r \in Sessions
      PROVE  /\ Extends(notify[r], notify'[r])
             /\ \A j \in New(notify[r], notify'[r]) : notify'[r][j] = e
             /\ r \in told /\ Live(r) =>
                  /\ Len(notify[r]) + 1 \in New(notify[r], notify'[r])
                  /\ notify'[r][Len(notify[r]) + 1] = e
  <2> HIDE DEF told
  <2>1. /\ Extends(notify[r], notify'[r])
        /\ \A j \in Len(notify[r]) + 1 .. Len(notify'[r]) : notify'[r][j] = e
        /\ r \in told /\ Live(r) =>
             /\ Len(notify'[r]) = Len(notify[r]) + 1
             /\ notify'[r][Len(notify[r]) + 1] = e
    <3>1. notify' = Send(notify, told, e) /\ Len(notify[r]) < NotifyCap
      BY <1>0 DEF Room
    <3>2. QED
      BY <3>1, SendExtends
  <2>2. QED
    BY <2>1 DEF New, Extends
<1>3. ASSUME NEW r \in Sessions, NEW d \in CallIds, Live(r), r \in parts[d],
             NEW u \in Users \ {Owner[r]}
      PROVE  Heard(r, d, u)
  <2>1. CASE d = c /\ u = Owner[s]
    <3>1. u \in PeersOf(r, c)'
      BY <1>0, <1>3, <2>1 DEF PeersOf, TableTypeOK
    <3>2. r \in told
      BY <1>3, <2>1
    <3>3. QED
      BY <1>1, <1>2, <1>3, <2>1, <3>1, <3>2 DEF Heard, Tells
  <2>2. CASE ~(d = c /\ u = Owner[s])
    <3>1. u \in PeersOf(r, d) <=> u \in PeersOf(r, d)'
      BY <1>0, <2>2 DEF PeersOf, TableTypeOK
    <3>2. \A j \in New(notify[r], notify'[r]) : ~Tells(notify'[r][j], d, u)
      BY <1>1, <1>2, <2>2 DEF Tells
    <3>3. QED
      BY <3>1, <3>2 DEF Heard
  <2>3. QED
    BY <2>1, <2>2
<1>4. ASSUME NEW r \in Sessions, NEW d \in CallIds, r \in parts[d],
             NEW j \in New(notify[r], notify'[r])
      PROVE  ~Tells(notify'[r][j], d, Owner[r])
  <2>1. notify'[r][j] = e
    BY <1>2
  <2>2. CASE d = c
    <3>1. r \in parts'[c] /\ s \in parts'[c] /\ r # s
      BY <1>0, <1>4, <2>2 DEF TableTypeOK, AnswerAdd, NotIn
    <3>2. Owner[r] # Owner[s]
      BY <3>1 DEF Apart
    <3>3. QED
      BY <1>1, <2>1, <3>2 DEF Tells
  <2>3. CASE d # c
    BY <1>1, <2>1, <2>3 DEF Tells
  <2>4. QED
    BY <2>2, <2>3
<1>5. QED
  BY <1>0, <1>2, <1>3, <1>4 DEF Heralds

(* A departure is told to everyone who stays.                              *)
LEMMA LeaveHeralds ==
  ASSUME TableOK, CallShape, Apart, Room, NEW s \in Sessions, NEW c \in CallIds,
         NEW queues \in Maildir, \A r \in Sessions : r # s => queues[r] = notify[r],
         s \in parts[c], HangupLocked(c, s, queues)
  PROVE  \A r \in Sessions : r # s => Heralds(r)
<1> USE RegistryAssumption
<1> DEFINE rest == parts[c] \ {s}
           rang == {r \in Sessions : Rings(c, Owner[r])}
           mail == [r \in rang |->
                      Cancelled(c, Canceller(c, s, Owner[r]), Owner[r])]
<1>0. TableTypeOK
  BY DEF TableOK
<1>1. CASE /\ rest = {}
           /\ parts' = [parts EXCEPT ![c] = {}]
           /\ state' = [state EXCEPT ![c] = "over"]
           /\ callee' = [callee EXCEPT ![c] = NoUser]
           /\ notify' = Post(queues, mail)
  <2>1. \A t \in DOMAIN mail : Silent(mail[t])
    BY DEF Cancelled, Silent
  <2> HIDE DEF mail, rang
  <2>2. ASSUME NEW r \in Sessions, r # s
        PROVE  /\ Extends(notify[r], notify'[r])
               /\ \A j \in New(notify[r], notify'[r]) : Silent(notify'[r][j])
    <3>1. /\ Extends(queues[r], notify'[r])
          /\ \A j \in Len(queues[r]) + 1 .. Len(notify'[r]) :
               r \in DOMAIN mail /\ notify'[r][j] = mail[r]
      BY <1>1, PostExtends
    <3>2. QED
      BY <2>1, <2>2, <3>1 DEF New
  <2>3. QED
    BY <1>0, <1>1, <2>2, QuietHeralds DEF TableTypeOK
<1>2. CASE /\ rest # {}
           /\ parts' = [parts EXCEPT ![c] = rest]
           /\ notify' = Send(queues, rest, Left(c, Owner[s]))
           /\ state' = state /\ callee' = callee
  <2> DEFINE e == Left(c, Owner[s])
  <2>1. e.type = "hangup" /\ e.call = c /\ e.to = NoUser /\ e.from = Owner[s]
    BY DEF Left
  <2> HIDE DEF e
  <2>2. ASSUME NEW r \in Sessions, r # s
        PROVE  /\ Extends(notify[r], notify'[r])
               /\ \A j \in New(notify[r], notify'[r]) : notify'[r][j] = e
               /\ r \in rest /\ Live(r) =>
                    /\ Len(notify[r]) + 1 \in New(notify[r], notify'[r])
                    /\ notify'[r][Len(notify[r]) + 1] = e
    <3> HIDE DEF rest
    <3>1. /\ Extends(queues[r], notify'[r])
          /\ \A j \in Len(queues[r]) + 1 .. Len(notify'[r]) : notify'[r][j] = e
          /\ r \in rest /\ Live(r) /\ Len(queues[r]) < NotifyCap =>
               /\ Len(notify'[r]) = Len(queues[r]) + 1
               /\ notify'[r][Len(queues[r]) + 1] = e
      BY <1>2, SendExtends DEF e
    <3>2. QED
      BY <2>2, <3>1 DEF New, Extends, Room
  <2>3. ASSUME NEW r \in Sessions, r # s, NEW d \in CallIds, Live(r), r \in parts[d],
               NEW u \in Users \ {Owner[r]}
        PROVE  Heard(r, d, u)
    <3>1. CASE d = c /\ u = Owner[s]
      <4>1. u \notin PeersOf(r, c)'
        BY <1>0, <1>2, <3>1 DEF PeersOf, TableTypeOK, Apart
      <4>2. QED
        BY <2>1, <2>2, <2>3, <3>1, <4>1 DEF Heard, Tells
    <3>2. CASE ~(d = c /\ u = Owner[s])
      <4>1. u \in PeersOf(r, d) <=> u \in PeersOf(r, d)'
        BY <1>0, <1>2, <3>2 DEF PeersOf, TableTypeOK
      <4>2. \A j \in New(notify[r], notify'[r]) : ~Tells(notify'[r][j], d, u)
        BY <2>1, <2>2, <2>3, <3>2 DEF Tells
      <4>3. QED
        BY <4>1, <4>2 DEF Heard
    <3>3. QED
      BY <3>1, <3>2
  <2>4. ASSUME NEW r \in Sessions, r # s, NEW d \in CallIds, r \in parts[d],
               NEW j \in New(notify[r], notify'[r])
        PROVE  ~Tells(notify'[r][j], d, Owner[r])
    <3>1. notify'[r][j] = e
      BY <2>2, <2>4
    <3>2. d = c => Owner[r] # Owner[s]
      BY <2>4 DEF Apart
    <3>3. QED
      BY <2>1, <3>1, <3>2 DEF Tells
  <2>5. QED
    BY <1>2, <2>2, <2>3, <2>4 DEF Heralds
<1>3. QED
  BY <1>1, <1>2 DEF HangupLocked

LEMMA RejectHeralds ==
  ASSUME TableOK, notify \in Maildir, NEW u \in Users, NEW c \in CallIds, Reject(u, c)
  PROVE  \A r \in Sessions : Heralds(r)
<1>0. /\ TableTypeOK /\ notify' = Send(notify, parts[c], Declined(c, u))
      /\ Silent(Declined(c, u))
  BY DEF TableOK, Reject, RejectDial, RejectAdd, Declined, Silent
<1>1. ASSUME NEW r \in Sessions
      PROVE  /\ Extends(notify[r], notify'[r])
             /\ \A j \in New(notify[r], notify'[r]) : Silent(notify'[r][j])
  <2> DEFINE e == Declined(c, u)
  <2>1. notify' = Send(notify, parts[c], e) /\ Silent(e)
    BY <1>0
  <2> HIDE DEF e
  <2>2. QED
    BY <2>1, SendExtends DEF New
<1>2. \A d \in CallIds, r \in Sessions :
        r \in parts[d] /\ r \in parts'[d] =>
          parts'[d] = parts[d] /\ callee'[d] = callee[d] /\ state'[d] = state[d]
  BY <1>0 DEF Reject, RejectDial, RejectAdd, TableTypeOK
<1>3. QED
  BY <1>1, <1>2, QuietHeralds

LEMMA InviteHeralds ==
  ASSUME notify \in Maildir, NEW w \in Users, NEW u \in Users,
         NEW c \in CallIds, Add(w, u, c) \/ CancelAdd(w, u, c)
  PROVE  \A r \in Sessions : Heralds(r)
<1>0. /\ UNCHANGED <<state, callee, parts>>
      /\ \/ notify' = Send(Send(notify, Ringable(u), Ring(c, u)),
                           Others(c, w), Ringing(c, u))
         \/ notify' = Send(Send(notify, SessionsOf(u), Cancelled(c, w, u)),
                           Others(c, w), Cancelled(c, w, u))
  BY DEF Add, CancelAdd
<1>1. /\ Ring(c, u) \in Sent /\ Cancelled(c, w, u) \in Sent
      /\ Silent(Ring(c, u)) /\ Silent(Ringing(c, u)) /\ Silent(Cancelled(c, w, u))
  BY EventsTyped, RegistryAssumption DEF Ring, Ringing, Cancelled, Silent
<1>2. ASSUME NEW S, NEW T, NEW e \in Sent, NEW f, Silent(e), Silent(f),
             notify' = Send(Send(notify, S, e), T, f), NEW r \in Sessions
      PROVE  /\ Extends(notify[r], notify'[r])
             /\ \A j \in New(notify[r], notify'[r]) : Silent(notify'[r][j])
  <2>1. /\ Extends(notify[r], notify'[r])
        /\ \A j \in Len(notify[r]) + 1 .. Len(notify'[r]) :
             notify'[r][j] = e \/ notify'[r][j] = f
    BY <1>2, TwiceSentExtends
  <2>2. QED
    BY <1>2, <2>1 DEF New
<1>3. ASSUME NEW r \in Sessions
      PROVE  /\ Extends(notify[r], notify'[r])
             /\ \A j \in New(notify[r], notify'[r]) : Silent(notify'[r][j])
  BY <1>0, <1>1, <1>2
<1>4. QED
  BY <1>0, <1>3, QuietHeralds

LEMMA RingerHeralds ==
  ASSUME notify \in Maildir, NEW g \in Ringers, Tick(g) \/ ReRing(g)
  PROVE  \A r \in Sessions : Heralds(r)
<1> DEFINE e == Ring(g.call, g.to)
           f == Ringing(g.call, g.to)
           idle == Ringable(g.to)
           rest == Others(g.call, g.by)
<1>0. /\ g.call \in CallIds /\ g.to \in Users /\ UNCHANGED <<state, callee, parts>>
      /\ \/ notify' = notify
         \/ notify' = Send(notify, idle, e)
         \/ notify' = Send(Send(notify, idle, e), rest, f)
  BY DEF Ringers, Tick, ReRing
<1>1. e \in Sent /\ Silent(e) /\ Silent(f)
  BY <1>0, EventsTyped DEF Ring, Ringing, Silent
<1> HIDE DEF e, f, idle, rest
<1>2. ASSUME NEW r \in Sessions
      PROVE  /\ Extends(notify[r], notify'[r])
             /\ \A j \in New(notify[r], notify'[r]) : Silent(notify'[r][j])
  <2>1. CASE notify' = notify
    BY <2>1, SameQueue DEF New
  <2>2. CASE notify' = Send(notify, idle, e)
    BY <1>1, <2>2, SendExtends DEF New
  <2>3. CASE notify' = Send(Send(notify, idle, e), rest, f)
    <3>1. /\ Extends(notify[r], notify'[r])
          /\ \A j \in Len(notify[r]) + 1 .. Len(notify'[r]) :
               notify'[r][j] = e \/ notify'[r][j] = f
      BY <1>1, <2>3, TwiceSentExtends
    <3>2. QED
      BY <1>1, <3>1 DEF New
  <2>4. QED
    BY <1>0, <2>1, <2>2, <2>3
<1>3. QED
  BY <1>0, <1>2, QuietHeralds

LEMMA ReapHeralds ==
  ASSUME TableOK, notify \in Maildir, NEW u \in Users, ReapRings(u)
  PROVE  \A r \in Sessions : Heralds(r)
<1> DEFINE why == IF Connected(u) THEN "unavailable" ELSE "gone"
           dead == {c \in CallIds : DialRings(c, u)}
           lost == dead \union {c \in CallIds : AddRings(c, u)}
           told == {s \in Sessions : \E c \in lost : s \in parts[c]}
           mail == [s \in told |-> Lost(why, CHOOSE c \in lost : s \in parts[c], u)]
<1>1. /\ \A c \in CallIds :
           IF c \in dead THEN parts'[c] = {}
           ELSE state'[c] = state[c] /\ callee'[c] = callee[c] /\ parts'[c] = parts[c]
      /\ notify' = Post(notify, mail)
  BY DEF ReapRings, TableOK, TableTypeOK
<1>2. \A s \in DOMAIN mail : Silent(mail[s])
  BY DEF Lost, Silent
<1> HIDE DEF dead, lost, told, mail
<1>3. ASSUME NEW r \in Sessions
      PROVE  /\ Extends(notify[r], notify'[r])
             /\ \A j \in New(notify[r], notify'[r]) : Silent(notify'[r][j])
  <2>1. /\ Extends(notify[r], notify'[r])
        /\ \A j \in Len(notify[r]) + 1 .. Len(notify'[r]) :
             r \in DOMAIN mail /\ notify'[r][j] = mail[r]
    BY <1>1, PostExtends
  <2>2. QED
    BY <1>2, <2>1 DEF New
<1>4. QED
  BY <1>1, <1>3, QuietHeralds

LEMMA TeardownHeralds ==
  ASSUME TableOK, notify \in Maildir, Room, CallShape, Apart,
         NEW s \in Sessions, Teardown(s)
  PROVE  \A r \in Sessions : Live(r) => Heralds(r)
<1>1. CASE HangupSession(s)
  <2>1. ~Live(s)
    BY <1>1 DEF HangupSession, Live
  <2>2. CASE \E c \in CallIds : s \in parts[c] /\ HangupLocked(c, s, notify)
    BY <2>1, <2>2, LeaveHeralds
  <2>3. CASE UNCHANGED <<state, callee, parts, invites, notify>>
    BY <2>3, SameHeralds
  <2>4. QED
    BY <1>1, <2>2, <2>3 DEF HangupSession
<1>2. CASE Unregister(s) /\ UNCHANGED tableVars
  BY <1>2, SameHeralds DEF Unregister, tableVars
<1>3. CASE ReapUnreachableRings(s)
  <2>1. CASE ReapRings(Owner[s])
    BY <2>1, ReapHeralds, RegistryAssumption
  <2>2. CASE UNCHANGED <<state, callee, parts, invites, notify>>
    BY <2>2, SameHeralds
  <2>3. QED
    BY <1>3, <2>1, <2>2 DEF ReapUnreachableRings
<1>4. QED
  BY <1>1, <1>2, <1>3 DEF Teardown

(* What s hangs up is told to everyone else.                               *)
LEMMA HangupHeralds ==
  ASSUME CalmState, Apart, NEW s \in Sessions, NEW queues \in Maildir,
         \A r \in Sessions : r # s => queues[r] = notify[r],
         HangupShown(s, queues)
  PROVE  \A r \in Sessions : r # s => Heralds(r)
<1>0. TableOK /\ notify \in Maildir /\ CallShape /\ Room
  BY CalmParts
<1>1. CASE /\ app[s].call \in CallIds
           /\ s \in parts[app[s].call]
           /\ HangupLocked(app[s].call, s, queues)
  BY <1>0, <1>1, LeaveHeralds
<1>2. CASE notify' = queues /\ UNCHANGED <<state, callee, parts, invites>>
  BY <1>0, <1>2, SameHeralds
<1>3. QED
  BY <1>1, <1>2 DEF HangupShown

-----------------------------------------------------------------------------
(* What a screen says of the call that its session is in.                  *)

(* The names that it lists, or will list when Participants returns.        *)
Seen(r, a) == IF a.st = "answered" THEN PeersOf(r, a.call) ELSE a.peers

(* A caller whose call rings lists its callee.  Otherwise, once the queue  *)
(* is read, the names are those of the other participants; the queue says  *)
(* nothing of the own account; and an answer that a caller still waits for *)
(* is of somebody that it lists.                                           *)
Sees(r, a) ==
  LET c == a.call
  IN a.st \in Showing /\ r \in parts[c] =>
       IF state[c] = "pending" THEN a.st = "pending" /\ a.peers = {callee[c]}
       ELSE /\ Owner[r] \notin Seen(r, a) /\ Unnamed(notify[r], c, Owner[r])
            /\ \A u \in Users \ {Owner[r]} :
                 Foretells(notify[r], c, Seen(r, a), PeersOf(r, c), u)
            /\ a.st = "pending" => Told(notify[r], c, a.peers)

SeesAll(r) == Sees(r, app[r]) /\ \A a \in launching[r] : Sees(r, a)

Views == \A r \in Sessions : SeesAll(r)

ViewState == CalmState /\ Apart /\ Views

LEMMA SeesKept ==
  ASSUME TableTypeOK, CallShape, CallShape', NEW r \in Sessions, Live(r), Heralds(r),
         \A d \in CallIds : ~Joins(r, d),
         NEW a \in App, Shaped(a), Waits(r, a), Sees(r, a)
  PROVE  Sees(r, a)'
<1> USE PhoneAssumption
<1> DEFINE c == a.call
<1> SUFFICES ASSUME a.st \in Showing, r \in parts'[c]
             PROVE  IF state'[c] = "pending"
                    THEN a.st = "pending" /\ a.peers = {callee'[c]}
                    ELSE /\ Owner[r] \notin Seen(r, a)'
                         /\ Unnamed(notify'[r], c, Owner[r])
                         /\ \A u \in Users \ {Owner[r]} :
                              Foretells(notify'[r], c, Seen(r, a)', PeersOf(r, c)', u)
                         /\ a.st = "pending" => Told(notify'[r], c, a.peers)
  BY DEF Sees, Unnamed, Foretells, LastWord, Told
<1>1. /\ c \in CallIds /\ r \in parts[c]
      /\ state[c] \in {"pending", "active"} /\ state'[c] \in {"pending", "active"}
  <2>1. c \in CallIds
    BY DEF Shaped, App
  <2>2. QED
    BY <2>1 DEF Joins, CallShape, Exists
<1>2. /\ Extends(notify[r], notify'[r]) /\ callee'[c] = callee[c]
      /\ state[c] = "active" => state'[c] = "active"
      /\ \A u \in Users \ {Owner[r]} : Heard(r, c, u)
      /\ \A j \in New(notify[r], notify'[r]) : ~Tells(notify'[r][j], c, Owner[r])
      /\ state[c] = "pending" /\ state'[c] = "active" =>
           /\ Len(notify[r]) + 1 <= Len(notify'[r])
           /\ notify'[r][Len(notify[r]) + 1].call = c
           /\ notify'[r][Len(notify[r]) + 1].type = "answer"
           /\ notify'[r][Len(notify[r]) + 1].to = callee[c]
  BY <1>1 DEF Heralds
<1>3. CASE state[c] = "pending" /\ state'[c] = "pending"
  BY <1>1, <1>2, <1>3 DEF Sees
<1>4. CASE state[c] = "pending" /\ state'[c] = "active"
  <2>1. a.st = "pending" /\ a.peers = {callee[c]} /\ Seen(r, a)' = {callee[c]}
    BY <1>1, <1>4 DEF Sees, Seen
  <2>2. Quiet(notify[r], c)
    BY <1>4, <2>1 DEF Waits
  <2>3. PeersOf(r, c) = {} /\ Owner[r] # callee[c]
    <3>1. PICK s \in Sessions : parts[c] = {s} /\ Owner[s] # callee[c]
      BY <1>1, <1>4 DEF CallShape
    <3>2. s = r
      BY <1>1, <3>1
    <3>3. QED
      BY <3>1, <3>2 DEF PeersOf
  <2>4. ASSUME NEW u \in Users \ {Owner[r]}
        PROVE  Foretells(notify'[r], c, Seen(r, a)', PeersOf(r, c)', u)
    <3>1. Foretells(notify[r], c, {}, PeersOf(r, c), u)
      BY <2>2, <2>3, QuietTellsNothing DEF Foretells
    <3>2. Heard(r, c, u)
      BY <1>2
    <3>3. \/ /\ u \in PeersOf(r, c) <=> u \in PeersOf(r, c)'
             /\ u \in {} <=> u \in Seen(r, a)'
          \/ \E j \in New(notify[r], notify'[r]) : Tells(notify'[r][j], c, u)
      <4>1. CASE u = callee[c]
        <5>1. Len(notify[r]) + 1 \in New(notify[r], notify'[r])
          BY <1>2, <1>4 DEF New, Extends
        <5>2. Tells(notify'[r][Len(notify[r]) + 1], c, u)
          BY <1>2, <1>4, <4>1 DEF Tells
        <5>3. QED
          BY <5>1, <5>2
      <4>2. CASE u # callee[c]
        BY <2>1, <3>2, <4>2 DEF Heard
      <4>3. QED
        BY <4>1, <4>2
    <3>4. QED
      BY <1>2, <3>1, <3>2, <3>3, ForetellsExtends DEF Heard
  <2>5. Told(notify'[r], c, a.peers)
    BY <1>2, <1>4, <2>1, <2>2, QuietThenTold
  <2>6. Unnamed(notify'[r], c, Owner[r])
    <3>1. Unnamed(notify[r], c, Owner[r])
      BY <2>2, QuietTellsNothing DEF Unnamed
    <3>2. QED
      BY <1>2, <3>1, UnnamedExtends
  <2>7. QED
    BY <1>4, <2>1, <2>3, <2>4, <2>5, <2>6
<1>5. CASE state[c] = "active"
  <2>0. state'[c] = "active"
    BY <1>2, <1>5
  <2>1. /\ Owner[r] \notin Seen(r, a) /\ Unnamed(notify[r], c, Owner[r])
        /\ \A u \in Users \ {Owner[r]} :
             Foretells(notify[r], c, Seen(r, a), PeersOf(r, c), u)
        /\ a.st = "pending" => Told(notify[r], c, a.peers)
    BY <1>1, <1>5 DEF Sees
  <2>2. ASSUME NEW u \in Users \ {Owner[r]}
        PROVE  Foretells(notify'[r], c, Seen(r, a)', PeersOf(r, c)', u)
    <3>1. Foretells(notify[r], c, Seen(r, a), PeersOf(r, c), u) /\ Heard(r, c, u)
      BY <1>2, <2>1
    <3>2. (u \in PeersOf(r, c) <=> u \in PeersOf(r, c)') =>
            (u \in Seen(r, a) <=> u \in Seen(r, a)')
      BY DEF Seen
    <3>3. QED
      BY <1>2, <3>1, <3>2, ForetellsExtends DEF Heard
  <2>3. Owner[r] \notin Seen(r, a)' /\ Unnamed(notify'[r], c, Owner[r])
    <3>1. Unnamed(notify'[r], c, Owner[r])
      BY <1>2, <2>1, UnnamedExtends
    <3>2. QED
      BY <2>1, <3>1 DEF Seen, PeersOf
  <2>4. a.st = "pending" => Told(notify'[r], c, a.peers)
    BY <1>2, <2>1, ToldExtends
  <2>5. QED
    BY <2>0, <2>2, <2>3, <2>4
<1>6. QED
  BY <1>1, <1>3, <1>4, <1>5

(* A session whose models stay as they are.                                *)
LEMMA StaysSeen ==
  ASSUME ViewState, CallShape', NEW r \in Sessions,
         Live(r) => Heralds(r), \A d \in CallIds : ~Joins(r, d),
         launching'[r] = launching[r], app'[r].st = app[r].st,
         app'[r].call = app[r].call, app'[r].peers = app[r].peers
  PROVE  SeesAll(r)'
<1>1. /\ TableTypeOK /\ CallShape /\ SeesAll(r) /\ CalmScreen(r) /\ Screen(r)
      /\ app[r] \in App /\ Shaped(app[r])
      /\ \A a \in launching[r] : a \in App /\ Shaped(a)
  BY CalmParts DEF ViewState, Views
<1>2. CASE Live(r)
  <2>1. \A a \in App : Shaped(a) /\ Waits(r, a) /\ Sees(r, a) => Sees(r, a)'
    BY <1>1, <1>2, SeesKept
  <2>2. PICK b : b = app[r]
    OBVIOUS
  <2>3. Sees(r, b)'
    BY <1>1, <2>1, <2>2 DEF CalmScreen, SeesAll
  <2>4. Sees(r, app[r])'
    BY <2>2, <2>3 DEF Sees, Seen
  <2>5. \A a \in launching'[r] : Sees(r, a)'
    BY <1>1, <2>1 DEF CalmScreen, SeesAll
  <2>6. QED
    BY <2>4, <2>5 DEF SeesAll
<1>3. CASE ~Live(r)
  <2>1. app'[r].st = "idle" /\ launching'[r] = {}
    BY <1>1, <1>3 DEF Screen, ScreenShape, IdleApp
  <2>2. QED
    BY <2>1 DEF SeesAll, Sees, Showing
<1>4. QED
  BY <1>2, <1>3

(* A session whose screen shows no call.                                   *)
LEMMA NothingSeen ==
  ASSUME NEW r \in Sessions, app'[r].st \notin Showing,
         \A a \in launching'[r] : a.st \notin Showing
  PROVE  SeesAll(r)'
BY DEF SeesAll, Sees

(* The models of the others stay as they are.                              *)
LEMMA OthersSee ==
  ASSUME ViewState, CallShape', NEW s \in Sessions, OnlyActs(s),
         \A r \in Sessions :
           r # s => (Live(r) => Heralds(r)) /\ \A d \in CallIds : ~Joins(r, d)
  PROVE  \A r \in Sessions : r # s => SeesAll(r)'
BY StaysSeen DEF OnlyActs

LEMMA ViewParts ==
  ASSUME ViewState
  PROVE  /\ CalmState /\ Apart /\ Views /\ PhoneInv /\ CalmScreens /\ Room
         /\ TableOK /\ TableTypeOK /\ notify \in Maildir /\ TableInv /\ CallShape
         /\ phase \in [Sessions -> Phases] /\ OneCallPerSession
         /\ app \in [Sessions -> App] /\ launching \in [Sessions -> SUBSET App]
         /\ mode \in [Sessions -> {"lobby", "app"}]
         /\ prompt \in [Sessions -> CallIds \union {NoCall}]
<1>1. /\ CalmState /\ Apart /\ Views /\ PhoneInv /\ CalmScreens /\ Room
      /\ TableOK /\ TableTypeOK /\ notify \in Maildir /\ TableInv /\ CallShape
      /\ phase \in [Sessions -> Phases]
      /\ app \in [Sessions -> App] /\ launching \in [Sessions -> SUBSET App]
      /\ mode \in [Sessions -> {"lobby", "app"}]
      /\ prompt \in [Sessions -> CallIds \union {NoCall}]
  BY DEF ViewState, CalmState, PhoneInv, TypeInv, ScreensOK, TableOK, TableInv
<1>2. OneCallPerSession
  BY <1>1 DEF CalmScreens, CalmScreen, OneCallPerSession
<1>3. QED
  BY <1>1, <1>2

LEMMA LifeViews ==
  ASSUME ViewState, CallShape', NEW s \in Sessions,
         Login(s) \/ Disconnect(s) \/ Teardown(s)
  PROVE  Views'
<1>0. /\ TableOK /\ TableTypeOK /\ notify \in Maildir /\ CallShape /\ OneCallPerSession
      /\ Room /\ Apart /\ phase \in [Sessions -> Phases] /\ CalmState
      /\ app \in [Sessions -> App] /\ launching \in [Sessions -> SUBSET App]
      /\ mode \in [Sessions -> {"lobby", "app"}]
      /\ prompt \in [Sessions -> CallIds \union {NoCall}]
  BY ViewParts
<1>1. CASE Teardown(s)
  <2>1. \A r \in Sessions :
          (Live(r) => Heralds(r)) /\ \A d \in CallIds : ~Joins(r, d)
    BY <1>0, <1>1, TeardownHeralds, TeardownServes
  <2>2. QED
    BY <1>1, <2>1, StaysSeen DEF Views, Teardown, uiVars
<1>2. CASE Login(s) \/ Disconnect(s)
  <2>1. /\ UNCHANGED <<state, callee, parts>>
        /\ \A r \in Sessions : r # s => notify'[r] = notify[r]
    BY <1>0, <1>2 DEF Login, Register, Disconnect, Drop, tableVars, Maildir
  <2>2. OnlyActs(s)
    BY <1>0, <1>2 DEF OnlyActs, Login, Register, Disconnect, Drop, Live, SetApp
  <2>3. \A r \in Sessions :
          r # s => (Live(r) => Heralds(r)) /\ \A d \in CallIds : ~Joins(r, d)
    BY <1>0, <2>1, SameHeralds DEF Joins
  <2>4. app'[s].st \notin Showing /\ launching'[s] = {}
    <3>1. CASE Login(s)
      <4>1. app[s] = IdleApp /\ launching[s] = {} /\ launching' = launching
        BY <1>0, <3>1, CalmParts DEF Login, Register, Live, Screen, ScreenShape
      <4>2. app'[s] = IdleApp \/ app'[s] = ForcedApp
        BY <1>0, <3>1, <4>1 DEF Login, SetApp
      <4>3. QED
        BY <4>1, <4>2 DEF IdleApp, ForcedApp, Showing
    <3>2. CASE Disconnect(s)
      BY <1>0, <3>2 DEF Disconnect, IdleApp, Showing
    <3>3. QED
      BY <1>2, <3>1, <3>2
  <2>5. QED
    BY <2>2, <2>3, <2>4, OthersSee, NothingSeen DEF Views
<1>3. QED
  BY <1>1, <1>2

LEMMA TickerViews ==
  ASSUME ViewState, CallShape', NEW g \in Ringers, TickOf(g) \/ ReRingOf(g)
  PROVE  Views'
<1>1. UNCHANGED uiVars /\ (Tick(g) \/ ReRing(g)) /\ TableOK /\ notify \in Maildir
  BY ViewParts DEF TickOf, ReRingOf
<1>2. \A r \in Sessions : Heralds(r) /\ \A d \in CallIds : ~Joins(r, d)
  BY <1>1, RingerHeralds, RingerServes
<1>3. QED
  BY <1>1, <1>2, StaysSeen DEF Views, uiVars

(* A caller lists the callee, while its call rings.                        *)
LEMMA DialViews ==
  ASSUME ViewState, CallShape', NEW s \in Sessions, NEW u \in Users, NEW c \in CallIds,
         LobbyDial(s, u, c) \/ PhoneDial(s, u, c)
  PROVE  Views'
<1>0. /\ TableOK /\ TableTypeOK /\ notify \in Maildir /\ CallShape /\ CalmState
      /\ app \in [Sessions -> App] /\ launching \in [Sessions -> SUBSET App]
      /\ mode \in [Sessions -> {"lobby", "app"}]
  BY ViewParts
<1>1. Dial(s, u, c) /\ Live(s)
  BY DEF LobbyDial, PhoneDial, AtLobby, InPhone
<1>2. /\ phase' = phase /\ state'[c] = "pending" /\ callee'[c] = u
  BY <1>0, <1>1 DEF Dial, TableTypeOK
<1>3. \A r \in Sessions :
        Heralds(r) /\ \A d \in CallIds : Joins(r, d) => r = s
  BY <1>0, <1>1, DialHeralds, DialServes
<1>4. OnlyActs(s)
  BY <1>0, <1>2 DEF OnlyActs, LobbyDial, PhoneDial, Live, SetApp, LaunchApp
<1>5. \A r \in Sessions : r # s => SeesAll(r)'
  BY <1>3, <1>4, OthersSee
<1>6. \/ app'[s] = IdleApp /\ launching'[s] = {CallingApp(c, u)}
      \/ /\ launching'[s] = {} /\ app'[s].st = "pending"
         /\ app'[s].call = c /\ app'[s].peers = {u}
  <2>1. CASE LobbyDial(s, u, c)
    <3>1. /\ mode[s] = "lobby" /\ Settled(s) /\ ~Busy(s)
          /\ app' = app /\ LaunchApp(s, CallingApp(c, u))
      BY <2>1 DEF LobbyDial, AtLobby, Settled
    <3>2. launching[s] = {} /\ app[s] = IdleApp
      BY <1>0, <3>1, CalmParts
    <3>3. QED
      BY <1>0, <3>1, <3>2 DEF LaunchApp
  <2>2. CASE PhoneDial(s, u, c)
    <3>1. /\ mode[s] = "app" /\ launching' = launching
          /\ SetApp(s, [app[s] EXCEPT !.st = "pending", !.call = c, !.peers = {u}])
      BY <2>2 DEF PhoneDial, InPhone
    <3>2. launching[s] = {}
      BY <1>0, <3>1, CalmParts
    <3>3. QED
      BY <1>0, <3>1, <3>2 DEF SetApp, App
  <2>3. QED
    BY <2>1, <2>2
<1>7. ASSUME NEW a, a.st = "pending", a.call = c, a.peers = {u}
      PROVE  Sees(s, a)'
  BY <1>2, <1>7 DEF Sees
<1>8. Sees(s, app[s])' /\ \A a \in launching'[s] : Sees(s, a)'
  <2>1. /\ CallingApp(c, u).st = "pending" /\ CallingApp(c, u).call = c
        /\ CallingApp(c, u).peers = {u} /\ IdleApp.st = "idle"
    BY DEF CallingApp, IdleApp
  <2>2. QED
    BY <1>2, <1>6, <1>7, <2>1 DEF Sees, Showing
<1>9. QED
  BY <1>5, <1>8 DEF Views, SeesAll

LEMMA RejectViews ==
  ASSUME ViewState, CallShape', NEW s \in Sessions, LobbyReject(s) \/ PhoneReject(s)
  PROVE  Views'
<1> USE PhoneAssumption, RegistryAssumption
<1>0. /\ TableOK /\ TableTypeOK /\ notify \in Maildir /\ Room /\ Owner[s] \in Users
      /\ app \in [Sessions -> App] /\ prompt[s] \in CallIds \union {NoCall}
      /\ app[s].incoming \in CallIds \union {NoCall}
  BY ViewParts, CalmParts
<1>1. \A r \in Sessions : Heralds(r) /\ \A d \in CallIds : ~Joins(r, d)
  <2>1. CASE \E c \in CallIds : Reject(Owner[s], c)
    BY <1>0, <2>1, RejectHeralds, RejectServes
  <2>2. CASE UNCHANGED <<regVars, tableVars>>
    BY <1>0, <2>2, SameHeralds DEF regVars, tableVars, Joins
  <2>3. QED
    BY <1>0, <2>1, <2>2 DEF LobbyReject, PhoneReject
<1>2. \A r \in Sessions :
        /\ launching'[r] = launching[r] /\ app'[r].st = app[r].st
        /\ app'[r].call = app[r].call /\ app'[r].peers = app[r].peers
  BY <1>0 DEF LobbyReject, PhoneReject, uiVars, SetApp, App
<1>3. QED
  BY <1>1, <1>2, StaysSeen DEF Views

LEMMA InviteViews ==
  ASSUME ViewState, CallShape', NEW s \in Sessions,
         PhoneCancelAdd(s) \/ \E u \in Users : PhoneAdd(s, u)
  PROVE  Views'
<1> USE PhoneAssumption, RegistryAssumption
<1>0. /\ TableOK /\ notify \in Maildir /\ app \in [Sessions -> App]
      /\ app[s] \in App /\ Shaped(app[s]) /\ Owner[s] \in Users
      /\ Screen(s)
  BY ViewParts, CalmParts
<1>1. /\ app[s].st = "active" /\ launching' = launching
      /\ \E w \in Users \union {NoUser} : SetApp(s, [app[s] EXCEPT !.target = w])
      /\ \E u \in Users :
           Add(Owner[s], u, app[s].call) \/ CancelAdd(Owner[s], u, app[s].call)
  BY <1>0 DEF PhoneCancelAdd, PhoneAdd, InPhone, App
<1>2. app[s].call \in CallIds /\ state[app[s].call] = "active"
  BY <1>0, <1>1 DEF Shaped, Showing, App, Screen, Claims, Backed
<1>3. \A r \in Sessions : Heralds(r) /\ \A d \in CallIds : ~Joins(r, d)
  BY <1>0, <1>1, <1>2, InviteHeralds, InviteServes
<1>4. \A r \in Sessions :
        /\ launching'[r] = launching[r] /\ app'[r].st = app[r].st
        /\ app'[r].call = app[r].call /\ app'[r].peers = app[r].peers
  BY <1>0, <1>1 DEF SetApp, App
<1>5. QED
  BY <1>3, <1>4, StaysSeen DEF Views

(* Whoever joins a call has no news of it in the queue that is out of date,*)
(* nor any of the own account.                                             *)
FreshJoins ==
  \A c \in CallIds : \A r \in parts'[c] \ parts[c] :
    /\ Unnamed(notify[r], c, Owner[r])
    /\ \A u \in Users \ {Owner[r]} :
         Foretells(notify[r], c, PeersOf(r, c), PeersOf(r, c), u)

(* Who answers is told nothing, and finds the others in the call.          *)
LEMMA AnswererJoins ==
  ASSUME TableOK, notify \in Maildir, NEW s \in Sessions, NEW c \in CallIds,
         Answer(s, c), s \notin parts[c]
  PROVE  /\ notify'[s] = notify[s] /\ state'[c] = "active"
         /\ parts'[c] = parts[c] \union {s} /\ PeersOf(s, c)' = PeersOf(s, c)
<1>0. TableTypeOK
  BY DEF TableOK
<1>1. state'[c] = "active" /\ parts'[c] = parts[c] \union {s}
  BY <1>0 DEF Answer, AnswerDial, AnswerAdd, TableTypeOK
<1>2. PeersOf(s, c)' = PeersOf(s, c)
  BY <1>1 DEF PeersOf
<1>3. \A queues \in Maildir : \A targets, e :
        s \notin targets => Send(queues, targets, e)[s] = queues[s]
  BY DEF Send, Post
<1>4. notify'[s] = notify[s]
  <2>1. CASE AnswerDial(s, c)
    <3>1. /\ s \notin SessionsOf(Owner[s]) \ {s}
          /\ notify' = Send(Send(notify, parts[c], Answered(c, Owner[s])),
                            SessionsOf(Owner[s]) \ {s}, Elsewhere(c, Owner[s]))
      BY <2>1 DEF AnswerDial
    <3>2. Send(notify, parts[c], Answered(c, Owner[s])) \in Maildir
      <4>1. Answered(c, Owner[s]) \in Sent
        BY EventsTyped, RegistryAssumption
      <4>2. QED
        BY <4>1, SendTyped
    <3>3. QED
      BY <1>3, <3>1, <3>2
  <2>2. CASE AnswerAdd(s, c)
    <3>1. /\ s \notin parts[c] \ {s}
          /\ notify' = Send(notify, parts[c] \ {s}, Answered(c, Owner[s]))
      BY <2>2 DEF AnswerAdd
    <3>2. QED
      BY <1>3, <3>1
  <2>3. QED
    BY <2>1, <2>2 DEF Answer
<1>5. QED
  BY <1>1, <1>2, <1>4

LEMMA AnswerHeralds ==
  ASSUME ViewState, Apart', NEW s \in Sessions, NEW c \in CallIds,
         Answer(s, c), RungBy(s, c)
  PROVE  \A r \in Sessions : Heralds(r)
<1>0. TableOK /\ notify \in Maildir /\ Room /\ CallShape
  BY ViewParts
<1>1. CASE AnswerDial(s, c)
  <2>1. Owner[s] = callee[c]
    BY <1>1, PhoneAssumption DEF RungBy, AnswerDial
  <2>2. QED
    BY <1>0, <1>1, <2>1, AnswerDialHeralds
<1>2. CASE AnswerAdd(s, c)
  BY <1>0, <1>2, AnswerAddHeralds
<1>3. QED
  BY <1>1, <1>2 DEF Answer

(* ANSWER: the names are listed in the step that joins, or when the screen *)
(* comes to it; what happens in between is in the queue.                   *)
LEMMA AnswerViews ==
  ASSUME ViewState, CallShape', Apart', FreshJoins, NEW s \in Sessions, NEW c \in CallIds,
         Answer(s, c), RungBy(s, c), Live(s), ~Busy(s), NEW x \in App,
         AfterAnswer(s, AnsweringApp(x, c)),
         app[s].st = "idle", mode[s] = "lobby" => Settled(s),
         UNCHANGED <<doors, mode, prompt, armed>>
  PROVE  Views'
<1> USE PhoneAssumption
<1>b. PICK b : b = AnsweringApp(x, c)
  OBVIOUS
<1>d. PICK d : d = AnsweredApp(b, PeersOf(s, b.call))
  OBVIOUS
<1>0. /\ PhoneInv /\ CalmScreens /\ CalmState /\ TableOK /\ notify \in Maildir
      /\ app \in [Sessions -> App] /\ launching \in [Sessions -> SUBSET App]
      /\ mode[s] \in {"lobby", "app"} /\ launching[s] = {} /\ app[s].call = NoCall
  BY ViewParts, CalmParts DEF Shaped, Showing
<1>1. /\ \A r \in Sessions : Heralds(r)
      /\ \A r \in Sessions, k \in CallIds : Joins(r, k) => r = s /\ k = c
      /\ phase' = phase
  BY <1>0, AnswerHeralds, AnswerServes
<1>2. OnlyActs(s)
  BY <1>0, <1>1 DEF OnlyActs, AfterAnswer, ShowList, Live, SetApp, LaunchApp
<1>3. s \notin parts[c]
  BY <1>0, NoCallShown
<1>4. /\ notify'[s] = notify[s] /\ state'[c] = "active"
      /\ s \in parts'[c] /\ PeersOf(s, c)' = PeersOf(s, c)
  BY <1>0, <1>3, AnswererJoins
<1>5. /\ Unnamed(notify[s], c, Owner[s])
      /\ \A u \in Users \ {Owner[s]} :
           Foretells(notify[s], c, PeersOf(s, c), PeersOf(s, c), u)
  BY <1>3, <1>4 DEF FreshJoins
<1>6. /\ b.st = "answered" /\ b.call = c
      /\ d.st = "active" /\ d.call = c /\ d.peers = PeersOf(s, c)
      /\ IdleApp.st = "idle"
  BY <1>b, <1>d DEF AnsweringApp, AnsweredApp, IdleApp, App
<1>7. \/ app'[s] \in {b, d} /\ launching'[s] = {}
      \/ app'[s] = IdleApp /\ launching'[s] = {d}
  BY <1>0, <1>b, <1>d DEF AfterAnswer, ShowList, SetApp, LaunchApp
<1>8. ASSUME NEW a, a.call = c,
             \/ a.st = "answered"
             \/ a.st = "active" /\ a.peers = PeersOf(s, c)
      PROVE  Sees(s, a)'
  <2>1. Seen(s, a)' = PeersOf(s, c)
    BY <1>4, <1>8 DEF Seen
  <2>2. Owner[s] \notin Seen(s, a)'
    BY <2>1 DEF PeersOf
  <2>3. \A u \in Users \ {Owner[s]} :
          Foretells(notify'[s], c, Seen(s, a)', PeersOf(s, c)', u)
    BY <1>4, <1>5, <2>1
  <2>4. Unnamed(notify'[s], c, Owner[s])
    BY <1>4, <1>5
  <2>5. QED
    BY <1>4, <1>8, <2>2, <2>3, <2>4 DEF Sees, Unnamed, Foretells, LastWord
<1>9. SeesAll(s)'
  <2>1. Sees(s, b)' /\ Sees(s, d)'
    BY <1>6, <1>8
  <2>2. CASE app'[s] \in {b, d} /\ launching'[s] = {}
    BY <2>1, <2>2 DEF SeesAll, Sees, Seen
  <2>3. CASE app'[s] = IdleApp /\ launching'[s] = {d}
    BY <1>6, <2>1, <2>3 DEF SeesAll, Sees, Showing
  <2>4. QED
    BY <1>7, <2>2, <2>3
<1>10. QED
  BY <1>1, <1>2, <1>9, OthersSee DEF Views

LEMMA AnswersViews ==
  ASSUME ViewState, CallShape', Apart', FreshJoins, NEW s \in Sessions,
         LobbyAnswer(s) \/ PhoneAnswer(s)
  PROVE  Views'
<1> USE PhoneAssumption
<1>0. /\ notify \in Maildir /\ CalmState /\ Screen(s) /\ CalmScreen(s)
      /\ app \in [Sessions -> App]
      /\ prompt[s] \in CallIds \union {NoCall}
      /\ app[s] \in App /\ app[s].incoming \in CallIds \union {NoCall}
      /\ mode[s] = "lobby" /\ ~Busy(s) => app[s] = IdleApp
  BY ViewParts, CalmParts
<1>1. CASE LobbyAnswer(s)
  <2>1. /\ prompt[s] \in CallIds /\ Answer(s, prompt[s]) /\ RungBy(s, prompt[s])
        /\ Live(s) /\ ~Busy(s) /\ Settled(s) /\ mode[s] = "lobby"
        /\ AfterAnswer(s, AnsweringApp(IdleApp, prompt[s]))
        /\ UNCHANGED <<doors, mode, prompt, armed>>
    BY <1>0, <1>1 DEF LobbyAnswer, AtLobby, Settled, Screen
  <2>2. IdleApp \in App /\ app[s].st = "idle"
    BY <1>0, <2>1 DEF IdleApp, App
  <2>3. QED
    BY <2>1, <2>2, AnswerViews
<1>2. CASE /\ PhoneAnswer(s) /\ Answer(s, app[s].incoming)
           /\ AfterAnswer(s, AnsweringApp(app[s], app[s].incoming))
  <2>1. /\ app[s].incoming \in CallIds /\ RungBy(s, app[s].incoming)
        /\ Live(s) /\ ~Busy(s) /\ mode[s] = "app" /\ app[s].st = "idle"
        /\ UNCHANGED <<doors, mode, prompt, armed>>
    BY <1>0, <1>2 DEF PhoneAnswer, InPhone, Busy, Screen, CalmScreen
  <2>2. QED
    BY <1>0, <1>2, <2>1, AnswerViews
<1>3. CASE /\ PhoneAnswer(s)
           /\ SetApp(s, [app[s] EXCEPT !.incoming = NoCall])
           /\ UNCHANGED <<regVars, tableVars, launching>>
  <2>1. \A r \in Sessions : Heralds(r) /\ \A k \in CallIds : ~Joins(r, k)
    BY <1>0, <1>3, SameHeralds DEF regVars, tableVars, Joins
  <2>2. \A r \in Sessions :
          /\ launching'[r] = launching[r] /\ app'[r].st = app[r].st
          /\ app'[r].call = app[r].call /\ app'[r].peers = app[r].peers
    BY <1>0, <1>3 DEF SetApp, App
  <2>3. QED
    BY <2>1, <2>2, StaysSeen DEF Views
<1>4. QED
  BY <1>1, <1>2, <1>3 DEF PhoneAnswer

(* The launch comes on screen; or the participants are listed, as they are *)
(* in this step.                                                           *)
LEMMA LaunchViews ==
  ASSUME ViewState, CallShape', NEW s \in Sessions,
         LobbyPhone(s) \/ Launch(s) \/ ListParticipants(s)
  PROVE  Views'
<1>0. /\ notify \in Maildir /\ CalmState /\ SeesAll(s)
      /\ app \in [Sessions -> App] /\ launching \in [Sessions -> SUBSET App]
      /\ mode \in [Sessions -> {"lobby", "app"}]
      /\ prompt \in [Sessions -> CallIds \union {NoCall}]
      /\ app[s] \in App /\ ~Open("otherApps")
      /\ mode[s] = "app" \/ Busy(s) => launching[s] = {}
      /\ Settled(s) => launching[s] = {}
  BY ViewParts, CalmParts DEF Views
<1>1. UNCHANGED <<doors, regVars, tableVars, armed>>
  BY DEF LobbyPhone, Launch, ListParticipants
<1>2. \A r \in Sessions : Heralds(r) /\ \A k \in CallIds : ~Joins(r, k)
  BY <1>0, <1>1, SameHeralds DEF regVars, tableVars, Joins
<1>3. OnlyActs(s)
  BY <1>0, <1>1 DEF OnlyActs, LobbyPhone, Launch, ListParticipants, ShowList,
                    SetApp, LaunchApp, Live, regVars
<1>4. \A a : Sees(s, a) => Sees(s, a)'
  BY <1>1 DEF Sees, Seen, PeersOf, Unnamed, Foretells, LastWord, Told, regVars,
              tableVars
<1>5. IdleApp.st \notin Showing
  BY DEF IdleApp, Showing
<1>6. SeesAll(s)'
  <2>1. CASE LobbyPhone(s)
    <3>1. app' = app /\ launching'[s] = {IdleApp}
      BY <1>0, <2>1 DEF LobbyPhone, AtLobby, LaunchApp
    <3>2. PICK a : a = app[s]
      OBVIOUS
    <3>3. Sees(s, a)'
      BY <1>0, <1>4, <3>2 DEF SeesAll
    <3>4. QED
      BY <1>5, <3>1, <3>2, <3>3 DEF SeesAll, Sees, Seen
  <2>2. CASE Launch(s)
    <3>1. PICK a \in launching[s] :
            /\ launching'[s] = launching[s] \ {a}
            /\ mode[s] = "lobby" => app'[s] = a
      BY <1>0, <2>2 DEF Launch
    <3>2. mode[s] = "lobby"
      BY <1>0, <3>1
    <3>3. Sees(s, a)' /\ \A m \in launching[s] : Sees(s, m)'
      BY <1>0, <1>4 DEF SeesAll
    <3>4. QED
      BY <3>1, <3>2, <3>3 DEF SeesAll, Sees, Seen
  <2>3. CASE ListParticipants(s)
    <3>1. PICK a : a = app[s]
      OBVIOUS
    <3>2. PICK d : d = AnsweredApp(a, PeersOf(s, a.call))
      OBVIOUS
    <3>3. /\ a.st = "answered" /\ d.st = "active" /\ d.call = a.call
          /\ d.peers = PeersOf(s, a.call) /\ launching[s] = {}
          /\ \/ app'[s] = d /\ launching'[s] = {}
             \/ app'[s] = IdleApp /\ launching'[s] = {d}
      BY <1>0, <2>3, <3>1, <3>2 DEF ListParticipants, Busy, AnsweredApp, App,
                                    ShowList, SetApp, LaunchApp
    <3>4. Sees(s, a) /\ Seen(s, a) = Seen(s, d)
      BY <1>0, <3>1, <3>3 DEF SeesAll, Seen
    <3>5. Sees(s, d)
      BY <3>3, <3>4 DEF Sees, Showing
    <3>6. Sees(s, d)'
      BY <1>4, <3>5
    <3>7. QED
      BY <1>5, <3>3, <3>6 DEF SeesAll, Sees, Seen
  <2>4. QED
    BY <2>1, <2>2, <2>3
<1>7. QED
  BY <1>2, <1>3, <1>6, OthersSee DEF Views

LEMMA HangupViews ==
  ASSUME ViewState, CallShape', NEW s \in Sessions, PhoneHangup(s) \/ PhoneExit(s)
  PROVE  Views'
<1>0. /\ notify \in Maildir /\ CalmState /\ Apart /\ CalmScreen(s) /\ ~Open("reopen")
      /\ app \in [Sessions -> App] /\ launching \in [Sessions -> SUBSET App]
      /\ mode[s] = "app" => launching[s] = {}
  BY ViewParts, CalmParts
<1>1. PhoneHangup(s)
  BY <1>0 DEF PhoneExit, InPhone, CalmScreen
<1>2. /\ HangupShown(s, notify) /\ Live(s) /\ mode[s] = "app"
      /\ SetApp(s, GoIdle(app[s]))
      /\ UNCHANGED <<doors, phase, ticked, mode, prompt, launching, armed>>
  BY <1>1 DEF PhoneHangup
<1>3. /\ \A r \in Sessions : r # s => Heralds(r)
      /\ \A r \in Sessions, k \in CallIds : ~Joins(r, k)
  BY <1>0, <1>2, HangupHeralds, HangupLeaves
<1>4. OnlyActs(s)
  BY <1>0, <1>2 DEF OnlyActs, Live, SetApp
<1>5. app'[s].st \notin Showing /\ launching'[s] = {}
  BY <1>0, <1>2 DEF SetApp, GoIdle, IdleApp, Showing
<1>6. QED
  BY <1>3, <1>4, <1>5, OthersSee, NothingSeen DEF Views

(* handlePhoneEvent: the names change as the event says.                   *)
LEMMA EventPeers ==
  ASSUME NEW a \in App, a.st \in {"pending", "active"}, NEW e \in Sent, NEW w,
         ~LastPeerLeft(a, e), NEW b, b = AppAfter(w, a, e), b.st \in Showing
  PROVE  /\ b.call = a.call
         /\ b.st = IF a.st = "pending" /\ e.call = a.call /\ e.type = "answer"
                   THEN "active" ELSE a.st
         /\ a.st = "pending" => b.peers = a.peers
         /\ a.st = "active" => /\ w \in b.peers => w \in a.peers \/ Tells(e, a.call, w)
                               /\ \A u : u # w =>
                                    (u \in b.peers <=> IF Tells(e, a.call, u)
                                                       THEN e.type = "answer"
                                                       ELSE u \in a.peers)
<1>0. e.type \in EventTypes
  BY DEF Sent, Event
<1>1. CASE e.type \in {"ring", "elsewhere", "ringing"}
  <2>1. b = a \/ b = Dismiss(a)
    BY <1>1 DEF AppAfter, OnRing, OnElsewhere
  <2>2. b.call = a.call /\ b.st = a.st /\ b.peers = a.peers
    BY <2>1 DEF Dismiss, App
  <2>3. QED
    BY <1>1, <2>2 DEF Tells
<1>2. CASE e.type = "hangup"
  <2>1. b = OnHangup(w, a, e)
    BY <1>2 DEF AppAfter
  <2>2. CASE a.st = "active" /\ e.call = a.call /\ e.to = NoUser
    <3>1. b = Departs(w, a, e.from)
      BY <2>1, <2>2 DEF OnHangup
    <3>2. b.peers = a.peers \ {e.from}
      BY <3>1, DepartsNames
    <3>3. SameButNames(Departs(w, a, e.from), a)
      BY DepartsNames
    <3>4. QED
      BY <1>2, <2>2, <3>1, <3>2, <3>3 DEF Tells, SameButNames
  <2>3. CASE ~(a.st = "active" /\ e.call = a.call /\ e.to = NoUser)
    <3>1. b = a \/ b = Dismiss(a)
      BY <2>1, <2>3 DEF OnHangup, LastPeerLeft
    <3>2. b.call = a.call /\ b.st = a.st /\ b.peers = a.peers
      BY <3>1 DEF Dismiss, App
    <3>3. QED
      BY <1>2, <2>3, <3>2 DEF Tells
  <2>4. QED
    BY <2>2, <2>3
<1>3. CASE e.type = "answer"
  <2>1. b = OnAnswer(w, a, e)
    BY <1>3 DEF AppAfter
  <2>2. CASE a.st = "pending" /\ e.call = a.call
    <3>1. b = [a EXCEPT !.st = "active"]
      BY <2>1, <2>2 DEF OnAnswer
    <3>2. QED
      BY <1>3, <2>2, <3>1 DEF App
  <2>3. CASE a.st = "active" /\ e.call = a.call
    <3>1. PICK n : n = Joined(w, a, e.to)
      OBVIOUS
    <3>2. /\ n \in App /\ SameButNames(n, a)
          /\ n.peers \in {a.peers, a.peers \union {e.to}}
          /\ e.to # w => e.to \in n.peers
      <4>1. e.to \in Users
        BY <1>3 DEF Sent
      <4>2. QED
        BY <3>1, <4>1, JoinedNames
    <3>3. b = Forget(n, e.to)
      BY <2>1, <2>3, <3>1 DEF OnAnswer
    <3>4. b.call = n.call /\ b.st = n.st /\ b.peers = n.peers
      BY <3>2, <3>3 DEF Forget, App
    <3>5. b.call = a.call /\ b.st = a.st
      BY <3>2, <3>4 DEF SameButNames
    <3>6. \A u : Tells(e, a.call, u) <=> u = e.to
      BY <1>3, <2>3 DEF Tells
    <3>7. QED
      BY <1>3, <2>3, <3>2, <3>4, <3>5, <3>6
  <2>4. CASE e.call # a.call
    <3>1. b = a
      BY <2>1, <2>4 DEF OnAnswer
    <3>2. QED
      BY <2>4, <3>1 DEF Tells
  <2>5. QED
    BY <2>2, <2>3, <2>4
<1>4. CASE e.type \in {"reject", "gone", "unavailable"}
  <2>1. b = OnRefused(a, e)
    BY <1>4 DEF AppAfter
  <2>2. CASE e.call # a.call \/ a.st = "active"
    <3>1. b.st = a.st /\ b.call = a.call /\ b.peers = a.peers
      BY <2>1, <2>2 DEF OnRefused, Forget, App
    <3>2. QED
      BY <1>4, <3>1 DEF Tells
  <2>3. CASE e.call = a.call /\ a.st # "active"
    <3>1. b = GoIdle(a)
      BY <2>1, <2>3 DEF OnRefused
    <3>2. QED
      BY <3>1 DEF GoIdle, IdleApp, Showing
  <2>4. QED
    BY <2>2, <2>3
<1>5. QED
  BY <1>0, <1>1, <1>2, <1>3, <1>4 DEF EventTypes

LEMMA EventSees ==
  ASSUME TableTypeOK, CallShape, NEW s \in Sessions, notify[s] \in Mailbox,
         1 \in 1 .. Len(notify[s]),
         NEW a \in App, Shaped(a), a.st # "answered", Waits(s, a), Sees(s, a),
         NEW e \in Sent, e = notify[s][1], ~LastPeerLeft(a, e),
         NEW b \in App, Shaped(b), b = AppAfter(Owner[s], a, e),
         b.call \in {a.call, NoCall},
         notify'[s] = Without(notify[s], 1), UNCHANGED <<state, callee, parts>>
  PROVE  Sees(s, b)'
<1> USE PhoneAssumption
<1> DEFINE c == a.call
           q == notify[s]
           n == Without(q, 1)
           W == PeersOf(s, c)
<1> SUFFICES ASSUME b.st \in Showing, s \in parts[b.call]
             PROVE  IF state[c] = "pending"
                    THEN b.st = "pending" /\ b.peers = {callee[c]}
                    ELSE /\ Owner[s] \notin b.peers /\ Unnamed(n, c, Owner[s])
                         /\ \A u \in Users \ {Owner[s]} : Foretells(n, c, b.peers, W, u)
                         /\ b.st = "pending" => Told(n, c, b.peers)
  <2>1. b.st \in Showing => b.call = c
    BY DEF Shaped
  <2>2. b.st # "answered"
    <3>1. CASE b.st \in Showing
      <4>1. a.st \in {"pending", "active"}
        BY <2>1, <3>1 DEF Shaped, Showing
      <4>2. QED
        BY <3>1, <4>1, EventPeers
    <3>2. QED
      BY <3>1 DEF Showing
  <2>3. QED
    BY <2>1, <2>2 DEF Sees, Seen, PeersOf, Unnamed, Foretells, LastWord, Told
<1>1. a.st \in {"pending", "active"}
  BY DEF Shaped, Showing
<1>2. /\ b.call = c
      /\ b.st = IF a.st = "pending" /\ e.call = c /\ e.type = "answer"
                THEN "active" ELSE a.st
      /\ a.st = "pending" => b.peers = a.peers
      /\ a.st = "active" => /\ Owner[s] \in b.peers =>
                                 Owner[s] \in a.peers \/ Tells(e, c, Owner[s])
                            /\ \A u : u # Owner[s] =>
                                 (u \in b.peers <=> IF Tells(e, c, u)
                                                    THEN e.type = "answer"
                                                    ELSE u \in a.peers)
  BY <1>1, EventPeers
<1>3. c \in CallIds /\ s \in parts[c] /\ state[c] \in {"pending", "active"}
  <2>1. c \in CallIds /\ s \in parts[c]
    BY <1>1, <1>2 DEF Shaped, Showing, App
  <2>2. QED
    BY <2>1 DEF CallShape, Exists
<1>4. CASE state[c] = "pending"
  <2>1. a.st = "pending" /\ a.peers = {callee[c]}
    BY <1>1, <1>3, <1>4 DEF Sees, Showing
  <2>2. Quiet(q, c)
    BY <1>4, <2>1 DEF Waits
  <2>3. ~(e.call = c /\ e.type = "answer")
    BY <2>2 DEF Quiet, Ends, Fates
  <2>4. QED
    BY <1>2, <1>4, <2>1, <2>3
<1>5. CASE state[c] = "active"
  <2>0. /\ Owner[s] \notin a.peers /\ Unnamed(q, c, Owner[s])
        /\ \A u \in Users \ {Owner[s]} : Foretells(q, c, a.peers, W, u)
        /\ a.st = "pending" => Told(q, c, a.peers)
    BY <1>1, <1>3, <1>5 DEF Sees, Seen, Showing
  <2>1. /\ Owner[s] \notin a.peers /\ Unnamed(n, c, Owner[s])
        /\ ~Tells(e, c, Owner[s])
        /\ \A u \in Users \ {Owner[s]} : Foretells(q, c, a.peers, W, u)
        /\ a.st = "pending" => Told(q, c, a.peers)
    <3>1. ~Tells(e, c, Owner[s])
      BY <2>0 DEF Unnamed
    <3>2. Unnamed(n, c, Owner[s])
      BY <2>0, UnnamedRest
    <3>3. QED
      BY <2>0, <3>1, <3>2
  <2>2. CASE a.st = "active"
    <3>1. ASSUME NEW u \in Users \ {Owner[s]}
          PROVE  Foretells(n, c, b.peers, W, u)
      <4>1. /\ Tells(q[1], c, u) => (u \in b.peers <=> q[1].type = "answer")
            /\ ~Tells(q[1], c, u) => (u \in b.peers <=> u \in a.peers)
        BY <1>2, <2>2
      <4>2. QED
        BY <2>1, <4>1, ForetellsHead
    <3>2. QED
      BY <1>2, <1>5, <2>1, <2>2, <3>1
  <2>3. CASE a.st = "pending" /\ e.call = c /\ e.type = "answer"
    <3>1. e.to \in a.peers
      BY <2>1, <2>3, ToldHead DEF Ends, Fates
    <3>2. ASSUME NEW u \in Users \ {Owner[s]}
          PROVE  Foretells(n, c, b.peers, W, u)
      <4>1. /\ Tells(q[1], c, u) => (u \in b.peers <=> q[1].type = "answer")
            /\ ~Tells(q[1], c, u) => (u \in b.peers <=> u \in a.peers)
        BY <1>2, <2>3, <3>1 DEF Tells
      <4>2. QED
        BY <2>1, <4>1, ForetellsHead
    <3>3. QED
      BY <1>2, <1>5, <2>1, <2>3, <3>2
  <2>4. CASE a.st = "pending" /\ ~(e.call = c /\ e.type = "answer")
    <3>1. (e.call = c => e.type \notin Ends) /\ Told(n, c, b.peers)
      BY <1>2, <2>1, <2>4, ToldHead
    <3>2. ASSUME NEW u \in Users \ {Owner[s]}
          PROVE  Foretells(n, c, b.peers, W, u)
      <4>1. ~Tells(q[1], c, u)
        BY <3>1 DEF Tells, Ends, Fates
      <4>2. u \in b.peers <=> u \in a.peers
        BY <1>2, <2>4
      <4>3. QED
        BY <2>1, <4>1, <4>2, ForetellsHead
    <3>3. QED
      BY <1>2, <1>5, <2>1, <2>4, <3>1, <3>2
  <2>5. QED
    BY <1>1, <2>2, <2>3, <2>4
<1>6. QED
  BY <1>3, <1>4, <1>5

LEMMA HandleViews ==
  ASSUME ViewState, CallShape', NEW s \in Sessions, Handle(s)
  PROVE  Views'
<1> USE PhoneAssumption
<1>0. /\ TableTypeOK /\ CallShape /\ notify \in Maildir /\ CalmState /\ Apart
      /\ QueuesOK /\ CalmScreen(s) /\ SeesAll(s) /\ Shaped(app[s])
      /\ app \in [Sessions -> App] /\ launching \in [Sessions -> SUBSET App]
      /\ mode \in [Sessions -> {"lobby", "app"}]
      /\ prompt \in [Sessions -> CallIds \union {NoCall}]
      /\ armed \in [Sessions -> 0 .. MaxReceivers]
      /\ mode[s] = "lobby" /\ ~Busy(s) => app[s] = IdleApp
      /\ Settled(s) => launching[s] = {}
  BY ViewParts, CalmParts DEF Views
<1>1. /\ Live(s) /\ ~Busy(s) /\ launching[s] = {}
      /\ UNCHANGED <<doors, phase, ticked, mode, launching, armed>>
  BY <1>0 DEF Handle, Settled
<1>2. 1 \in Deliverable(s) /\ \A i \in Deliverable(s) : i = 1
  <2>1. \A i \in Deliverable(s) : i = 1
    BY <1>0 DEF Deliverable, CalmScreen
  <2>2. QED
    BY <2>1 DEF Handle
<1>e. PICK e : e = notify[s][1]
  OBVIOUS
<1>a. PICK a : a = app[s]
  OBVIOUS
<1>b. PICK b : b = AppAfter(Owner[s], a, e)
  OBVIOUS
<1> DEFINE queues == [notify EXCEPT ![s] = Without(notify[s], 1)]
<1>3. \/ /\ mode[s] = "lobby"
         /\ notify' = queues
         /\ UNCHANGED <<state, callee, parts, invites, app>>
      \/ /\ mode[s] = "app"
         /\ SetApp(s, b)
         /\ IF LastPeerLeft(a, e) THEN HangupShown(s, queues)
            ELSE notify' = queues /\ UNCHANGED <<state, callee, parts, invites>>
  BY <1>2, <1>e, <1>a, <1>b DEF Handle
<1>4. /\ queues \in Maildir /\ queues[s] = Without(notify[s], 1)
      /\ \A r \in Sessions : r # s => queues[r] = notify[r]
  BY <1>0, <1>2, TakenEvent DEF Maildir
<1>5. OnlyActs(s)
  BY <1>0, <1>1 DEF OnlyActs, Handle, Live, SetApp
<1>6. /\ notify[s] \in Mailbox /\ 1 \in 1 .. Len(notify[s])
      /\ e \in EventsOf(notify[s]) /\ e \in Sent /\ EventOK(s, e)
      /\ a \in App /\ Shaped(a) /\ a.st # "answered"
  BY <1>0, <1>1, <1>2, <1>e, <1>a, QueuedEvent DEF Busy
<1>7. /\ b \in App /\ Shaped(b) /\ b.call \in {a.call, NoCall}
  <2>1. Owner[s] \in Users
    BY RegistryAssumption
  <2>2. b \in App /\ Shaped(b)
    BY <1>b, <1>6, <2>1, HandlerTyped
  <2>3. b.call \in {a.call, NoCall}
    <3>1. /\ TableTypeOK /\ CallShape /\ a \in App /\ Shaped(a) /\ a.st # "answered"
          /\ e \in EventsOf(notify[s]) /\ e \in Sent /\ EventOK(s, e)
      BY <1>0, <1>6
    <3>2. QED
      BY <1>b, <2>1, <3>1, EventBacked
  <2>4. QED
    BY <2>2, <2>3
<1> HIDE DEF queues
<1>8. CASE notify' = queues /\ UNCHANGED <<state, callee, parts>>
           /\ (mode[s] = "lobby" \/ ~LastPeerLeft(a, e))
  <2>1. \A r \in Sessions :
          r # s => Heralds(r) /\ \A k \in CallIds : ~Joins(r, k)
    BY <1>0, <1>4, <1>8, SameHeralds DEF Joins
  <2>2. SeesAll(s)'
    <3>1. CASE mode[s] = "lobby"
      <4>1. app'[s] = IdleApp
        BY <1>0, <1>1, <1>3, <3>1
      <4>2. app'[s].st \notin Showing /\ launching'[s] = {}
        BY <1>1, <4>1 DEF IdleApp, Showing
      <4>3. QED
        BY <4>2, NothingSeen
    <3>2. CASE mode[s] = "app"
      <4>1. Sees(s, a) /\ Waits(s, a)
        BY <1>0, <1>a DEF SeesAll, CalmScreen
      <4>2. Sees(s, b)'
        BY <1>0, <1>e, <1>b, <1>4, <1>6, <1>7, <1>8, <3>2, <4>1, EventSees
      <4>3. app'[s] = b
        BY <1>0, <1>3, <3>2 DEF SetApp
      <4>4. QED
        BY <1>1, <4>2, <4>3 DEF SeesAll, Sees, Seen
    <3>3. QED
      BY <1>0, <3>1, <3>2
  <2>3. QED
    BY <1>5, <2>1, <2>2, OthersSee DEF Views
<1>9. CASE mode[s] = "app" /\ LastPeerLeft(a, e) /\ HangupShown(s, queues)
  <2>1. /\ \A r \in Sessions : r # s => Heralds(r)
        /\ \A r \in Sessions, k \in CallIds : ~Joins(r, k)
    BY <1>0, <1>1, <1>4, <1>9, HangupHeralds, HangupLeaves
  <2>2. app'[s] = GoIdle(a)
    BY <1>0, <1>b, <1>3, <1>9 DEF SetApp, LastPeerLeft, AppAfter, OnHangup
  <2>3. app'[s].st \notin Showing /\ launching'[s] = {}
    BY <1>1, <2>2 DEF GoIdle, IdleApp, Showing
  <2>4. QED
    BY <1>5, <2>1, <2>3, OthersSee, NothingSeen DEF Views
<1>10. QED
  BY <1>3, <1>8, <1>9

ViewsInv == Calm => Views

LEMMA InitViews == Init => ViewsInv
<1> SUFFICES ASSUME Init, NEW r \in Sessions
             PROVE  SeesAll(r)
  BY DEF ViewsInv, Views
<1>1. app[r].st = "idle" /\ launching[r] = {}
  BY DEF Init, IdleApp
<1>2. QED
  BY <1>1 DEF SeesAll, Sees, Showing

(* The doors stay as they are.                                             *)
LEMMA DoorsFixed == [Next]_vars => doors' = doors
<1>1. CASE Next
  BY <1>1 DEF Next, Login, Disconnect, Teardown, Handle, Launch, ListParticipants,
              LobbyAnswer, LobbyReject, LobbyPhone, PhoneAnswer, PhoneReject,
              PhoneHangup, PhoneCancelAdd, PhoneExit, PhoneAdd, LobbyDial,
              PhoneDial, TickOf, ReRingOf, uiVars
<1>2. CASE UNCHANGED vars
  BY <1>2 DEF vars, uiVars
<1>3. QED
  BY <1>1, <1>2

LEMMA NextViews ==
  ASSUME PhoneInv, PhoneInv', CalmInv, ViewsInv, Room, [Next]_vars,
         Calm => Apart /\ Apart' /\ [FreshJoins]_vars
  PROVE  ViewsInv'
<1> SUFFICES ASSUME Calm'
             PROVE  Views'
  BY DEF ViewsInv
<1>1. doors' = doors
  BY DoorsFixed
<1>2. ViewState /\ CallShape' /\ Apart' /\ [FreshJoins]_vars
  BY <1>1 DEF ViewState, CalmState, CalmInv, ViewsInv, Calm, PhoneInv, TableInv
<1>3. CASE UNCHANGED vars
  <2>1. \A r \in Sessions : Heralds(r) /\ \A k \in CallIds : ~Joins(r, k)
    BY <1>2, <1>3, ViewParts, SameHeralds DEF vars, regVars, tableVars, Joins
  <2>2. QED
    BY <1>2, <1>3, <2>1, StaysSeen DEF Views, vars, uiVars
<1>4. CASE Next /\ FreshJoins
  <2>1. Captured \subseteq Ringers /\ ticked \subseteq Ringers
    BY DEF Captured, PhoneInv, TypeInv, TableOK, TableTypeOK
  <2>2. ASSUME NEW s \in Sessions,
               \/ Login(s) \/ Disconnect(s) \/ Teardown(s)
               \/ Handle(s) \/ Launch(s) \/ ListParticipants(s)
               \/ LobbyAnswer(s) \/ LobbyReject(s) \/ LobbyPhone(s)
               \/ PhoneAnswer(s) \/ PhoneReject(s) \/ PhoneHangup(s)
               \/ PhoneCancelAdd(s) \/ PhoneExit(s)
               \/ \E u \in Users : PhoneAdd(s, u)
               \/ \E u \in Users, c \in CallIds : LobbyDial(s, u, c) \/ PhoneDial(s, u, c)
        PROVE  Views'
    BY <1>2, <1>4, <2>2, LifeViews, HandleViews, LaunchViews, AnswersViews, RejectViews,
       HangupViews, InviteViews, DialViews
  <2>3. ASSUME NEW g \in Ringers, TickOf(g) \/ ReRingOf(g)
        PROVE  Views'
    BY <1>2, <2>3, TickerViews
  <2>4. QED
    BY <1>4, <2>1, <2>2, <2>3 DEF Next
<1>5. QED
  BY <1>2, <1>3, <1>4

LEMMA ViewsMatch == PhoneInv /\ CalmInv /\ ViewsInv => ScreenMatchesCall
<1> SUFFICES ASSUME PhoneInv, CalmScreens, Views, Calm, NEW s \in Sessions,
                    app[s].st = "active", notify[s] = << >>
             PROVE  app[s].peers = PeersOf(s, app[s].call)
  BY DEF CalmInv, ViewsInv, ScreenMatchesCall
<1> DEFINE c == app[s].call
<1>1. /\ app[s] \in App /\ Screen(s) /\ Sees(s, app[s]) /\ Owner \in [Sessions -> Users]
  BY ScreenParts, RegistryAssumption DEF Views, SeesAll
<1>2. s \in parts[c] /\ state[c] = "active"
  BY <1>1, CalmDoors DEF Screen, Claims, Backed
<1>3. /\ Owner[s] \notin app[s].peers
      /\ \A u \in Users \ {Owner[s]} :
           Foretells(<< >>, c, app[s].peers, PeersOf(s, c), u)
  BY <1>1, <1>2 DEF Sees, Seen, Showing
<1>4. \A u \in Users \ {Owner[s]} : u \in app[s].peers <=> u \in PeersOf(s, c)
  BY <1>3 DEF Foretells, LastWord
<1>5. app[s].peers \subseteq Users \ {Owner[s]}
      /\ PeersOf(s, c) \subseteq Users \ {Owner[s]}
  <2>1. c \in CallIds
    BY <1>1, ScreenParts DEF Shaped, Showing, App
  <2>2. parts[c] \subseteq Sessions
    BY <2>1, ScreenParts DEF TableTypeOK
  <2>3. QED
    BY <1>1, <1>3, <2>2 DEF App, PeersOf
<1>6. QED
  BY <1>4, <1>5

(* Once a session has handled its events, its screen lists exactly the     *)
(* other participants (handlePhoneEvent, doAnswer), as long as no event is *)
(* dropped, no two sessions of an account are in one call, and nobody      *)
(* joins a call with old news of it, or any news of the own account in it, *)
(* still in the queue: a call names its                                    *)
(* members by their accounts, and its events carry nothing that tells one  *)
(* stay in it from the next.                                               *)
THEOREM NamesAreRight ==
  Spec /\ []Room /\ []Apart /\ [][FreshJoins]_vars => []ScreenMatchesCall
<1>1. /\ PhoneInv /\ PhoneInv' /\ CalmInv /\ ViewsInv /\ Room
      /\ [Next]_vars /\ Apart /\ Apart' /\ [FreshJoins]_vars
      => ViewsInv'
  BY NextViews
<1>2. QED
  BY CalmProved, InitViews, <1>1, ViewsMatch, PTL DEF Spec

(* Calls of two: while nobody is invited to a conference, neither of the   *)
(* two conditions has to be assumed.                                       *)
TwoParty == \A c \in CallIds, u \in Users : ~AddRings(c, u)

(* A call is joined by placing it or by answering it.                      *)
LEMMA Joiners ==
  ASSUME CalmState, [Next]_vars, NEW r \in Sessions, NEW c \in CallIds, Joins(r, c)
  PROVE  \/ \E u \in Users : Dial(r, u, c)
         \/ Answer(r, c) /\ RungBy(r, c)
<1> USE PhoneAssumption, RegistryAssumption
<1>0. /\ TableOK /\ TableTypeOK /\ notify \in Maildir /\ CallShape /\ Room
      /\ OneCallPerSession /\ ticked \subseteq Ringers
  BY CalmParts DEF TableTypeOK
<1>1. ~UNCHANGED parts
  BY DEF Joins
<1>2. ASSUME NEW s \in Sessions, Login(s) \/ Disconnect(s) \/ Teardown(s)
      PROVE  FALSE
  <2>1. CASE Teardown(s)
    BY <1>0, <2>1, TeardownServes
  <2>2. CASE Login(s) \/ Disconnect(s)
    BY <1>1, <2>2 DEF Login, Disconnect, tableVars
  <2>3. QED
    BY <1>2, <2>1, <2>2
<1>3. ASSUME NEW s \in Sessions,
             \/ Launch(s) \/ ListParticipants(s) \/ LobbyPhone(s)
             \/ LobbyReject(s) \/ PhoneReject(s)
      PROVE  FALSE
  BY <1>0, <1>1, <1>3, RejectServes, CalmParts
  DEF Launch, ListParticipants, LobbyPhone, LobbyReject, PhoneReject, tableVars
<1>4. ASSUME NEW s \in Sessions, \/ Handle(s) \/ PhoneHangup(s) \/ PhoneExit(s)
      PROVE  FALSE
  <2>1. \E queues : HangupShown(s, queues)
    BY <1>1, <1>4 DEF Handle, PhoneHangup, PhoneExit
  <2>2. parts'[c] \subseteq parts[c]
    BY <1>0, <2>1 DEF HangupShown, HangupLocked, TableTypeOK
  <2>3. QED
    BY <2>2 DEF Joins
<1>5. ASSUME NEW s \in Sessions,
             PhoneCancelAdd(s) \/ \E u \in Users : PhoneAdd(s, u)
      PROVE  FALSE
  BY <1>1, <1>5 DEF PhoneCancelAdd, PhoneAdd, Add, CancelAdd
<1>6. ASSUME NEW s \in Sessions, LobbyAnswer(s) \/ PhoneAnswer(s)
      PROVE  Answer(r, c) /\ RungBy(r, c)
  <2>1. /\ Screen(s) /\ prompt[s] \in CallIds \union {NoCall}
        /\ app[s].incoming \in CallIds \union {NoCall}
    BY CalmParts
  <2>2. \E d \in CallIds : Answer(s, d) /\ RungBy(s, d)
    BY <1>1, <1>6, <2>1 DEF LobbyAnswer, PhoneAnswer, Screen, tableVars
  <2>3. QED
    BY <2>2, AnswerServes
<1>7. ASSUME NEW s \in Sessions, NEW u \in Users, NEW d \in CallIds,
             LobbyDial(s, u, d) \/ PhoneDial(s, u, d)
      PROVE  Dial(r, u, c)
  <2>1. Dial(s, u, d)
    BY <1>7 DEF LobbyDial, PhoneDial
  <2>2. r = s /\ c = d
    BY <1>0, <2>1, DialServes
  <2>3. QED
    BY <2>1, <2>2
<1>8. ASSUME NEW g, TickOf(g) \/ ReRingOf(g)
      PROVE  FALSE
  BY <1>1, <1>8 DEF TickOf, ReRingOf, Tick, ReRing
<1>9. Next
  BY <1>1 DEF vars, tableVars
<1>10. QED
  BY <1>2, <1>3, <1>4, <1>5, <1>6, <1>7, <1>8, <1>9 DEF Next

(* A fresh call, or one that still rings: nobody was told who is in it.    *)
LEMMA RingingTellsNothing ==
  ASSUME notify \in Maildir, QueuesOK, NEW r \in Sessions, NEW c \in CallIds,
         state[c] \notin {"active", "over"}, NEW u, NEW V
  PROVE  Unnamed(notify[r], c, u) /\ Foretells(notify[r], c, V, V, u)
<1>1. ASSUME NEW i \in 1 .. Len(notify[r]), Tells(notify[r][i], c, u)
      PROVE  FALSE
  <2>1. EventOK(r, notify[r][i])
    BY DEF QueuesOK, EventsOf
  <2>2. QED
    BY <1>1, <2>1 DEF EventOK, Tells
<1>2. QED
  BY <1>1 DEF Unnamed, Foretells

LEMMA TwoPartyJoins ==
  ASSUME CalmState, PhoneInv', TwoParty, Apart, [Next]_vars
  PROVE  Apart' /\ FreshJoins
<1>0. /\ TableTypeOK /\ TableTypeOK' /\ notify \in Maildir /\ CallShape /\ QueuesOK
  BY DEF CalmState, PhoneInv, TypeInv, TableOK, TableInv
<1>1. ASSUME NEW r \in Sessions, NEW c \in CallIds, Joins(r, c)
      PROVE  /\ state[c] \in {"unused", "pending"}
             /\ \A t \in parts'[c] : Owner[t] = Owner[r] => t = r
  <2>1. CASE \E u \in Users : Dial(r, u, c)
    BY <1>0, <2>1 DEF Dial, TableTypeOK
  <2>2. CASE Answer(r, c) /\ RungBy(r, c)
    <3>1. AnswerDial(r, c) /\ callee[c] = Owner[r]
      <4>1. ~AddRings(c, Owner[r])
        BY RegistryAssumption DEF TwoParty
      <4>2. AnswerDial(r, c)
        BY <2>2, <4>1 DEF Answer, AnswerAdd
      <4>3. state[c] = "pending" /\ c # NoCall
        BY <4>2, PhoneAssumption DEF AnswerDial
      <4>4. QED
        BY <2>2, <4>2, <4>3 DEF RungBy
    <3>2. PICK s \in Sessions : parts[c] = {s} /\ Owner[s] # callee[c]
      BY <1>0, <3>1 DEF AnswerDial, CallShape
    <3>3. parts'[c] = {s, r}
      BY <1>0, <3>1, <3>2 DEF AnswerDial, TableTypeOK
    <3>4. QED
      BY <3>1, <3>2, <3>3 DEF AnswerDial
  <2>3. QED
    BY <1>1, <2>1, <2>2, Joiners
<1>2. FreshJoins
  <2> SUFFICES ASSUME NEW c \in CallIds, NEW r \in parts'[c] \ parts[c], NEW u
               PROVE  /\ Unnamed(notify[r], c, u)
                      /\ Foretells(notify[r], c, PeersOf(r, c), PeersOf(r, c), u)
    BY DEF FreshJoins
  <2>1. r \in Sessions /\ Joins(r, c)
    BY <1>0 DEF TableTypeOK, Joins
  <2>2. QED
    BY <1>0, <1>1, <2>1, RingingTellsNothing
<1>3. Apart'
  <2> SUFFICES ASSUME NEW c \in CallIds, NEW s \in parts'[c], NEW t \in parts'[c],
                      Owner[s] = Owner[t]
               PROVE  s = t
    BY DEF Apart
  <2>1. s \in Sessions /\ t \in Sessions
    BY <1>0 DEF TableTypeOK
  <2>2. CASE s \in parts[c] /\ t \in parts[c]
    BY <2>2 DEF Apart
  <2>3. CASE s \notin parts[c]
    BY <1>1, <2>1, <2>3 DEF Joins
  <2>4. CASE t \notin parts[c]
    BY <1>1, <2>1, <2>4 DEF Joins
  <2>5. QED
    BY <2>2, <2>3, <2>4
<1>4. QED
  BY <1>2, <1>3

(* In calls of two the names are right without any such condition, however *)
(* many accounts call, answer, hang up and disconnect, and however many    *)
(* sessions each has (Dial, Answer, hangupLocked and handlePhoneEvent).    *)
THEOREM TwoPartyNames == Spec /\ []Room /\ []TwoParty => []ScreenMatchesCall
<1> DEFINE Inv == (Calm => Apart) /\ ViewsInv
<1>1. Init => Inv
  <2>1. Init => Apart
    BY DEF Init, TableInit, Apart
  <2>2. QED
    BY <2>1, InitViews
<1>2. /\ PhoneInv /\ PhoneInv' /\ CalmInv /\ Room /\ TwoParty /\ [Next]_vars /\ Inv
      => Inv'
  <2> SUFFICES ASSUME PhoneInv, PhoneInv', CalmInv, Room, TwoParty, [Next]_vars, Inv
               PROVE  Inv'
    OBVIOUS
  <2>1. CASE Calm
    <3>1. CalmState
      BY <2>1 DEF CalmState, CalmInv
    <3>2. Apart' /\ FreshJoins
      BY <2>1, <3>1, TwoPartyJoins
    <3>3. QED
      BY <3>2, NextViews
  <2>2. CASE ~Calm
    <3>1. ~Calm'
      BY <2>2, DoorsFixed DEF Calm
    <3>2. QED
      BY <3>1 DEF ViewsInv
  <2>3. QED
    BY <2>1, <2>2
<1>3. QED
  BY CalmProved, <1>1, <1>2, ViewsMatch, PTL DEF Spec

=============================================================================

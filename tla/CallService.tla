----------------------------- MODULE CallService -----------------------------
(***************************************************************************)
(* The call table and the registry under any client that keeps to what     *)
(* call.go says of its callers:                                            *)
(*                                                                         *)
(*   - a session dials or answers only while it is in no call (call.go,    *)
(*     admitLocked: "a Dial only ever originates from an idle session";    *)
(*     HangupSession: "A session is only ever in one call at a time");     *)
(*   - a session answers and rejects only calls whose ring was sent to it, *)
(*     and adds people only to a call that it is in.                       *)
(*                                                                         *)
(* Nothing else is assumed.  A client may act on a ring at any later time, *)
(* long after it was answered elsewhere or cancelled, so whether and when  *)
(* an event is handled or dropped makes no difference here and notify is   *)
(* only written; PhoneSession is where it is read.  A participant may      *)
(* cancel the invitations of others (CancelAdd does not look at the        *)
(* inviter), hang up at any moment and disconnect between any two steps.   *)
(***************************************************************************)
EXTENDS CallTable

VARIABLE
  rung        \* the calls whose ring was ever sent to each session

vars == <<regVars, tableVars, rung>>

(* The table, the channels and what was heard are in range, and no channel *)
(* holds more than it can (SendToSession).                                 *)
TypeOK ==
  /\ RegTypeOK
  /\ TableTypeOK
  /\ rung \in [Sessions -> SUBSET CallIds]

Init ==
  /\ RegInit
  /\ TableInit
  /\ rung = [s \in Sessions |-> {}]

(* The sessions in set S were sent the ring of call c.                     *)
Hear(S, c) ==
  rung' = [s \in Sessions |->
             IF s \in S /\ phase[s] = "live" THEN rung[s] \union {c} ELSE rung[s]]

-----------------------------------------------------------------------------
(* What the program of a live session does.                                *)
PlaceCall(s, u, c) ==
  /\ phase[s] = "live"
  /\ ~InCall(s)
  /\ Dial(s, u, c)
  /\ Hear(Ringable(u), c)

AcceptCall(s, c) ==
  /\ phase[s] = "live"
  /\ c \in rung[s]
  /\ ~InCall(s)
  /\ Answer(s, c)
  /\ UNCHANGED rung

DeclineCall(s, c) ==
  /\ phase[s] = "live"
  /\ c \in rung[s]
  /\ Reject(Owner[s], c)
  /\ UNCHANGED rung

LeaveCall(s, c) ==
  /\ phase[s] = "live"
  /\ Hangup(s, c)
  /\ UNCHANGED rung

Invite(s, u, c) ==
  /\ phase[s] = "live"
  /\ s \in parts[c]
  /\ Add(Owner[s], u, c)
  /\ Hear(Ringable(u), c)

CancelInvite(s, u, c) ==
  /\ phase[s] = "live"
  /\ s \in parts[c]
  /\ state[c] = "active"
  /\ u # Owner[s]
  /\ CancelAdd(Owner[s], u, c)
  /\ UNCHANGED rung

(* The life of the connection around the program.                          *)
Connect(s) == Register(s) /\ UNCHANGED <<tableVars, rung>>

Disconnect(s) ==
  /\ Drop(s)
  /\ rung' = [rung EXCEPT ![s] = {}]
  /\ UNCHANGED tableVars

Teardown(s) ==
  /\ \/ HangupSession(s)
     \/ Unregister(s) /\ UNCHANGED tableVars
     \/ ReapUnreachableRings(s)
  /\ UNCHANGED rung

RingAgain(g) ==
  /\ ReRing(g)
  /\ \/ Exists(g.call) /\ Hear(Ringable(g.to), g.call)
     \/ ~Exists(g.call) /\ UNCHANGED rung

Next ==
  \/ \E s \in Sessions :
       \/ Connect(s)
       \/ Disconnect(s)
       \/ Teardown(s)
       \/ \E c \in CallIds :
            \/ AcceptCall(s, c)
            \/ DeclineCall(s, c)
            \/ LeaveCall(s, c)
            \/ \E u \in Users :
                 \/ PlaceCall(s, u, c)
                 \/ Invite(s, u, c)
                 \/ CancelInvite(s, u, c)
  \/ \E g \in Ringers : Tick(g) /\ UNCHANGED rung
  \/ \E g \in ticked : RingAgain(g)

Spec == Init /\ [][Next]_vars

-----------------------------------------------------------------------------
(* No call keeps a participant whose teardown has passed HangupSession.    *)
NoPhantom ==
  \A c \in CallIds : \A s \in parts[c] : phase[s] \in {"live", "dropped"}

(* Nobody is rung who cannot be reached, except while the teardown that    *)
(* will end the ring is still on its way: the order HangupSession,         *)
(* Unregister, ReapUnreachableRings leaves no stale ring behind.           *)
RingHasReach ==
  \A u \in Users :
    BeingRung(u) => \/ Connected(u)
                    \/ \E s \in Sessions : Owner[s] = u /\ phase[s] = "left"

(* Whatever rings a session was sent, however long ago, a pending call can *)
(* only be answered or refused by a session of the account it calls: the   *)
(* pending branches of Answer and Reject do not check it.                  *)
RingReachesCalleeOnly ==
  \A s \in Sessions : \A c \in rung[s] :
    state[c] = "pending" => callee[c] = Owner[s]

(* A session becomes a participant only by placing a fresh call or while   *)
(* its account is being rung by that very call: nobody slips into a call   *)
(* with an old prompt.                                                     *)
JoinsByRing ==
  [][\A c \in CallIds : \A s \in parts'[c] \ parts[c] :
       state[c] = "unused" \/ Rings(c, Owner[s])]_vars

(* What the prompts and the goroutines of call.go remember is about calls  *)
(* that were placed, and a goroutine about to ring again for a call still  *)
(* unanswered rings its callee.  With the invariants above it makes an     *)
(* inductive invariant (CallService_proofs).                               *)
MemoryIsOfCalls ==
  /\ \A s \in Sessions : \A c \in rung[s] : state[c] # "unused"
  /\ \A g \in ticked :
       /\ state[g.call] # "unused"
       /\ state[g.call] = "pending" => g.to = callee[g.call]

IInv ==
  /\ TypeOK
  /\ OneRingPerCallee
  /\ CallShape
  /\ OneCallPerSession
  /\ NoPhantom
  /\ RingHasReach
  /\ RingReachesCalleeOnly
  /\ MemoryIsOfCalls

(* CallService implements Switchboard (Dial to HangupSession, ReapRings).   *)
Implements == SW!Spec

=============================================================================

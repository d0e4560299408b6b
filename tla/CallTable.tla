------------------------------ MODULE CallTable ------------------------------
(***************************************************************************)
(* The process-wide call table (type Calls in internal/phone/call.go).     *)
(*                                                                         *)
(* Every method runs under c.mu from its first to its last line, so each   *)
(* is one action.  The registry has a lock of its own: a session may       *)
(* register or unregister while a method runs, which the model orders      *)
(* before or after the method.                                             *)
(*                                                                         *)
(* This module holds the operations only.  Who may call them, and when, is *)
(* the business of the modules that extend it: CallService (any client     *)
(* that keeps to what call.go states of its callers) and PhoneSession (the *)
(* lobby and the PHONE app as they are written).                           *)
(***************************************************************************)
EXTENDS Registry

CONSTANT
  Tickers     \* bound: the kinds of ring goroutine whose ticker fires

ASSUME TickersAssumption == Tickers \subseteq {"dial", "add"}

VARIABLES
  state,      \* CallState of each call; "over" once deleted from c.calls
  callee,     \* Call.Callee, while the call is in c.calls
  parts,      \* Call.participants, as sessions
  invites,    \* c.pendingAdds: invites[c][u] is the inviter, or NoUser
  ticked      \* ring goroutines past their ticker, waiting for c.mu

tableVars == <<state, callee, parts, invites, ticked>>

CallStates == {"unused", "pending", "active", "over"}

(***************************************************************************)
(* A ring goroutine, by the entry point that started it and what it        *)
(* captured: the call, the account to ring, and the inviter (ADD only).    *)
(***************************************************************************)
Ringers == [kind : {"dial", "add"}, call : CallIds, to : Users,
            by : Users \union {NoUser}]

TableTypeOK ==
  /\ state \in [CallIds -> CallStates]
  /\ callee \in [CallIds -> Users \union {NoUser}]
  /\ parts \in [CallIds -> SUBSET Sessions]
  /\ invites \in [CallIds -> [Users -> Users \union {NoUser}]]
  /\ ticked \subseteq Ringers

NoInvites == [u \in Users |-> NoUser]

TableInit ==
  /\ state = [c \in CallIds |-> "unused"]
  /\ callee = [c \in CallIds |-> NoUser]
  /\ parts = [c \in CallIds |-> {}]
  /\ invites = [c \in CallIds |-> NoInvites]
  /\ ticked = {}

-----------------------------------------------------------------------------
Exists(c) == state[c] \in {"pending", "active"}

(* The accounts that call c is ringing: by DIAL or by ADD.                 *)
DialRings(c, u) == state[c] = "pending" /\ callee[c] = u
AddRings(c, u) == invites[c][u] # NoUser
Rings(c, u) == DialRings(c, u) \/ AddRings(c, u)
BeingRung(u) == \E c \in CallIds : Rings(c, u)

InCall(s) == \E c \in CallIds : s \in parts[c]

(* Mutant of Ringable: the fan-out ignores whose sessions they are.        *)
RingableAnyone(u) == {s \in Registered : ~InCall(s)}

(* ringableSessionsLocked: the sessions a ring for u would reach now.      *)
Ringable(u) == {s \in SessionsOf(u) : ~InCall(s)}

(* Mutant of Admit: without the being-rung check.                          *)
AdmitWhileRung(from, to) == from # to /\ Connected(to) /\ Ringable(to) # {}

(* admitLocked: the admission rule that Dial and Add share.  A refused     *)
(* request changes nothing.                                                *)
Admit(from, to) ==
  /\ from # to
  /\ Connected(to)
  /\ ~BeingRung(to)
  /\ Ringable(to) # {}

Ring(c, u)      == [type |-> "ring", call |-> c, from |-> NoUser, to |-> u]
Ringing(c, u)   == [type |-> "ringing", call |-> c, from |-> NoUser, to |-> u]
Answered(c, u)  == [type |-> "answer", call |-> c, from |-> NoUser, to |-> u]
Elsewhere(c, u) == [type |-> "elsewhere", call |-> c, from |-> NoUser, to |-> u]
Declined(c, u)  == [type |-> "reject", call |-> c, from |-> NoUser, to |-> u]
Left(c, who)    == [type |-> "hangup", call |-> c, from |-> who, to |-> NoUser]
Cancelled(c, who, u) == [type |-> "hangup", call |-> c, from |-> who, to |-> u]
Lost(why, c, u) == [type |-> why, call |-> c, from |-> NoUser, to |-> u]

(* The participants of call c whose username is not u.                     *)
Others(c, u) == {p \in parts[c] : Owner[p] # u}

-----------------------------------------------------------------------------
(* Dial: session s places call c to account u and rings its idle sessions. *)
Dial(s, u, c) ==
  /\ state[c] = "unused"
  /\ Admit(Owner[s], u)
  /\ state' = [state EXCEPT ![c] = "pending"]
  /\ callee' = [callee EXCEPT ![c] = u]
  /\ parts' = [parts EXCEPT ![c] = {s}]
  /\ notify' = Send(notify, Ringable(u), Ring(c, u))
  /\ UNCHANGED <<phase, invites, ticked>>

(* Answer, pending call: the call goes live and the callee's other         *)
(* sessions are told that it was answered elsewhere.                       *)
AnswerDial(s, c) ==
  /\ state[c] = "pending"
  /\ state' = [state EXCEPT ![c] = "active"]
  /\ parts' = [parts EXCEPT ![c] = @ \union {s}]
  /\ notify' = Send(Send(notify, parts[c], Answered(c, Owner[s])),
                    SessionsOf(Owner[s]) \ {s}, Elsewhere(c, Owner[s]))
  /\ UNCHANGED <<phase, callee, invites, ticked>>

(* Bound: a session does not answer a ring of a call that it is in.  The   *)
(* code would append it once more, and a hangup take only one of the two   *)
(* away; the participants of the model are a set.                          *)
NotIn(s, c) == s \notin parts[c]

(* Mutant of AnswerAdd: an active call is joined without an invitation.    *)
AnswerAddUninvited(s, c) ==
  /\ state[c] = "active"
  /\ NotIn(s, c)
  /\ parts' = [parts EXCEPT ![c] = @ \union {s}]
  /\ invites' = [invites EXCEPT ![c][Owner[s]] = NoUser]
  /\ notify' = Send(notify, parts[c] \ {s}, Answered(c, Owner[s]))
  /\ UNCHANGED <<phase, state, callee, ticked>>

(* Mutant of AnswerAdd: the ring goes on after it was answered.            *)
AnswerAddRingsOn(s, c) ==
  /\ state[c] = "active"
  /\ AddRings(c, Owner[s])
  /\ NotIn(s, c)
  /\ parts' = [parts EXCEPT ![c] = @ \union {s}]
  /\ notify' = Send(notify, parts[c] \ {s}, Answered(c, Owner[s]))
  /\ UNCHANGED <<phase, state, callee, invites, ticked>>

(* Answer, active call: only with an outstanding invitation, which it      *)
(* uses up.  Everyone else in the call is told; the callee's other         *)
(* sessions are not.                                                       *)
AnswerAdd(s, c) ==
  /\ state[c] = "active"
  /\ AddRings(c, Owner[s])
  /\ NotIn(s, c)
  /\ parts' = [parts EXCEPT ![c] = @ \union {s}]
  /\ invites' = [invites EXCEPT ![c][Owner[s]] = NoUser]
  /\ notify' = Send(notify, parts[c] \ {s}, Answered(c, Owner[s]))
  /\ UNCHANGED <<phase, state, callee, ticked>>

Answer(s, c) == AnswerDial(s, c) \/ AnswerAdd(s, c)

(* Mutant of RejectDial: the caller is sent a hangup instead of a reject.  *)
RejectAsHangup(u, c) ==
  /\ state[c] = "pending"
  /\ state' = [state EXCEPT ![c] = "over"]
  /\ callee' = [callee EXCEPT ![c] = NoUser]
  /\ parts' = [parts EXCEPT ![c] = {}]
  /\ notify' = Send(notify, parts[c], Left(c, u))
  /\ UNCHANGED <<phase, invites, ticked>>

(* Reject, pending call: the call is deleted and the caller told.          *)
RejectDial(u, c) ==
  /\ state[c] = "pending"
  /\ state' = [state EXCEPT ![c] = "over"]
  /\ callee' = [callee EXCEPT ![c] = NoUser]
  /\ parts' = [parts EXCEPT ![c] = {}]
  /\ notify' = Send(notify, parts[c], Declined(c, u))
  /\ UNCHANGED <<phase, invites, ticked>>

(* Reject, active call: an outstanding invitation of u is withdrawn, and   *)
(* the participants are told that u declined whether there was one or not. *)
RejectAdd(u, c) ==
  /\ state[c] = "active"
  /\ invites' = [invites EXCEPT ![c][u] = NoUser]
  /\ notify' = Send(notify, parts[c], Declined(c, u))
  /\ UNCHANGED <<phase, state, callee, parts, ticked>>

Reject(u, c) == RejectDial(u, c) \/ RejectAdd(u, c)

(* Who the accounts rung by c are told cancelled, when s leaves it last:   *)
(* the caller of a pending call, the inviter of a conference ring.         *)
Canceller(c, s, u) == IF DialRings(c, u) THEN Owner[s] ELSE invites[c][u]

(* hangupLocked: s leaves c, with these queues before it does.  The last   *)
(* one out deletes the call and cancels every ring it had outstanding.     *)
HangupLocked(c, s, queues) ==
  LET rest == parts[c] \ {s}
      rung == {r \in Sessions : Rings(c, Owner[r])}
  IN IF rest # {}
     THEN /\ parts' = [parts EXCEPT ![c] = rest]
          /\ notify' = Send(queues, rest, Left(c, Owner[s]))
          /\ UNCHANGED <<state, callee, invites>>
     ELSE /\ parts' = [parts EXCEPT ![c] = {}]
          /\ state' = [state EXCEPT ![c] = "over"]
          /\ callee' = [callee EXCEPT ![c] = NoUser]
          /\ invites' = [invites EXCEPT ![c] = NoInvites]
          /\ notify' = Post(queues,
               [r \in rung |->
                  Cancelled(c, Canceller(c, s, Owner[r]), Owner[r])])

(* Hangup: nothing happens unless s is a participant of c.                 *)
Hangup(s, c) ==
  /\ s \in parts[c]
  /\ HangupLocked(c, s, notify)
  /\ UNCHANGED <<phase, ticked>>

(* Mutant of HangupSession: a call that still rings is not left.           *)
HangupSessionActive(s) ==
  /\ phase[s] = "dropped"
  /\ phase' = [phase EXCEPT ![s] = "hungup"]
  /\ \/ \E c \in CallIds :
          s \in parts[c] /\ state[c] = "active" /\ HangupLocked(c, s, notify)
     \/ /\ \A c \in CallIds : s \in parts[c] => state[c] # "active"
        /\ UNCHANGED <<state, callee, parts, invites, notify>>
  /\ UNCHANGED ticked

(* HangupSession, the first step of the teardown: s leaves one call it is  *)
(* in, the first that the map iteration finds.                             *)
HangupSession(s) ==
  /\ phase[s] = "dropped"
  /\ phase' = [phase EXCEPT ![s] = "hungup"]
  /\ \/ \E c \in CallIds : s \in parts[c] /\ HangupLocked(c, s, notify)
     \/ ~InCall(s) /\ UNCHANGED <<state, callee, parts, invites, notify>>
  /\ UNCHANGED ticked

(* Add: a participant of call c, of account from, rings account u.         *)
Add(from, u, c) ==
  /\ state[c] = "active"
  /\ Admit(from, u)
  /\ invites' = [invites EXCEPT ![c][u] = from]
  /\ notify' = Send(Send(notify, Ringable(u), Ring(c, u)),
                    Others(c, from), Ringing(c, u))
  /\ UNCHANGED <<phase, state, callee, parts, ticked>>

(* CancelAdd: the invitation is withdrawn if it is still there; the        *)
(* callee's sessions and the other participants are told in any case.      *)
CancelAdd(from, u, c) ==
  /\ invites' = [invites EXCEPT ![c][u] = NoUser]
  /\ notify' = Send(Send(notify, SessionsOf(u), Cancelled(c, from, u)),
                    Others(c, from), Cancelled(c, from, u))
  /\ UNCHANGED <<phase, state, callee, parts, ticked>>

-----------------------------------------------------------------------------
(* Mutant of ReapRings: conference rings are forgotten.                    *)
ReapDialsOnly(u) ==
  /\ state' = [c \in CallIds |-> IF DialRings(c, u) THEN "over" ELSE state[c]]
  /\ callee' = [c \in CallIds |-> IF DialRings(c, u) THEN NoUser ELSE callee[c]]
  /\ parts' = [c \in CallIds |-> IF DialRings(c, u) THEN {} ELSE parts[c]]
  /\ UNCHANGED <<invites, notify>>

(* Mutant of ReapRings: pending calls are forgotten.                       *)
ReapAddsOnly(u) ==
  /\ invites' = [c \in CallIds |-> [invites[c] EXCEPT ![u] = NoUser]]
  /\ UNCHANGED <<state, callee, parts, notify>>

(* Mutant of ReapRings: the rings end and nobody is told.                  *)
ReapSilently(u) ==
  /\ state' = [c \in CallIds |-> IF DialRings(c, u) THEN "over" ELSE state[c]]
  /\ callee' = [c \in CallIds |-> IF DialRings(c, u) THEN NoUser ELSE callee[c]]
  /\ parts' = [c \in CallIds |-> IF DialRings(c, u) THEN {} ELSE parts[c]]
  /\ invites' = [c \in CallIds |-> [invites[c] EXCEPT ![u] = NoUser]]
  /\ UNCHANGED notify

(* ReapUnreachableRings, the last step of the teardown of a session of u:  *)
(* with no session left to ring, every ring for u ends and the ringing     *)
(* side is told why.                                                       *)
ReapRings(u) ==
  LET why  == IF Connected(u) THEN "unavailable" ELSE "gone"
      dead == {c \in CallIds : DialRings(c, u)}
      lost == dead \union {c \in CallIds : AddRings(c, u)}
      told == {s \in Sessions : \E c \in lost : s \in parts[c]}
  IN /\ state' = [c \in CallIds |-> IF c \in dead THEN "over" ELSE state[c]]
     /\ callee' = [c \in CallIds |-> IF c \in dead THEN NoUser ELSE callee[c]]
     /\ parts' = [c \in CallIds |-> IF c \in dead THEN {} ELSE parts[c]]
     /\ invites' = [c \in CallIds |-> [invites[c] EXCEPT ![u] = NoUser]]
     \* one ring per callee: lost has at most one member
     /\ notify' = Post(notify,
          [s \in told |-> Lost(why, CHOOSE c \in lost : s \in parts[c], u)])

ReapUnreachableRings(s) ==
  /\ phase[s] = "left"
  /\ phase' = [phase EXCEPT ![s] = "gone"]
  /\ \/ Ringable(Owner[s]) = {} /\ ReapRings(Owner[s])
     \/ Ringable(Owner[s]) # {}
        /\ UNCHANGED <<state, callee, parts, invites, notify>>
  /\ UNCHANGED ticked

-----------------------------------------------------------------------------
(* The goroutines started by Dial and Add.  A goroutine whose ticker fired *)
(* waits for c.mu; the ring may be answered, refused or cancelled before   *)
(* it gets the lock, and it then looks only at whether the call exists.    *)
Tick(g) ==
  /\ g \notin ticked
  /\ g.kind \in Tickers
  /\ \/ g.kind = "dial" /\ DialRings(g.call, g.to) /\ g.by = NoUser
     \/ g.kind = "add" /\ AddRings(g.call, g.to) /\ g.by = invites[g.call][g.to]
  /\ ticked' = ticked \union {g}
  /\ UNCHANGED <<phase, notify, state, callee, parts, invites>>

(* Mutant of ReRing: the test for the call is the wrong way round.         *)
ReRingWhenOver(g) ==
  /\ g \in ticked
  /\ ticked' = ticked \ {g}
  /\ \/ ~Exists(g.call) /\ notify' = Send(notify, Ringable(g.to), Ring(g.call, g.to))
     \/ Exists(g.call) /\ UNCHANGED notify
  /\ UNCHANGED <<phase, state, callee, parts, invites>>

ReRing(g) ==
  /\ g \in ticked
  /\ ticked' = ticked \ {g}
  /\ \/ /\ Exists(g.call)
        /\ notify' =
             LET rung == Send(notify, Ringable(g.to), Ring(g.call, g.to))
             IN IF g.kind = "dial" THEN rung
                ELSE Send(rung, Others(g.call, g.by), Ringing(g.call, g.to))
     \/ ~Exists(g.call) /\ UNCHANGED notify
  /\ UNCHANGED <<phase, state, callee, parts, invites>>

-----------------------------------------------------------------------------
(* An account is rung by at most one call at a time, whoever rings it and  *)
(* by whatever entry point (admitLocked; design-doc "one ring per callee   *)
(* at a time, with no per-call exception").                                *)
OneRingPerCallee ==
  \A u \in Users : \A c, d \in CallIds : Rings(c, u) /\ Rings(d, u) => c = d

(* The shape every method relies on without checking: a pending call has   *)
(* its caller as its only participant, of another account than the callee, *)
(* and no conference rings; an active call is never empty; a call that was *)
(* deleted has left nothing behind that could ring or be joined.           *)
CallShape ==
  \A c \in CallIds :
    /\ state[c] = "pending" =>
         \E s \in Sessions : parts[c] = {s} /\ Owner[s] # callee[c]
    /\ state[c] = "active" => parts[c] # {}
    /\ ~Exists(c) => parts[c] = {}
    /\ state[c] # "active" => \A u \in Users : ~AddRings(c, u)

(* A session is a participant of at most one call (HangupSession leaves    *)
(* only the first one it finds).  The table does not see to it: it holds   *)
(* of clients that dial and answer only while in none.                     *)
OneCallPerSession ==
  \A s \in Sessions : \A c, d \in CallIds :
    s \in parts[c] /\ s \in parts[d] => c = d

(* The table seen as the switchboard: who is in each call, and whom it is  *)
(* ringing by DIAL or by ADD.                                              *)
SW == INSTANCE Switchboard WITH
        members <- parts,
        ringing <- {p \in CallIds \X Users : Rings(p[1], p[2])}

=============================================================================

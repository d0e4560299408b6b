----------------------------- MODULE Switchboard -----------------------------
(***************************************************************************)
(* What the PHONE facility promises, with no sessions coming and going, no *)
(* queues and no goroutines: who is in which call, and whom each call is   *)
(* ringing.  CallService and PhoneSession implement it.                    *)
(***************************************************************************)
CONSTANTS Users, Sessions, Owner, CallIds

VARIABLES
  members,    \* the sessions in each call
  ringing     \* the accounts each call is ringing, as pairs <<call, account>>

swVars == <<members, ringing>>

Idle(s) == \A c \in CallIds : s \notin members[c]
Unrung(u) == \A p \in ringing : p[2] # u

Init ==
  /\ members = [c \in CallIds |-> {}]
  /\ ringing = {}

(* An idle session starts a call, which rings someone.                     *)
Place(s, u, c) ==
  /\ members[c] = {}
  /\ Idle(s)
  /\ members' = [members EXCEPT ![c] = {s}]
  /\ Unrung(u)
  /\ ringing' = ringing \union {<<c, u>>}

(* A call that has members rings one more account.                         *)
Invite(u, c) ==
  /\ members[c] # {}
  /\ Unrung(u)
  /\ ringing' = ringing \union {<<c, u>>}
  /\ UNCHANGED members

(* One idle session of the account that is rung takes the ring.            *)
Join(s, c) ==
  /\ Idle(s)
  /\ members' = [members EXCEPT ![c] = @ \union {s}]
  /\ <<c, Owner[s]>> \in ringing
  /\ ringing' = ringing \ {<<c, Owner[s]>>}

(* A ring ends without an answer; a caller who waits alone goes with it.   *)
EndRing(u, c) ==
  /\ <<c, u>> \in ringing
  /\ ringing' = ringing \ {<<c, u>>}
  /\ \/ UNCHANGED members
     \/ /\ \E s \in Sessions : members[c] = {s}
        /\ members' = [members EXCEPT ![c] = {}]

(* A session leaves; the last one ends the rings of the call.              *)
Leave(s, c) ==
  /\ s \in members[c]
  /\ members' = [members EXCEPT ![c] = @ \ {s}]
  /\ ringing' = IF members[c] = {s} THEN {p \in ringing : p[1] # c} ELSE ringing

Next ==
  \E c \in CallIds :
    \/ \E s \in Sessions, u \in Users : Place(s, u, c)
    \/ \E u \in Users : Invite(u, c) \/ EndRing(u, c)
    \/ \E s \in Sessions : Join(s, c) \/ Leave(s, c)

Spec == Init /\ [][Next]_swVars
=============================================================================

------------------------------ MODULE Registry ------------------------------
(***************************************************************************)
(* The process-wide registry of connected sessions                         *)
(* (internal/registry/registry.go) and the life of one SSH session around  *)
(* it (sessionMiddleware in cmd/server/main.go).                           *)
(*                                                                         *)
(* The registry is per account for presence and per session for delivery:  *)
(* every session owns one bounded notify channel, sends never block, and a *)
(* full channel drops the event.  A session identifier is minted once and  *)
(* never reused (nextID only grows), so a session is modelled by a value   *)
(* that goes through its life once.                                        *)
(***************************************************************************)
EXTENDS Naturals, Sequences, FiniteSets

CONSTANTS
  Users,      \* the accounts
  Sessions,   \* the session identifiers Register may mint
  Owner,      \* the account each session logs in to
  CallIds,    \* the call identifiers Dial may mint (user->user@nanoseconds)
  NoUser,     \* the empty username
  NotifyCap   \* events a session holds before the next one is dropped

ASSUME RegistryAssumption ==
  /\ Owner \in [Sessions -> Users]
  /\ NoUser \notin Users
  /\ NotifyCap \in Nat \ {0}

VARIABLES
  phase,      \* where each session is in its life
  notify      \* the events sent to each session and not yet handled by it

regVars == <<phase, notify>>

(***************************************************************************)
(* A session is registered ("live", its program running), then its program *)
(* ends ("dropped"), and the deferred teardown of sessionMiddleware runs   *)
(* in three separately locked steps: HangupSession ("hungup"), Unregister  *)
(* ("left") and ReapUnreachableRings ("gone").                             *)
(***************************************************************************)
Phases == {"new", "live", "dropped", "hungup", "left", "gone"}

EventTypes == {"ring", "hangup", "reject", "answer", "ringing",
               "elsewhere", "gone", "unavailable"}

(***************************************************************************)
(* A PhoneEvent.  "to" is the Callee field; "from" is the Caller field,    *)
(* kept where a receiver or a property depends on it (hangups) and NoUser  *)
(* where it is only displayed.                                             *)
(***************************************************************************)
Event == [type : EventTypes, call : CallIds,
          from : Users \union {NoUser}, to : Users \union {NoUser}]

RegTypeOK ==
  /\ phase \in [Sessions -> Phases]
  /\ notify \in [Sessions -> Seq(Event)]
  /\ \A s \in Sessions : Len(notify[s]) <= NotifyCap

RegInit ==
  /\ phase = [s \in Sessions |-> "new"]
  /\ notify = [s \in Sessions |-> << >>]

-----------------------------------------------------------------------------
(* The sessionIndex, and the account entry derived from it: an account has *)
(* an entry exactly while one of its sessions is registered.               *)
Registered == {s \in Sessions : phase[s] \in {"live", "dropped", "hungup"}}

SessionsOf(u) == {s \in Registered : Owner[s] = u}

Connected(u) == SessionsOf(u) # {}

(***************************************************************************)
(* SendToSession for every session in DOMAIN mail: an unknown session and  *)
(* a full channel both drop the event without telling the sender.  The     *)
(* channel of a registered session whose program has ended still accepts   *)
(* events, but nobody will read them: the model leaves it empty.           *)
(***************************************************************************)
Post(queues, mail) ==
  [s \in Sessions |->
     IF s \in DOMAIN mail /\ phase[s] = "live" /\ Len(queues[s]) < NotifyCap
     THEN Append(queues[s], mail[s])
     ELSE queues[s]]

(* The same event to each of a set of sessions.                            *)
Send(queues, targets, event) == Post(queues, [s \in targets |-> event])

-----------------------------------------------------------------------------
(* Register: a new session with an empty channel.                          *)
Register(s) ==
  /\ phase[s] = "new"
  /\ phase' = [phase EXCEPT ![s] = "live"]
  /\ UNCHANGED notify

(* The session's program ends (QUIT, a dropped connection or a KICK) and   *)
(* abandons what its channel held.                                         *)
Drop(s) ==
  /\ phase[s] = "live"
  /\ phase' = [phase EXCEPT ![s] = "dropped"]
  /\ notify' = [notify EXCEPT ![s] = << >>]

(* Unregister: the session leaves the index and its account.               *)
Unregister(s) ==
  /\ phase[s] = "hungup"
  /\ phase' = [phase EXCEPT ![s] = "left"]
  /\ UNCHANGED notify

=============================================================================

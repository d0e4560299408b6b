---------------------------- MODULE PhoneSession ----------------------------
(***************************************************************************)
(* The client side of PHONE: the lobby (internal/lobby/model.go and the    *)
(* phone commands of commands.go) and the PHONE app (internal/phone/app.go)*)
(* of every session, composed with the call table and the registry.        *)
(*                                                                         *)
(* A session's program handles one message at a time.  Messages are keys,  *)
(* phone events fetched by a receiver goroutine, and the launchAppMsg that *)
(* a lobby command returns: the lobby calls Dial or Answer in the handler  *)
(* of the command and only installs the PHONE app when the launch message  *)
(* comes back, so other messages can be handled in between.                *)
(*                                                                         *)
(* A command is one step: typing it changes only the input line.           *)
(***************************************************************************)
EXTENDS CallTable

CONSTANTS
  NoCall,        \* the empty call identifier
  MaxReceivers,  \* bound: receiver goroutines armed per session
  DoorSets       \* the combinations of doors to look at

(***************************************************************************)
(* Six things can come between what a session shows and what the call      *)
(* table holds.  Each is a door, shut to see what depends on it:           *)
(*   "dialOverRing"   the user places a call while a ring is on screen,    *)
(*                    or answers that ring from within the call;           *)
(*   "slowLaunch"     messages are handled while a launchAppMsg is on its  *)
(*                    way;                                                 *)
(*   "slowLists"      others act between the two halves of ANSWER;         *)
(*   "reopen"         the user leaves PHONE and comes back to the lobby    *)
(*                    (each exit arms one more receiver);                  *)
(*   "otherApps"      SET PLAN, SET PASSWORD, CREATE USER and RESET        *)
(*                    PASSWORD, and the password change forced at login;   *)
(*   "retries"        a ring that nobody answers is sent again.            *)
(***************************************************************************)
AllDoors == {"dialOverRing", "slowLaunch", "slowLists", "reopen", "otherApps", "retries"}

ASSUME PhoneAssumption ==
  /\ NoCall \notin CallIds
  /\ MaxReceivers \in Nat \ {0}
  /\ DoorSets \subseteq SUBSET AllDoors

VARIABLES
  doors,      \* (bound) the doors that are open in this behaviour
  mode,       \* the lobby's activeApp: "lobby" if nil, else "app"
  prompt,     \* the lobby's pendingCallID
  app,        \* the phone.Model of the active app
  launching,  \* launchAppMsg messages in flight, by the model they carry
  armed       \* receiver goroutines waiting on notify

uiVars == <<doors, mode, prompt, app, launching, armed>>
vars == <<regVars, tableVars, uiVars>>

(***************************************************************************)
(* phone.Model: state, callID, callsWith, whether the own viewport is there*)
(* (the others are those of callsWith), pendingIncomingCallID and          *)
(* pendingAddTarget.  "answered": inside the handler of ANSWER, between    *)
(* Calls.Answer and Calls.Participants.  "other": the active app is not    *)
(* PHONE; it ignores phone events.  "forced": the program is the password  *)
(* change forced at login, which has no receiver and never comes back.     *)
(***************************************************************************)
App == [st : {"idle", "pending", "active", "answered", "other", "forced"},
        call : CallIds \union {NoCall},
        peers : SUBSET Users,
        own : BOOLEAN,          \* a viewport of the own name is there
        incoming : CallIds \union {NoCall},
        target : Users \union {NoUser}]

(* The table, the channels and the screens are in range (phone.Model).     *)
TypeOK ==
  /\ RegTypeOK
  /\ TableTypeOK
  /\ doors \in DoorSets
  /\ mode \in [Sessions -> {"lobby", "app"}]
  /\ prompt \in [Sessions -> CallIds \union {NoCall}]
  /\ app \in [Sessions -> App]
  /\ launching \in [Sessions -> SUBSET App]
  /\ armed \in [Sessions -> 0 .. MaxReceivers]

(* NewIdle, New and NewAnswering.                                          *)
IdleApp == [st |-> "idle", call |-> NoCall, peers |-> {}, own |-> TRUE,
            incoming |-> NoCall, target |-> NoUser]
CallingApp(c, u) == [IdleApp EXCEPT !.st = "pending", !.call = c, !.peers = {u}]
AnsweringApp(a, c) == [a EXCEPT !.st = "answered", !.call = c, !.incoming = NoCall]
AnsweredApp(a, us) == [a EXCEPT !.st = "active", !.peers = us, !.own = TRUE]
OtherApp == [IdleApp EXCEPT !.st = "other"]
ForcedApp == [IdleApp EXCEPT !.st = "forced"]

(* goIdle keeps pendingAddTarget.                                          *)
GoIdle(a) == [IdleApp EXCEPT !.target = a.target]

Init ==
  /\ RegInit
  /\ TableInit
  /\ doors \in DoorSets
  /\ mode = [s \in Sessions |-> "lobby"]
  /\ prompt = [s \in Sessions |-> NoCall]
  /\ app = [s \in Sessions |-> IdleApp]
  /\ launching = [s \in Sessions |-> {}]
  /\ armed = [s \in Sessions |-> 0]

-----------------------------------------------------------------------------
Live(s) == phase[s] = "live"
Open(door) == door \in doors

(* The participants whose names the answering session lists as the others. *)
PeersOf(s, c) == {Owner[p] : p \in parts[c]} \ {Owner[s]}

(* Answer would be refused: no such call, or answered already.             *)
AnswerRefused(s, c) ==
  ~Exists(c) \/ (state[c] = "active" /\ ~AddRings(c, Owner[s]))

(* The program is inside a handler, and takes no other message.            *)
Busy(s) == app[s].st = "answered"

(* Nothing but keys typed ahead and events can come before a launch.       *)
Settled(s) == ~Busy(s) /\ (launching[s] = {} \/ Open("slowLaunch"))

SetApp(s, a) == app' = [app EXCEPT ![s] = a]

LaunchApp(s, a) == launching' = [launching EXCEPT ![s] = @ \union {a}]

(* The second half of ANSWER, with c.mu taken anew, lists the participants: *)
(* PHONE shows them at once, the lobby in the app that it launches.        *)
ShowList(s, a) ==
  LET b == AnsweredApp(a, PeersOf(s, a.call))
  IN \/ mode[s] = "app" /\ SetApp(s, b) /\ UNCHANGED launching
     \/ mode[s] = "lobby" /\ SetApp(s, IdleApp) /\ LaunchApp(s, b)

(* What follows Answer in its handler, in this step or in a later one.     *)
AfterAnswer(s, a) ==
  \/ Open("slowLists") /\ SetApp(s, a) /\ UNCHANGED launching
  \/ ~Open("slowLists") /\ ShowList(s, a)

-----------------------------------------------------------------------------
(* The lobby.                                                              *)
AtLobby(s) == Live(s) /\ mode[s] = "lobby" /\ Settled(s)

LobbyDial(s, u, c) ==
  /\ AtLobby(s)
  /\ prompt[s] = NoCall \/ Open("dialOverRing")
  /\ Dial(s, u, c)
  /\ LaunchApp(s, CallingApp(c, u))
  /\ UNCHANGED <<doors, mode, prompt, app, armed>>

LobbyAnswer(s) ==
  /\ AtLobby(s)
  /\ prompt[s] # NoCall
  /\ Answer(s, prompt[s])
  /\ AfterAnswer(s, AnsweringApp(IdleApp, prompt[s]))
  /\ UNCHANGED <<doors, mode, prompt, armed>>

(* rejectCommand leaves pendingCallID as it is.                            *)
LobbyReject(s) ==
  /\ AtLobby(s)
  /\ prompt[s] # NoCall
  /\ Reject(Owner[s], prompt[s])
  /\ UNCHANGED uiVars

LobbyPhone(s) ==
  /\ AtLobby(s)
  /\ \/ LaunchApp(s, IdleApp)
     \/ Open("otherApps") /\ LaunchApp(s, OtherApp)
  /\ UNCHANGED <<doors, regVars, tableVars, mode, prompt, app, armed>>

(* The second half of ANSWER as a step of its own.                         *)
ListParticipants(s) ==
  /\ Live(s)
  /\ Busy(s)
  /\ ShowList(s, app[s])
  /\ UNCHANGED <<doors, regVars, tableVars, mode, prompt, armed>>

(* The launch message arrives.  An app that is already active takes it for *)
(* one of its own messages and ignores it.                                 *)
Launch(s) ==
  /\ Live(s)
  /\ ~Busy(s)
  /\ \E a \in launching[s] :
       /\ launching' = [launching EXCEPT ![s] = @ \ {a}]
       /\ \/ /\ mode[s] = "lobby"
             /\ mode' = [mode EXCEPT ![s] = "app"]
             /\ app' = [app EXCEPT ![s] = a]
             /\ prompt' = [prompt EXCEPT ![s] = NoCall]
          \/ mode[s] = "app" /\ UNCHANGED <<mode, app, prompt>>
  /\ UNCHANGED <<doors, regVars, tableVars, armed>>

-----------------------------------------------------------------------------
(* The PHONE app: commands.  With an ADD ring on screen any key cancels    *)
(* it, so no command can be typed; with an outbound ring any key hangs up. *)
InPhone(s, states) ==
  /\ Live(s)
  /\ mode[s] = "app"
  /\ app[s].st \in states
  /\ app[s].st = "active" => app[s].target = NoUser

(* doDial does not look at pendingIncomingCallID, and keeps it.            *)
PhoneDial(s, u, c) ==
  /\ InPhone(s, {"idle"})
  /\ app[s].incoming = NoCall \/ Open("dialOverRing")
  /\ Dial(s, u, c)
  /\ SetApp(s, [app[s] EXCEPT !.st = "pending", !.call = c, !.peers = {u}])
  /\ UNCHANGED <<doors, mode, prompt, launching, armed>>

PhoneAdd(s, u) ==
  /\ InPhone(s, {"active"})
  /\ Add(Owner[s], u, app[s].call)
  /\ SetApp(s, [app[s] EXCEPT !.target = u])
  /\ UNCHANGED <<doors, mode, prompt, launching, armed>>

(* cancelPendingAdd                                                        *)
PhoneCancelAdd(s) ==
  /\ Live(s)
  /\ mode[s] = "app"
  /\ app[s].st = "active"
  /\ app[s].target # NoUser
  /\ CancelAdd(Owner[s], app[s].target, app[s].call)
  /\ SetApp(s, [app[s] EXCEPT !.target = NoUser])
  /\ UNCHANGED <<doors, mode, prompt, launching, armed>>

(* doAnswer looks at pendingIncomingCallID only, not at the state.         *)
PhoneAnswer(s) ==
  LET c == app[s].incoming
  IN /\ InPhone(s, {"idle", "active"})
     /\ c # NoCall
     /\ \/ /\ Answer(s, c)
           /\ AfterAnswer(s, AnsweringApp(app[s], c))
        \/ /\ AnswerRefused(s, c)
           /\ SetApp(s, [app[s] EXCEPT !.incoming = NoCall])
           /\ UNCHANGED <<regVars, tableVars, launching>>
     /\ UNCHANGED <<doors, mode, prompt, armed>>

PhoneReject(s) ==
  LET c == app[s].incoming
  IN /\ InPhone(s, {"idle", "active"})
     /\ c # NoCall
     /\ \/ Reject(Owner[s], c)
        \/ ~Exists(c) /\ UNCHANGED <<regVars, tableVars>>
     /\ SetApp(s, [app[s] EXCEPT !.incoming = NoCall])
     /\ UNCHANGED <<doors, mode, prompt, launching, armed>>

(* Calls.Hangup of the call on screen: nothing if it is gone already.      *)
HangupShown(s, queues) ==
  \/ /\ app[s].call \in CallIds
     /\ s \in parts[app[s].call]
     /\ HangupLocked(app[s].call, s, queues)
  \/ /\ app[s].call \in CallIds => s \notin parts[app[s].call]
     /\ notify' = queues
     /\ UNCHANGED <<state, callee, parts, invites>>

(* Mutant of PhoneHangup: the screen goes idle and the call goes on.       *)
PhoneHangupScreen(s) ==
  /\ Live(s)
  /\ mode[s] = "app"
  /\ app[s].st \in {"pending", "active"}
  /\ SetApp(s, GoIdle(app[s]))
  /\ UNCHANGED <<doors, regVars, tableVars, mode, prompt, launching, armed>>

(* doHangup, by command or by Ctrl-Z, and by any key while ringing.        *)
PhoneHangup(s) ==
  /\ Live(s)
  /\ mode[s] = "app"
  /\ app[s].st \in {"pending", "active"}
  /\ HangupShown(s, notify)
  /\ SetApp(s, GoIdle(app[s]))
  /\ UNCHANGED <<doors, phase, ticked, mode, prompt, launching, armed>>

(* doExit, or the end of another app.  The lobby re-subscribes although    *)
(* the receiver that was armed before the app started is still waiting.    *)
PhoneExit(s) ==
  /\ \/ Open("reopen") /\ InPhone(s, {"idle", "active"})
     \/ InPhone(s, {"other"})
  /\ armed[s] < MaxReceivers
  /\ HangupShown(s, notify)
  /\ SetApp(s, IdleApp)
  /\ mode' = [mode EXCEPT ![s] = "lobby"]
  /\ armed' = [armed EXCEPT ![s] = @ + 1]
  /\ UNCHANGED <<doors, phase, ticked, prompt, launching>>

-----------------------------------------------------------------------------
(* Phone events.  Each armed receiver has taken one event off the channel  *)
(* and hands it to the program when it is scheduled: any of the first      *)
(* armed[s] events may be handled next.                                    *)
Deliverable(s) == {i \in 1 .. Len(notify[s]) : i <= armed[s]}

Without(q, i) == SubSeq(q, 1, i - 1) \o SubSeq(q, i + 1, Len(q))

(* handleRing                                                              *)
LobbyPrompt(p, e) ==
  CASE e.type = "ring" -> e.call
    [] e.type \in {"hangup", "reject", "elsewhere"} /\ e.call = p -> NoCall
    [] OTHER -> p

(* A participant left, and it was the last one on screen.                  *)
LastPeerLeft(a, e) ==
  /\ e.type = "hangup" /\ e.to = NoUser
  /\ a.st = "active" /\ e.call = a.call
  /\ a.peers \ {e.from} = {}

(* handlePhoneEvent of a session of account self, one operator for each of *)
(* its cases; only ring and elsewhere look beyond the call on screen.      *)
Forget(a, u) == [a EXCEPT !.target = IF @ = u THEN NoUser ELSE @]
Dismiss(a) == [a EXCEPT !.incoming = NoCall]

(* Names are all that it knows the others by.  When a sibling of the same  *)
(* account leaves, the own viewport goes with it; and the own name is one  *)
(* of callsWith if a sibling joins after that.                             *)
Departs(self, a, u) ==
  [a EXCEPT !.peers = @ \ {u}, !.own = @ /\ u # self]
Joined(self, a, u) ==
  IF u = self /\ a.own THEN a
  ELSE [a EXCEPT !.peers = @ \union {u}, !.own = @ \/ u = self]

(* Mutant of OnRing: a ring during a call is offered like any other.       *)
OnRingAlways(a, e) == [a EXCEPT !.incoming = e.call]

OnRing(a, e) == IF a.st = "idle" THEN [a EXCEPT !.incoming = e.call] ELSE a

OnElsewhere(a, e) == IF e.call = a.incoming THEN Dismiss(a) ELSE a

(* Mutant of OnHangup: a cancelled conference ring (to # NoUser) is taken  *)
(* for the departure of the one who cancelled it.                          *)
OnHangupAny(self, a, e) ==
  IF a.st = "active" /\ e.call = a.call THEN Departs(self, a, e.from) ELSE a

OnHangup(self, a, e) ==
  CASE a.st = "idle" /\ e.call = a.incoming -> Dismiss(a)
    [] a.st = "pending" /\ e.call = a.call -> Dismiss(a)
    [] LastPeerLeft(a, e) -> GoIdle(a)
    [] a.st = "active" /\ e.call = a.call /\ e.to = NoUser /\ ~LastPeerLeft(a, e) ->
         Departs(self, a, e.from)
    [] OTHER -> a

(* Mutant of OnAnswer: an answer of some earlier call is believed.         *)
OnAnswerAnyCall(self, a, e) == IF a.st = "pending" THEN [a EXCEPT !.st = "active"] ELSE a

(* Mutant of OnAnswer: the newcomer is taken from the wrong field.         *)
OnAnswerCaller(self, a, e) ==
  IF a.st = "active" /\ e.call = a.call THEN [a EXCEPT !.peers = @ \union {e.from}]
  ELSE a

OnAnswer(self, a, e) ==
  CASE a.st = "pending" /\ e.call = a.call -> [a EXCEPT !.st = "active"]
    [] a.st = "active" /\ e.call = a.call ->
         Forget(Joined(self, a, e.to), e.to)
    [] OTHER -> a

(* EventReject, EventCalleeGone and EventCalleeUnavailable.                *)
OnRefused(a, e) ==
  CASE e.call # a.call -> a
    [] e.call = a.call /\ a.st = "active" -> Forget(a, e.to)
    [] e.call = a.call /\ a.st # "active" -> GoIdle(a)

AppAfter(self, a, e) ==
  CASE e.type = "ring" -> OnRing(a, e)
    [] e.type = "elsewhere" -> OnElsewhere(a, e)
    [] e.type = "hangup" -> OnHangup(self, a, e)
    [] e.type = "answer" -> OnAnswer(self, a, e)
    [] e.type \in {"reject", "gone", "unavailable"} -> OnRefused(a, e)
    [] e.type = "ringing" -> a

Handle(s) ==
  /\ Live(s)
  /\ Settled(s)
  /\ \E i \in Deliverable(s) :
       LET e == notify[s][i]
           queues == [notify EXCEPT ![s] = Without(@, i)]
       IN \/ /\ mode[s] = "lobby"
             /\ prompt' = [prompt EXCEPT ![s] = LobbyPrompt(@, e)]
             /\ notify' = queues
             /\ UNCHANGED <<state, callee, parts, invites, app>>
          \/ /\ mode[s] = "app"
             /\ SetApp(s, AppAfter(Owner[s], app[s], e))
             /\ IF LastPeerLeft(app[s], e) THEN HangupShown(s, queues)
                ELSE notify' = queues /\ UNCHANGED <<state, callee, parts, invites>>
             /\ UNCHANGED prompt
  /\ UNCHANGED <<doors, phase, ticked, mode, launching, armed>>

-----------------------------------------------------------------------------
(* Model.Init arms the first receiver.  A session whose password must be   *)
(* changed first is registered as well.                                    *)
Login(s) ==
  /\ Register(s)
  /\ \/ armed' = [armed EXCEPT ![s] = 1] /\ UNCHANGED <<mode, app>>
     \/ /\ Open("otherApps")
        /\ mode' = [mode EXCEPT ![s] = "app"]
        /\ SetApp(s, ForcedApp)
        /\ UNCHANGED armed
  /\ UNCHANGED <<doors, tableVars, prompt, launching>>

(* The program ends, between two messages.                                 *)
Disconnect(s) ==
  /\ ~Busy(s)
  /\ Drop(s)
  /\ mode' = [mode EXCEPT ![s] = "lobby"]
  /\ prompt' = [prompt EXCEPT ![s] = NoCall]
  /\ app' = [app EXCEPT ![s] = IdleApp]
  /\ launching' = [launching EXCEPT ![s] = {}]
  /\ armed' = [armed EXCEPT ![s] = 0]
  /\ UNCHANGED <<doors, tableVars>>

Teardown(s) ==
  /\ \/ HangupSession(s)
     \/ Unregister(s) /\ UNCHANGED tableVars
     \/ ReapUnreachableRings(s)
  /\ UNCHANGED uiVars

(* What the goroutines of Dial and of Add capture.                         *)
Captured == {g \in Ringers : g.kind \in Tickers /\ (g.kind = "dial" <=> g.by = NoUser)}

TickOf(g) == Open("retries") /\ Tick(g) /\ UNCHANGED uiVars
ReRingOf(g) == ReRing(g) /\ UNCHANGED uiVars

Next ==
  \/ \E s \in Sessions :
       \/ Login(s) \/ Disconnect(s) \/ Teardown(s)
       \/ Handle(s) \/ Launch(s) \/ ListParticipants(s)
       \/ LobbyAnswer(s) \/ LobbyReject(s) \/ LobbyPhone(s)
       \/ PhoneAnswer(s) \/ PhoneReject(s) \/ PhoneHangup(s)
       \/ PhoneCancelAdd(s) \/ PhoneExit(s)
       \/ \E u \in Users : PhoneAdd(s, u)
       \/ \E u \in Users, c \in CallIds : LobbyDial(s, u, c) \/ PhoneDial(s, u, c)
  \/ \E g \in Captured : TickOf(g)
  \/ \E g \in ticked : ReRingOf(g)

Spec == Init /\ [][Next]_vars

(***************************************************************************)
(* A program handles what its receivers and commands send it, handlers and *)
(* the deferred teardown run to their end, tickers fire, and a goroutine   *)
(* that waits for c.mu gets it.  Users owe nothing.                        *)
(***************************************************************************)
Fairness ==
  /\ \A s \in Sessions :
       /\ WF_vars(Handle(s)) /\ WF_vars(Launch(s)) /\ WF_vars(ListParticipants(s))
       /\ WF_vars(Teardown(s))
  /\ \A g \in Captured : WF_vars(TickOf(g)) /\ WF_vars(ReRingOf(g))

FairSpec == Spec /\ Fairness

-----------------------------------------------------------------------------
(* Call c is on the screen of s, or about to be.                           *)
Shows(s, c) ==
  \/ app[s].call = c
  \/ \E a \in launching[s] : a.call = c

(* An event about call c, of one of these types, is on its way to s.       *)
Expects(s, c, types) ==
  \E i \in 1 .. Len(notify[s]) : notify[s][i].call = c /\ notify[s][i].type \in types

(* A session is never a participant of a call that its screen does not     *)
(* show: nobody keeps talking to someone who believes to be idle.          *)
NoHiddenCall ==
  \A s \in Sessions, c \in CallIds : Live(s) /\ s \in parts[c] => Shows(s, c)

(* The lobby and the PHONE app use the table as the switchboard: each of   *)
(* their handlers, of the teardowns and of the ring goroutines is one of   *)
(* its steps, or changes nothing that it sees (doDial, doAnswer, doReject, *)
(* cancelPendingAdd, HangupSession).                                       *)
Implements == SW!Spec

(* A session that shows a live call is a participant of it, and so is one  *)
(* inside ANSWER, which counts on being among those that it lists          *)
(* (answerCommand and doAnswer), whoever hangs up in between.              *)
ActiveIsReal ==
  \A s \in Sessions :
    Busy(s) \/ (mode[s] = "app" /\ app[s].st = "active") => s \in parts[app[s].call]

(* One receiver per session, every launch at once, nobody dials over a ring*)
Calm == doors \subseteq {"slowLists", "retries"}

(* A caller who waits is either still ringing, or is about to be told what *)
(* became of the call (handlePhoneEvent).                                  *)
CallerIsTold ==
  Calm => \A s \in Sessions :
    mode[s] = "app" /\ app[s].st = "pending" =>
      \/ state[app[s].call] = "pending" /\ s \in parts[app[s].call]
      \/ Expects(s, app[s].call, {"answer", "reject", "gone", "unavailable"})

(* Once a session has handled its events, its screen lists exactly the     *)
(* other participants.                                                     *)
ScreenMatchesCall ==
  Calm => \A s \in Sessions :
    mode[s] = "app" /\ app[s].st = "active" /\ notify[s] = << >> =>
      app[s].peers = PeersOf(s, app[s].call)

(* Only its inviter cancels a conference ring                              *)
(* (cancelPendingAdd).                                                     *)
CancelsOwn ==
  \A s \in Sessions :
    PhoneCancelAdd(s) =>
      invites[app[s].call][app[s].target] \in {Owner[s], NoUser}

(* CancelsOwn of every step.                                               *)
CancelsOwnRings == [][CancelsOwn]_vars

(* A ring comes back: a session that stays at the lobby and in no call,    *)
(* while its account is rung, is prompted although its ring was lost.      *)
RingComesBack ==
  \A s \in Sessions, c \in CallIds :
    Live(s) /\ mode[s] = "lobby" /\ Rings(c, Owner[s])
      ~> \/ mode[s] = "app" \/ ~Live(s) \/ ~Rings(c, Owner[s])
         \/ prompt[s] = c

(* A caller does not wait for ever on a call that is over.                 *)
WaitEnds ==
  \A s \in Sessions :
    mode[s] = "app" /\ app[s].st = "pending" /\ ~Exists(app[s].call)
      ~> ~(app[s].st = "pending" /\ ~Exists(app[s].call))

(* A ring for an account that is not there ends, so that it can be dialled *)
(* again when it comes back (ReapUnreachableRings).                        *)
StaleRingReaped ==
  \A u \in Users :
    BeingRung(u) /\ ~Connected(u) ~> ~BeingRung(u) \/ Connected(u)

(* An EventHangup for the call on screen never finds its caller pending.   *)
NoHangupWhilePending ==
  Calm => \A s \in Sessions : \A i \in Deliverable(s) :
    ~(/\ mode[s] = "app" /\ app[s].st = "pending"
      /\ notify[s][i].type = "hangup" /\ notify[s][i].call = app[s].call)

=============================================================================

# retro-vax-bbs in TLA+

A bulletin board over SSH with the manners of a VAX: accounts, a lobby with
DCL-like commands, and PHONE, in which users ring and talk to each other. One Go
process serves every connection; the sessions share an SQLite database, a registry
of who is connected, and the table of calls. This directory models the parts where
sessions meet, the start and the life of the server, and the screen of a session;
checks them with TLC; and proves the most important facts with TLAPS for any number
of users, sessions and calls.

- [The system](#the-system)
- [Modules](#modules)
- [What is checked](#what-is-checked)
- [Fairness](#fairness)
- [What is proved](#what-is-proved)
- [Disagreements between the code and its documents](#disagreements)
- [Narrower windows](#narrower-windows)
- [Not modelled](#not-modelled)
- [Plan](#plan)

## The system

| part | code | state | operations |
|---|---|---|---|
| session registry | `internal/registry/registry.go` | who is connected, per account and per session; a channel of eight events per session; a kick function per session | `Register`, `Unregister`, `SendToSession` (never blocks, drops when full), `SetKick`, `Kick`, `NotifyAdmins` |
| call table | `internal/phone/call.go` | the calls, their participants, the outstanding conference rings, one goroutine per ring | `Dial`, `Answer`, `Reject`, `Hangup`, `HangupSession`, `Add`, `CancelAdd`, `ReapUnreachableRings`, all under one mutex |
| PHONE app | `internal/phone/app.go` | per session: state, call on screen, names on screen, incoming ring, outbound conference ring | commands, keys, eight kinds of event |
| lobby | `internal/lobby/model.go`, `commands.go` | per session: active app, ring waiting for ANSWER, receiver goroutines | `Update`, the phone commands, the administrators' commands |
| accounts | `internal/store/store.go` | the `users` table | one SQL statement per method |
| invites | `internal/store/store.go` | the `invites` table | `CreateInvite`, `ValidateInvite`, `ValidateAndConsumeInvite` |
| self-registration | `internal/registration/app.go` | a form; the name is not held while it is filled in | `submit`, `finalise` (four statements, no transaction) |
| server | `cmd/server/main.go` | the process; per connection, how far authentication has come, and a timer | `bootstrapAdminAccount`, `preAuthTimeout`, password handlers, `completeAuth`, `sessionMiddleware` and its deferred teardown, `teaHandler`, the purge of expired requests |
| passwords | `internal/setpassword`, `store/password.go` | a form; `must_change_password` | SET and RESET PASSWORD, EXPIRE PASSWORD, the forced change at login |
| screen | `internal/lobby/model.go`, `phone/layout.go` | scrollback, the height each was told, viewports | paging, resizing, `Compute`, `View` |
| abbreviations | `internal/lobby/abbrev.go`, `dispatch` | none | from a typed line to the command it runs |
| seeding tool | `cmd/adduser` | none | one `CreateUser`, by a process of its own |
| others | `createuser`, `setplan`, `store/plan.go`, `auth`, `debuglog` | none that is shared | see [Not modelled](#not-modelled) |

How they interact. A session's program handles one message at a time: keys, events
that a receiver goroutine took off the session's channel, and messages its own
commands return. A PHONE command calls a method of the call table directly, in the
session's own goroutine; the method changes the table under the lock and sends events
to the channels of others. The lobby places the call at once but opens the PHONE
screen by a message (`launchAppMsg`), so other messages can be handled in between.
When a connection ends, three separately locked steps follow: `HangupSession`,
`Unregister`, `ReapUnreachableRings`. A ring is repeated by a goroutine that takes the
lock when its ticker fires. Logins, registrations and the administrators' commands
meet in the database, statement by statement.

What is hard in it, and where the properties look:

- *calls:* two accounts ring a third at once; prompts outlive the ring they stand for;
  a session drops between any two steps of anybody; the table and eight-event channels
  must bring the screens back to the truth without an acknowledgement.
- *registration:* a name can be freed, approved, denied, banned or taken between
  the statements of `finalise`, and the server may stop there.
- *logins:* everything is decided on a row that was read before a slow password
  hash, while administrators ban, delete, create, unlock, expire passwords.
- *the server:* it is killed between two statements of its bootstrap; a timer races
  authentication.
- *the screen:* rounding at every height and number of participants; prefixes that
  must not run what was not meant.

`PROJECT.json` lists each hazard at its line with the properties aimed at it.

## Modules

```
Registry        sessions, channels, life of a connection       registry.go, main.go
  CallTable     the operations on the call table               phone/call.go
    CallService   any client that keeps the contract of call.go
    PhoneSession  the lobby and the PHONE app as written        phone/app.go, lobby/*.go
Switchboard     what PHONE promises (abstract); both clients implement it
Accounts        the statements on the users table              store/store.go
  Registration  user "new": form, finalise, commands, crashes   registration/app.go
  Logins        password to session, SET PASSWORD, BAN ... KICK main.go, setpassword, commands.go
Bootstrap       the start of the server, adduser                main.go, cmd/adduser
  Connections   the life of a connection, timers, passwords     main.go, setpassword
Abbreviations   a typed line and the command it runs            lobby/abbrev.go, commands.go
  Terminal      scrollback, prompt, layout of PHONE             lobby/model.go, phone/layout.go
CallTable_refinement, CallService_proofs, PhoneSession_proofs, Accounts_proofs,
Registration_proofs, Logins_proofs, Connections_proofs, Terminal_proofs
MCCallService, MCPhoneSession, MCRegistration, MCLogins, MCConnections, MCTerminal
```

**Registry.** A session is `new`, `live`, `dropped`, `hungup`, `left`, `gone`: the
last four follow the deferred function of `sessionMiddleware`. Session identifiers
are never reused (`nextID` only grows), so each value lives once. `notify[s]` holds the
events sent and not yet handled; `Post` drops an event for an unknown session or a full
channel. The capacity is the constant `NotifyCap` (eight in the code).

**CallTable.** One action per method, since each holds `c.mu` from its first line to
its last. `state`, `callee`, `parts` are the fields of `Call`, `invites` is
`pendingAdds`. Call identifiers are fresh (caller, callee, nanoseconds): a call is
`unused`, `pending`, `active`, then `over`. `ticked` holds the goroutines whose ticker
fired and that wait for the lock: by then the ring may be answered or replaced, and
they look only at whether the call exists.

**CallService** closes the table with the most general client: it may act on any ring
it was ever sent (`rung`), however late, may hang up or disconnect at any moment, and
may cancel others' invitations. It is held to what call.go says of its callers, that a
session dials or answers only while in no call. `phone_two_calls` shows that the real
client breaks this; what is proved of `CallService` holds of clients that do not.

**Switchboard** is the promise without sessions coming and going, channels or
goroutines: `members` of each call and a set `ringing` of call and account. The
refinement maps `members` to `parts` and `ringing` to the pairs for which `Rings` holds
(`SW` in `CallTable`). `Implements` says it of each client.

**PhoneSession** replaces the general client by the code: the lobby's `activeApp`
(`mode`), `pendingCallID` (`prompt`), the PHONE app's six fields (`app`), launch
messages in flight and receivers armed. Six doors let in interference that is legal
but breaks some properties, so that each property is checked with exactly the doors it
survives: dialling over a ring, handling messages before a launch message, others
acting between the two halves of ANSWER (`Answer`, then `Participants`), leaving PHONE
and coming back, the other apps and the password change forced at login, retries of
rings. `DoorSets` lists the combinations of an instance; a behaviour draws one of them
and keeps it. Typing a command is one step. Events are those the properties tell
apart; conversation text is not there.

**Accounts** has one action per writing statement, guards taken from the `WHERE`
clauses. Identifiers are the largest in use plus one, as SQLite chooses without
`AUTOINCREMENT`, so the identifier of a deleted row comes back. Times are ticks, 0 is
NULL, `Never` is the year-2099 sentinel. `CreatePendingAccount` is its two statements.
Initially any administrators there are active, with any identifiers.

**Registration** composes the store with applicants whose `finalise` is taken statement
by statement, an administrator whose commands are chosen by `AdminDoes`, the purge and
crashes. Any statement of `finalise` may fail as well, and the form goes on as the code
does: to its beginning, where everything is entered anew, or to its end. `maker` is the
applicant at work who inserted a row, `granted` remembers whom a command or an invite let in, `ruled` on whom DENY,
DELETE USER or BAN was used. It assumes that `finalise` takes less time than a request may stay pending
(days): the clock does not expire what is being made.

**Logins** composes the store with connections: read the row, judge the copy, check
the password, read again in the middleware, register, set the kick function. BAN and
DELETE USER are two steps, the statement and `Kick`; UNLOCK finds the row by name and
clears it by identifier. The outcome of a password check is nondeterministic; a connection
may have come to the listener of the other role, and is refused; and the statements that
count failures or clear them may fail, which is only logged.

**Bootstrap** is `bootstrapAdminAccount` statement by statement, with kills of the
process between any two, `adduser` beside it and bans that run out. It keeps of a row
the role, the status, the end of a ban in four classes, whether the password is the one of
the environment, and `must_change_password`. `Fold` is the lower case of each name, for
the look-up that ignores case.

**Connections** composes it with the connections of the server that it starts:
`preAuthTimeout` as a goroutine that is armed, stopped or expired, user "new", the flag
of the forced change as `sessionMiddleware` reads it and `teaHandler` looks at it, SET,
RESET and EXPIRE PASSWORD, the forced change, which has no way into the lobby. `owes`
and `owed` are history: who owes a change, and who did when the middleware looked.

**Abbreviations** has the command tables as sets of sequences of words; the trie is
implicit in them (`Below`). `Resolve` folds `OneWord` over a line as the loop of
`resolveAbbrev` does. `Fits` and `MeantRather` say what a line may mean without the trie.

**Terminal** is one session's screen: a line is entered and dispatched, output lengthens
the history, keys page, apps are launched and end, the window is resized. Of text it
keeps the number of lines. The layout of PHONE is arithmetic on the height that the app
was told and the participants, with Go's division.

## What is checked

Every property has a mutant of the code that breaks it, listed in `PROJECT.json`.

| run | instance | question |
|---|---|---|
| `calls_trio` | 3 accounts with a session each, 2 calls, late ring goroutines, channels of one event | Is the table consistent, and an implementation of `Switchboard`? |
| `phone_pair` | 2 users, 2 calls; retries and others between the halves of ANSWER, or else dials over rings, slow launches and a second receiver | Is a waiting caller told, do screens match the table; and even with the latter, does no screen show a live call its session is not in? |
| `phone_siblings` | an account with two sessions, another with one; 2 calls | First answer wins: is nobody left in a call that is not on screen, and is the real client an implementation of `Switchboard`? |
| `phone_liveness` | 2 users, 1 call, channels of one event; other apps, forced changes, retries | Does a lost ring come back, does no caller wait on a call that is over, do stale rings end? |
| `registration` | 2 applicants, one code, both modes, every administrator command, crashes | Uses spent once, nobody let in unasked, what applicants are told is true, names come back, no active account removed |
| `logins_commands` | 2 connections, an administrator, a user | Bans and locks hold, an administrator remains |
| `server` | 2 connections, 2 names alike but for case, 5 first tables, 2 kills per start, adduser | Does it serve with an administrator only, does the operator get in, do timers close idlers only, is an expired password changed first? |
| `terminal` | 3 heights, 7 participants, 12 lines of history, the prefixes of every command, both roles | Does no line run what was not meant, is no page skipped, does PHONE fill the screen? |
| `phone_two_calls`, `phone_cross_cancel`, `logins_kicked`, `new_timer` | as small as shows it | see [Disagreements](#disagreements) |

Why the bounds are enough for the cases that matter:

- *Two calls, three sessions.* Every rule of the table relates at most two calls
  (one ring per callee, one call per session) and a caller, a callee and a third who
  invites or is invited. A call identifier is used once, so two calls are two calls in
  a run, which is what a stale prompt or a late goroutine of an earlier call needs.
- *`NotifyCap`.* `CallService` only writes the channels, so one event is enough to
  reach both branches of `Post`; `calls_trio` leaves `notify` out of the state's view for
  that reason, and the proofs are for any capacity. `PhoneSession` reads them: its runs
  stop before a channel is full (`NoOverflow`), because a dropped event leaves a screen
  wrong for good by design; three or four events let any two or three events be in
  flight together.
  `phone_liveness` does fill its channels, of one event, and drops. It has one call: the
  channel of a waiting caller is then empty when the call ends. With a second call and one
  event `WaitEnds` would not hold, since the event that tells the caller may be the one
  that is dropped; and what `RingComesBack` sees lost is mostly what other apps take.
- *`Tickers`* names which ring goroutines fire in a run: those of DIAL, in the runs that
  have any; the proofs allow those of ADD as well.
- *`NotIn`* keeps a session from answering a ring of the call it is in; what the code
  does then is in [Narrower windows](#narrower-windows).
- *`FewWaiting`* lets one of the three sessions of `phone_siblings` at a time have two
  events waiting. What the run checks is proved for any channels.
- *`FewLaunches`* bounds the launch messages in flight in `phone_pair`, and lets one of
  the two sessions have a second receiver.
- *`Calm`* in `CallerIsTold`, `ScreenMatchesCall` and `NoHangupWhilePending` restricts
  them to the behaviours of `phone_pair` with the first set of doors.
- *`Threshold` 1, `LockTicks` 1, `ExpiryTicks` 1, `Horizon` 2 or 3.* One failure locks; a
  lock, a ban and a request can each run out and be followed by a step that
  matters. Every time comparison is with the clock, so longer spans add no case.
  `MaxFails` 2 lets a second failure come under or after the lock of the first, as
  two attempts in step or one after the other; a third is not counted. BAN takes any end
  in this range, past ones included. With two names an identifier comes back to its own
  name only: that a remembered one may mean another account by then is not checked.
  `logins_commands` leaves `kicking` out of its view: a Kick ends connections, which
  may end by themselves at any moment.
- *`MaxId` 2 or 3* is the number of names: identifiers are exhausted and come back.
- *`MaxUses` 1*, with two applicants who may both validate it; `Ruled` is the one of the
  two free names that DENY, DELETE USER and BAN are used on; an invite or a ban lasts until
  the next tick or for good. The proofs bound neither uses nor names.
- *`server`*: one name in use and its twin in other case that `adduser` may insert; the
  tables that the first start may find are nobody, an active user, an administrator active,
  banned for a time or for good. `MaxCrashes` bounds the kills of one start, which has
  at most four statements.
- *`terminal`*: heights of 6 (a small lobby, too small for PHONE), 11 (PHONE shows one
  participant) and 36 (six fit, and some lines are left over); `FewLines` are every prefix of every
  keyword alone and before the second words that several commands share. Further lines
  are few (`SomeLines`) once the history has grown. The proofs take any heights.
- *Symmetry* is used for call identifiers, connections, applicants and the two
  sessions of an account, never in a run with a liveness property.

`CHECK_DEADLOCK FALSE` stands where sessions and calls are used up and the instance
comes to rest.

## Fairness

- *Calls.* Weak fairness of each session's teardown and of each ring goroutine that waits
  for the lock. Go runs the deferred function to its end, and no method blocks while it
  holds `c.mu` (sends to channels have a default branch). Users owe nothing: nothing
  assumes that anyone answers, hangs up or disconnects.
- *Registration.* Weak fairness of the purge (the ticker of `main` runs while the
  server does) and of a restart (`docker-compose.yml`: `restart: unless-stopped`).
  Crashes may go on for ever; the purge before the first connection is what makes
  `NamesAreFreed` hold all the same.
- *Sessions.* In `phone_liveness` also: a program handles the messages that its receivers
  and its commands send it (Bubble Tea's loop), and a handler of ANSWER goes on to its
  second half; tickers fire. Users owe nothing: an app may stay open for ever, a ring
  unanswered.
- *Server.* Weak fairness of each statement of the start and of the restart, and of each
  timer and the goroutine that it wakes. Kills between serving and serving are finite
  (`MaxCrashes`). Clients owe nothing: a connection may try passwords for ever.
- The other runs check safety only and assume none.

## What is proved

`tlapm` checks every proof, for any sets of users, sessions, calls, names,
connections and applicants, any capacities and heights, from the named assumptions on
the constants (`RegistryAssumption`, `TickersAssumption`, `StoreAssumption`,
`NoRowAssumption`, `NobodyAssumption`, `RegistrationAssumption`, `BootAssumption`,
`ConnectionAssumption`, `TerminalAssumption`, `PhoneAssumption`).

**CallService_proofs.** `Typing` shows `TypeOK`, with no channel over its capacity, from
what `Post` and the event constructors return. `Inductive` shows `IInv`, the
conjunction of the table's invariants with `MemoryIsOfCalls`. None is inductive
alone. A session answers a pending call because it has heard its ring; that it is a
session of the callee is `RingReachesCalleeOnly`, which a late goroutine could break
unless it rings the callee of the call it captured, which is `MemoryIsOfCalls`. That a
call has one participant while pending (`CallShape`) is what makes `Reject` and the reaping
delete nobody else, and `NoPhantom` needs `OneCallPerSession`, since `HangupSession`
leaves the first call it finds. Each method has a lemma that says what it keeps
(`DialKeeps` to `ReapKeeps`), stated once and used for each action that calls it. The
theorems `OneRing`, `Shape`, `OneCall`, `NoPhantoms`, `Reach`, `CalleeOnly` read one
conjunct each; `Joins` is the action property on the same invariant.

**CallTable_refinement** has what both clients need to implement `Switchboard`: each method
is one of its steps or a stutter (`PlaceStep` to `TeardownStep`), given `CallShape`,
`OneRingPerCallee` and two things that only the client can see to, that whoever dials or
answers is in no call and that a pending call is answered or refused by its callee. Without
them a `Reject` would end another's ring, and a ring list with two calls in it would make one
reaping two steps. `OneRingKept` goes the other way: no step of the switchboard gives an
account a second ring. `Refinement`, in `CallService_proofs`, is the theorem for the
general client, from `IInv`.

**PhoneSession_proofs** is about the real client, for any number of sessions of any
accounts, any doors, capacities and receivers.

- `Typing`: `TypeOK`, and that a screen names a call exactly when it is about one.
- `ShownIsReal`: `ActiveIsReal`, with every door open and channels that overflow. The
  inductive invariant is `PhoneInv`. Its table part (`TableInv`) says what a queue may hold:
  an answer or a departure is of a call that was answered, and a ring of a pending call is for its callee
  (`QueuesOK`), which is why an old prompt cannot take another's call (`RungBy`). Its
  screen part (`Screen`) gives every model, on screen or waiting for its launch, a claim
  (`Backed`): one that is active is a participant; one that waits is, or its call is over
  and no answer to it is on the way. That last clause is the point: an event of an
  earlier call never revives a screen. Each method of the table keeps the
  claims of the sessions that do not act (`DialKeeps` to `ReapKeeps`, `Bystander`), so
  each action has to be looked at for its own session only.
- `RingsAreSingle`, `TableIsShaped` and `OnlyTheRungJoin` say of this client, with every door
  open and channels that overflow, what `OneRing`, `Shape` and `Joins` say of
  `CallService`: the table does not depend on the contract that its client breaks (see
  `phone_two_calls` and `phone_cross_cancel` below). A step adds at most one ring, for an
  account that nobody rings, and lets in only who is rung (`NextRule`, from `RungBy`).
- `NothingHidden`, `OneCallAtATime`, `CallerHears`, `NoHangupToWaiting` and
  `PhoneRefinement` rest on a second invariant, `CalmScreens`, above `PhoneInv`: a session is
  in no call that it does not show, in one at most, and what a waiting caller will read
  first about its call is what became of it (`Waits`). `First` and `Quiet` say that of a
  queue; `DialServes` to `ReapServes` say of each method that it extends the queues in
  this way. Handling an event takes the first away (`HeadTaken`), which is
  where one receiver is needed: with two, the second event may come first. The
  refinement then follows method by method from `CallTable_refinement`: `NothingHidden`
  makes idle what the screen takes for idle.
- `NamesAreRight` and `TwoPartyNames` are about the names on screen (`ScreenMatchesCall`).
  The participants change before the screens do, so the invariant (`Views`) looks through the
  queue: for every account and call, either the queue tells nothing of it and the screen has it
  right already, or the last word of the queue on it is right (`Foretells`, `LastWord`).
  It says so of every screen, of every model that waits for its launch, and of what a
  session inside ANSWER is going to list; a caller who rings is going to be told of an answer
  before anything else about that call (`Told`). A method sends to those who
  stay the news of whoever joins or leaves (`Heralds`: `AnswerHeralds`, `LeaveHeralds`),
  and reading the first event moves it from the queue to the screen (`EventSees`).

  Two things can spoil this, and a client with conferences has both: an account in a call with
  two sessions (`Apart` excludes it), and a session that joins a call while its queue
  still holds older news of it, of others or of its own account (`FreshJoins`). Events in order are not enough for
  the second: a repeated ring, or an ADD that was cancelled and typed again, stands in the
  queue before the departure of somebody who left during the first stay, and is answered
  before that is read. A call names its members by account, and nothing in an event
  tells one stay from the next. `NamesAreRight` assumes both (with a session per
  account, `Apart` is no assumption); `TwoPartyNames` needs neither: while there is no ADD, who
  joins is rung for a call that is not answered yet, of which no queue has any news, and
  only one session of the callee gets in (`TwoPartyJoins`).

  The theorems of these last two items assume `[]Room`, that no channel is ever full: a
  dropped event leaves a screen wrong for good by the design of the registry, and then they
  are false. `NoOverflow`, the bound of the runs, is the same condition. And they are of `Calm` behaviours, with any of others
  acting inside ANSWER and of rings retried, but neither dials over a ring, slow
  launches, a way back to the lobby nor other apps: these bring a second call, events that
  come before their screen, and a second receiver ([Disagreements](#disagreements),
  [Narrower windows](#narrower-windows)).

**Accounts_proofs.** `StoreTyping` (with the uniqueness of identifiers),
`LastAdmin` (the count in the guard of BAN and DELETE leaves one; no other statement
takes away a usable administrator, and time only makes more usable) and
`LockWithCount`.

**Logins_proofs.** `LoginsRunTheStore` maps every step to a step of `Accounts` or a
stutter, so `LoginsKeepAnAdmin` follows from `LastAdmin`. `LoginTyping`; `BansLast`
(the statement that lifts a ban looks again); `LocksLast`, which rests on an invariant
of its own: whoever is let try holds a copy whose lock had run out, and the clock
only goes on.

**Registration_proofs.** Every step of Registration is a step of the store
(`RegistrationRunsTheStore`), so `StoreTyping` gives the table's part of
`RegistrationTyping`. `NobodyGetsInUninvited` rests on `LetIn`, that a row which is not
pending is granted, and on `Named`, that whoever finalises has a name.
`ActiveAccountsSurvive` follows from the `WHERE` clauses of the statements.
`NoUseIsSpentTwice` counts: `CodesStay` keeps an applicant's code fixed
once it is given, and each step moves one applicant and one use (`Accounted`). The hard
one is `WhatIsToldIsTrue`: by `RowsAreOwn`, the row of an applicant between its insertion
and the end of `finalise` is its own, and active or a request too fresh to be
purged, unless an administrator ruled on the name.

**Connections_proofs.** One invariant `Inv` carries the safety properties: `BootInv`
says what is known of the wanted account at each statement of the start (its first row
is a suspended administrator's, on the second its password is the one of the
environment), `ConnInv` that everybody past the password has a row, that an armed timer in an
accepted connection belongs to user "new", and that the flag read tells what was owed.
`AdminHolds`, `ExpiryHolds`, `AccountsSpared` and `RecoveryHolds` are read off it.

**Terminal_proofs.** `Inv` adds to the types that a screen scrolled back has at least four
lines of history below the top, which is what makes the slice of `View` legal
(`WindowHolds`) and a page meet the next (`PagesAlwaysMeet`). `PhoneFills` is arithmetic on
`Participants`, a maximum of a set, and on the division; heights and participants are
arbitrary.

Only model-checked: `CancelsOwnRings` and the other statements that a run
refutes; the properties of typed lines (`AdminCommandsHidden`, `NeverGuesses`,
`TypedInFullRuns`), which fold over data; and liveness (`RingComesBack`, `WaitEnds`,
`StaleRingReaped`, `NamesAreFreed`, `OperatorGetsIn`, `IdlersAreClosed`).
Liveness under fairness and `ENABLED` are outside what the prover does, and so is
induction over data (its library's induction theorems take an operator as a parameter).
No module declares a `RECURSIVE` operator, which would cost the prover its SMT backend.

## Disagreements

Runs that end in a counterexample, each of a statement in the repository:

- `phone_two_calls`: `design-doc.md:265-268` and a comment in `HangupSession` hold that a
  session is in one call at a time. A session in PHONE with a ring on screen dials, is answered,
  and answers the ring: `doAnswer` does not look at the state. It is then in two calls, and
  `HangupSession` leaves one. The client assumption of `CallService` is the rule that
  this breaks; with the door shut it holds (`Implements` of `phone_siblings`, `OneCallAtATime`).
- `phone_cross_cancel`: `cancelPendingAdd` "cancels an in-progress conference ring
  initiated by this user" (`app.go:875`), and an audit calls the cancellation of
  another's ring unreachable, since only one ring exists at a time. One after the other
  is enough: alice's ring of carol is refused, bob rings carol, and a key of alice, whose
  program has not handled the refusal yet, withdraws the ring of bob. `CancelAdd`
  compares the call and the callee only. `goIdle` keeps the target as well.
- `logins_kicked`: BAN disconnects at once (HELP BAN). A login past the last look at its
  status registers, or gets its kick function, after `Kick` has run.
- `new_timer`: the timeout of authentication "only applies during the pre-auth phase"
  (`admin-guide.md:280`). User "new" is accepted without `completeAuth`, so nobody stops the
  timer, and the registration form is cut off `AUTH_TIMEOUT_SECONDS` after the connection
  was made. `TimerSparesAccounts` is the part that holds.

## Narrower windows

Things that a reader of the code could expect and that do not hold. No run
states them; the hazards in `PROJECT.json` refer to them.

- *A ring without reach.* `design-doc.md:287-288` would have a ring end when its
  callee has no idle session left. `ReapUnreachableRings` is called from the teardown
  only: when the only idle session enters another call the ring goes on
  until some session of the account disconnects, the caller gives up, or it is answered.
  `RingHasReach` speaks of connected accounts.
- *A late ring.* `design-doc.md:258-261` has one ring per callee. The table has; but a
  goroutine that waited for the lock while its ring was answered rings once more for
  the call that is now active, over the prompt of a newer ring.
- *Denied during finalise.* When DENY comes between the insertion and the activation,
  `ActivateAccount` matches no row and is content: the applicant is told of an account
  that is not there. `ToldIsTrue` excuses the names that DENY, DELETE USER or BAN
  was used on.
- *Guesses in step.* Logins or SET PASSWORD attempts that read the row before
  a lock was set fail after it and push it forward. `LockHolds` allows exactly them.
- *A slow launch.* An event that comes between `Dial` or `Answer` and the launch
  message goes to the lobby, which forgets it: `NoHiddenCall` and `CallerIsTold` are
  checked and proved with that door shut. So is `WaitEnds`: when the ring ends before the launch
  message, the screen of the caller rings until a key is pressed.
- *Answered twice.* `Answer` appends a participant without a look whether the session is
  one already. A session that has answered ADD and waits for its launch may read a
  repetition of that ring, and if its account is invited once more, because a sibling is
  idle, it may answer again. It is then listed twice, and `Hangup` and `HangupSession` take one entry away: a session
  that has left, or is gone, may stay a participant. The model's participants are a set,
  and the bound `NotIn` of `CallTable` leaves the second answer out, in every run and every
  proof.
- *Two receivers.* When PHONE ends on a key, the lobby subscribes again
  (`lobby/model.go:193`) although the receiver armed before PHONE started is still
  waiting. Two receivers hand over two events in either order: a hangup may arrive
  before its answer, a branch that `app.go:330` calls unreachable because of FIFO
  delivery. `NoHangupWhilePending` is checked with one receiver.
- *A banned request.* BAN takes a pending account, and UNBAN or the end of the ban
  makes it active, without APPROVE. `NobodyUninvited` counts BAN as letting it in.
- *Set before expired.* Of SET or RESET PASSWORD and EXPIRE PASSWORD the last statement
  wins: a password that was typed before EXPIRE and stored after it settles the account.
  `ExpireHolds` lets it.
- *Oldest lines.* Scrolled back, `View` draws a line less than the screen, but paging
  clamps to full screens: the oldest line of a long history cannot be shown. The comment
  "leaving one line of overlap" (`model.go:224`) holds of the first page only;
  further pages just meet, which is what `PagesMeet` says.
- *Heights of before.* A resize inside an app is not told to the lobby, which
  pages, and launches the next app, with the height it knew.
- *Six viewports.* `MaxViewports` "caps conference call size" (`layout.go:38`); what is
  capped is how many are drawn, ADD is not.
- *One token at a time.* `S PA` is ambiguous (SET, SHOW) although only SET PASSWORD fits:
  tokens are resolved from the left.
- *A stale REJECT out of order.* With two sessions of an account and two receivers
  `NoHiddenCall` does not hold: the refusal of a sibling may overtake an answer.
- *Siblings in one conference.* The screen lists names, so when one of two sessions of an
  account leaves, the others drop the name; and when a session leaves a conference and is
  added again while an event of its first stay is queued, it reads that as news. The departure of
  a sibling also takes the own viewport away (`Departs`), after which the own name may be
  listed among the others (`Joined`).
  `ScreenMatchesCall` is checked with a session per account; `NamesAreRight` shows that,
  with nothing dropped, there is no third way to a wrong name.

## Not modelled

- Password hashing (a pure function; its duration is why `Logins` lets others in), the
  rules for a new password, `last_login_at`, email columns.
- The rate limiter (it is the wish library's) and the host key.
- `BroadcastChar` (conversation text), the text of viewports and its wrapping, notifications.
- PLAN files beyond the fact that their editor may be open; the debug log.
- Parsing of durations: bans and invites have arbitrary ends instead.
- `created_by` of invites and the foreign-key setting: no decision of the code reads the
  column, and which pooled connection a statement gets is inside `database/sql`.
- The lockout of a login and the password it stores are in two modules (`Logins`,
  `Connections`), which are not composed: they write different columns.

## Plan

The order was: the call table and its client contract, its invariants and refinement;
the real client; the store and what runs on it; the server's start and its connections; the
screen; proofs for each. All of that is here. Next:

1. **Durations**: `parseBanDuration` with 64-bit overflow, and what a ban in the past means.
2. Text as sequences of classes of characters: `StripANSI`, the wrapping of viewports.
3. Conversation: `BroadcastChar` and the order of characters between participants.

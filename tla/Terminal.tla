------------------------------ MODULE Terminal ------------------------------
(***************************************************************************)
(* One session's screen: the lobby with its scrollback and its prompt      *)
(* (internal/lobby/model.go) and the viewports of PHONE on top of it       *)
(* (internal/phone/layout.go, View of app.go).                             *)
(*                                                                         *)
(* Of the text only the number of lines is kept, of a typed line its       *)
(* words.  What commands do is in the other modules; here they write lines *)
(* or open an app.                                                         *)
(***************************************************************************)
EXTENDS Abbreviations, Integers

CONSTANTS
  Heights,      \* the heights that a terminal may have
  Lines,        \* the lines that a person may type
  LaterLines,   \* bound: those typed when the history has more than the welcome
  Outputs,      \* how many lines a command may write
  Welcome,      \* the lines of buildWelcome
  MaxHistory,   \* bound: the lines of the history
  MaxViewers    \* bound: the participants of a call

VARIABLES
  role,         \* of the session
  height,       \* the height the lobby was told, 0 before that
  history,      \* the lines of the flattened history
  scrollOffset,
  last,         \* the line just entered, and what dispatch made of it
  launching,    \* the app of a launchAppMsg on its way, with its height
  app,          \* the active app, with the height that it was told
  viewports     \* the viewports of PHONE, one per participant

ASSUME TerminalAssumption ==
  /\ Heights \subseteq Nat /\ 0 \notin Heights
  /\ Outputs \subseteq Nat
  /\ LaterLines \subseteq Lines
  /\ MaxHistory \in Nat /\ Welcome \in 1 .. MaxHistory /\ MaxViewers \in Nat \ {0}

vars == <<role, height, history, scrollOffset, last, launching, app, viewports>>

NoApp == [is |-> "none", height |-> 0]
Nothing == [line |-> <<>>, out |-> Unknown]

Apps == [is : {"phone", "other"}, height : Heights \union {0}] \union {NoApp}

(* Counts and heights are in range, and PHONE shows somebody.              *)
TypeOK ==
  /\ role \in Roles
  /\ height \in Heights \union {0}
  /\ history \in 1 .. MaxHistory
  /\ scrollOffset \in 0 .. MaxHistory
  /\ launching \in Apps /\ app \in Apps
  /\ viewports \in 0 .. MaxViewers
  /\ viewports > 0 <=> app.is = "phone"

Init ==
  /\ role \in Roles
  /\ height = 0
  /\ history = Welcome
  /\ scrollOffset = 0
  /\ last = Nothing
  /\ launching = NoApp
  /\ app = NoApp
  /\ viewports = 0

-----------------------------------------------------------------------------
AtLeast(n, m) == IF n < m THEN m ELSE n
AtMost(n, m) == IF n > m THEN m ELSE n

(* viewportHeight                                                          *)
ViewportHeight == AtLeast(height - 1, 4)

(* View: the slice flat[start:end] of the history; one line less for the   *)
(* indicator when scrolled back.                                           *)
Window ==
  LET rows == IF scrollOffset > 0 THEN ViewportHeight - 1 ELSE ViewportHeight
      end == AtMost(history - scrollOffset, history)
  IN [start |-> AtLeast(end - rows, 0), end |-> end]

-----------------------------------------------------------------------------
InLobby == app = NoApp
Lobby == <<role, height>>
Apart == <<launching, app, viewports>>

(* A key or an event that enters no line.                                  *)
NoLine == last' = Nothing

(* n lines are appended to the history.                                    *)
Appends(n) ==
  /\ history + n <= MaxHistory
  /\ history' = history + n

(* The mutants of PageUp: without the clamp; by a whole screen.            *)
PageUpFreely ==
  /\ InLobby
  /\ scrollOffset + ViewportHeight - 1 <= MaxHistory
  /\ scrollOffset' = scrollOffset + ViewportHeight - 1
  /\ NoLine
  /\ UNCHANGED <<Lobby, history, Apart>>

PageUpWhole ==
  /\ InLobby
  /\ scrollOffset' = AtMost(scrollOffset + ViewportHeight,
                            AtLeast(history - ViewportHeight, 0))
  /\ NoLine
  /\ UNCHANGED <<Lobby, history, Apart>>

PageUp ==
  /\ InLobby
  /\ scrollOffset' = AtMost(scrollOffset + ViewportHeight - 1,
                            AtLeast(history - ViewportHeight, 0))
  /\ NoLine
  /\ UNCHANGED <<Lobby, history, Apart>>

PageDown ==
  /\ InLobby
  /\ scrollOffset' = AtLeast(scrollOffset - (ViewportHeight - 1), 0)
  /\ NoLine
  /\ UNCHANGED <<Lobby, history, Apart>>

KeyEnd ==
  /\ InLobby
  /\ scrollOffset' = 0
  /\ NoLine
  /\ UNCHANGED <<Lobby, history, Apart>>

(* The commands that may open an app, and which.                           *)
OpensPhone(out) ==
  \/ out.command \in {<<"PHONE">>, <<"ANSWER">>}
  \/ out.command = <<"DIAL">> /\ out.arg # <<>>

OpensOther(out) ==
  \/ out.command \in {<<"SET", "PLAN">>, <<"SET", "PASSWORD">>}
  \/ out.command \in {<<"CREATE", "USER">>, <<"RESET", "PASSWORD">>} /\ out.arg # <<>>

(* KeyEnter on a line (bound: one launch at a time): it is echoed and     *)
(* dispatched; its handler writes lines, or asks for an app, which is      *)
(* given the lobby's height.                                               *)
Enter(line) ==
  LET out == Dispatch(line, role)
      launch(is) == /\ launching = NoApp
                    /\ launching' = [is |-> is, height |-> height]
                    /\ Appends(1)
  IN /\ InLobby
     /\ scrollOffset' = 0
     /\ last' = [line |-> line, out |-> out]
     /\ \/ OpensPhone(out) /\ launch("phone")
        \/ OpensOther(out) /\ launch("other")
        \/ (\E n \in Outputs : Appends(1 + n)) /\ UNCHANGED launching
     /\ UNCHANGED <<Lobby, app, viewports>>

(* launchAppMsg                                                            *)
Launch ==
  /\ InLobby
  /\ launching # NoApp
  /\ app' = launching
  /\ launching' = NoApp
  /\ viewports' \in IF launching.is = "phone" THEN 1 .. MaxViewers ELSE {0}
  /\ NoLine
  /\ UNCHANGED <<Lobby, history, scrollOffset>>

(* handleRing writes to the history, whatever is scrolled to.              *)
Notice(n) ==
  /\ InLobby
  /\ Appends(n)
  /\ NoLine
  /\ UNCHANGED <<Lobby, scrollOffset, launching, app, viewports>>

(* WindowSizeMsg: only the active app, or else the lobby, is told.         *)
Resize(h) ==
  /\ IF InLobby THEN height' = h /\ UNCHANGED app
                ELSE app' = [app EXCEPT !.height = h] /\ UNCHANGED height
  /\ NoLine
  /\ UNCHANGED <<role, history, scrollOffset, launching, viewports>>

(* Participants come and go in PHONE.                                      *)
Viewers(n) ==
  /\ app.is = "phone"
  /\ n \in {1, viewports - 1, viewports + 1} \cap 1 .. MaxViewers
  /\ viewports' = n
  /\ NoLine
  /\ UNCHANGED <<Lobby, history, scrollOffset, launching, app>>

(* The app is done, with a line of status or without.                      *)
AppDone(n) ==
  /\ ~InLobby
  /\ Appends(n)
  /\ app' = NoApp
  /\ viewports' = 0
  /\ NoLine
  /\ UNCHANGED <<Lobby, scrollOffset, launching>>

Next ==
  \/ PageUp \/ PageDown \/ KeyEnd \/ Launch
  \/ \E line \in IF history = Welcome THEN Lines ELSE LaterLines : Enter(line)
  \/ \E h \in Heights : Resize(h)
  \/ \E n \in 1 .. 2 : Notice(n)
  \/ \E n \in 1 .. MaxViewers : Viewers(n)
  \/ \E n \in 0 .. 1 : AppDone(n)

Spec == Init /\ [][Next]_vars

-----------------------------------------------------------------------------
(* layout.go                                                               *)
chromeRows == 3
viewportOverheadRows == 2
MinViewportTextRows == 3
MaxViewports == 6

(* Mutant of Available: the sacrificed line is forgotten.                  *)
AvailableAll(h) == h - chromeRows

Available(h) == h - chromeRows - 1

(* Go divides towards zero; TLA+ towards minus infinity.                   *)
Quotient(a, b) == IF a < 0 THEN -((-a) \div b) ELSE a \div b

TextRows(h, shown) == Quotient(Available(h), shown) - viewportOverheadRows

(* Compute: the participants that fit, one at least.                       *)
Participants(h, n) ==
  Max({1} \union {p \in 1 .. AtMost(n, MaxViewports) : TextRows(h, p) >= MinViewportTextRows})

ViewportTextRows(h, n) ==
  AtLeast(TextRows(h, Participants(h, n)), MinViewportTextRows)

(* View of PHONE: a sacrificed line, the chrome, the viewports, filler up  *)
(* to the height and one, and with it the last line.                       *)
PhoneLines(h, n) ==
  AtLeast(2 + chromeRows
            + Participants(h, n) * (viewportOverheadRows + ViewportTextRows(h, n)),
          h + 1)

-----------------------------------------------------------------------------
(* View slices the history within its bounds (lobby View).                 *)
WindowInHistory == 0 <= Window.start /\ Window.start <= Window.end /\ Window.end <= history

(* Paging skips no line: the page shown next meets the page shown before   *)
(* (KeyPgUp, KeyPgDown and View).                                          *)
PagesMeet ==
  [][PageUp \/ PageDown => Window'.end >= Window.start /\ Window'.start <= Window.end]_vars

(* PHONE fills the screen, with the one line more that the renderer        *)
(* swallows, however many take part, on a terminal of nine lines or more   *)
(* (Compute and View).                                                     *)
PhoneFillsScreen ==
  app.is = "phone" /\ app.height >= 9 => PhoneLines(app.height, viewports) = app.height + 1

(* To a user who is not an administrator the administrators' commands do   *)
(* not exist: no line runs one, and none is ambiguous because of one       *)
(* (decision 3 of abbrev.go).                                              *)
AdminCommandsHidden ==
  role = "user" =>
    /\ last.out.command \notin AdminCommands
    /\ \A path \in last.out.names : \E c \in Visible("user") : IsPrefix(path, c)

(* No line runs a command that the user may not have meant: each other     *)
(* command that the line fits as well is ruled out by a word in full       *)
(* (decisions 1 and 2 of abbrev.go).                                       *)
NeverGuesses ==
  last.out.is = "ran" =>
    LET c == last.out.command
    IN /\ Fits(last.line, c) /\ Len(c) <= Len(last.line)
       /\ \A d \in Visible(role) :
            \/ ~Fits(last.line, d)
            \/ IsPrefix(c, d) \/ IsPrefix(d, c)
            \/ MeantRather(last.line, c, d)

(* A command typed in full runs, and what follows a command that takes an  *)
(* argument reaches it as it was typed, keyword or not (resolveAbbrev).    *)
TypedInFullRuns ==
  \A c \in Visible(role) :
    IsPrefix(c, last.line) /\ (c = last.line \/ c \in ArgCommands) =>
      /\ last.out.is = "ran"
      /\ last.out.command = c
      /\ last.out.arg = SubSeq(last.line, Len(c) + 1, Len(last.line))

=============================================================================

-------------------------- MODULE Terminal_proofs ---------------------------
(***************************************************************************)
(* Proofs about the screen: the types, the window of the lobby, paging,    *)
(* and the layout of PHONE, for terminals and calls of any size.           *)
(***************************************************************************)
EXTENDS Terminal, TLAPS

(* A set of at most six participants has a largest member.                 *)
LEMMA SomeMax ==
  ASSUME NEW S \in SUBSET (1 .. 6), S # {}
  PROVE  \E x \in S : \A y \in S : x >= y
<1>1. CASE 6 \in S BY <1>1
<1>2. CASE 6 \notin S /\ 5 \in S BY <1>2
<1>3. CASE 6 \notin S /\ 5 \notin S /\ 4 \in S BY <1>3
<1>4. CASE 6 \notin S /\ 5 \notin S /\ 4 \notin S /\ 3 \in S BY <1>4
<1>5. CASE S \subseteq 1 .. 2 /\ 2 \in S BY <1>5
<1>6. CASE S \subseteq {1}
  <2>1. S = {1} BY <1>6
  <2> QED BY <2>1
<1>7. 6 \notin S /\ 5 \notin S /\ 4 \notin S /\ 3 \notin S => S \subseteq 1 .. 2
  OBVIOUS
<1> QED BY <1>1, <1>2, <1>3, <1>4, <1>5, <1>6, <1>7

(* Compute shows one to six participants, more than one only if each gets  *)
(* its rows of text.                                                       *)
LEMMA ParticipantsFit ==
  ASSUME NEW h \in Nat, NEW n \in Nat \ {0}
  PROVE  /\ Participants(h, n) \in 1 .. 6
         /\ \/ Participants(h, n) = 1
            \/ TextRows(h, Participants(h, n)) >= MinViewportTextRows
<1> DEFINE S == {1} \union {p \in 1 .. AtMost(n, MaxViewports) :
                              TextRows(h, p) >= MinViewportTextRows}
<1>1. S \in SUBSET (1 .. 6) /\ S # {}
  BY DEF AtMost, MaxViewports
<1>2. \E x \in S : \A y \in S : x >= y
  <2> HIDE DEF S
  <2> QED BY <1>1, SomeMax
<1>3. Max(S) \in S
  <2> HIDE DEF S
  <2> QED BY <1>2 DEF Max
<1>4. Participants(h, n) = Max(S)
  BY DEF Participants
<1> QED BY <1>1, <1>3, <1>4

(* The viewports with their text never need more lines than there are.     *)
LEMMA ViewportsFit ==
  ASSUME NEW h \in Nat, h >= 9, NEW n \in Nat \ {0}
  PROVE  PhoneLines(h, n) = h + 1
<1> DEFINE r == Participants(h, n)
           t == ViewportTextRows(h, n)
           a == h - 4
<1>1. r \in 1 .. 6 /\ (r = 1 \/ TextRows(h, r) >= 3)
  BY ParticipantsFit DEF MinViewportTextRows
<1>2. \A p \in 1 .. 6 : TextRows(h, p) = (a \div p) - 2
  BY DEF TextRows, Available, Quotient, chromeRows, viewportOverheadRows
<1>3. a \in Nat /\ a >= 5
  OBVIOUS
<1>4. t = (a \div r) - 2
  <2>1. TextRows(h, r) >= 3
    <3>1. CASE r = 1
      <4>1. TextRows(h, 1) = (a \div 1) - 2 BY <1>2
      <4>2. a \div 1 = a BY <1>3
      <4> QED BY <3>1, <4>1, <4>2, <1>3
    <3> QED BY <1>1, <3>1
  <2> QED BY <2>1, <1>1, <1>2 DEF ViewportTextRows, AtLeast, MinViewportTextRows
<1>5. r * (a \div r) <= a
  <2> HIDE DEF a, r
  <2>1. CASE r = 1 BY <2>1, <1>3
  <2>2. CASE r = 2 BY <2>2, <1>3
  <2>3. CASE r = 3 BY <2>3, <1>3
  <2>4. CASE r = 4 BY <2>4, <1>3
  <2>5. CASE r = 5 BY <2>5, <1>3
  <2>6. CASE r = 6 BY <2>6, <1>3
  <2> QED BY <1>1, <2>1, <2>2, <2>3, <2>4, <2>5, <2>6
<1>6. PhoneLines(h, n) = AtLeast(5 + r * (2 + t), h + 1)
  BY DEF PhoneLines, chromeRows, viewportOverheadRows
<1>7. r * (2 + t) <= a
  <2> HIDE DEF a, r, t
  <2>1. 2 + t = a \div r
    BY <1>1, <1>3, <1>4
  <2> QED BY <1>5, <2>1
<1>8. r * (2 + t) \in Int
  <2> HIDE DEF a, r, t
  <2> QED BY <1>1, <1>3, <1>4
<1> QED
  <2> HIDE DEF r, t
  <2> QED BY <1>6, <1>7, <1>8 DEF AtLeast

-----------------------------------------------------------------------------
(* Scrolled back, four lines of the history lie below at the least: the    *)
(* clamp of KeyPgUp keeps a viewport of them, and none is smaller.         *)
Inv == TypeOK /\ (scrollOffset = 0 \/ scrollOffset + 4 <= history)

LEMMA InitInv == ASSUME Init PROVE Inv
BY TerminalAssumption DEF Init, Inv, TypeOK, Apps, NoApp

LEMMA HeightIsNat == ASSUME TypeOK PROVE ViewportHeight \in Nat /\ ViewportHeight >= 4
BY TerminalAssumption DEF TypeOK, ViewportHeight, AtLeast

LEMMA NextInv == ASSUME Inv, [Next]_vars PROVE Inv'
<1> USE TerminalAssumption DEF Inv
<1> USE HeightIsNat
<1>1. CASE PageUp
  BY <1>1 DEF TypeOK, PageUp, AtLeast, AtMost, Lobby, Apart, NoLine
<1>2. CASE PageDown
  BY <1>2 DEF TypeOK, PageDown, AtLeast, Lobby, Apart, NoLine
<1>3. CASE KeyEnd
  BY <1>3 DEF TypeOK, KeyEnd, Lobby, Apart, NoLine
<1>4. CASE Launch
  BY <1>4 DEF TypeOK, Launch, Lobby, Apps, NoApp, InLobby
<1>5. ASSUME NEW line, Enter(line)
      PROVE  Inv'
  <2>1. \E n \in Nat : Appends(n)
    BY <1>5 DEF Enter
  <2>2. /\ scrollOffset' = 0
        /\ UNCHANGED <<role, height, app, viewports>>
    BY <1>5 DEF Enter, Lobby
  <2>3. launching' \in Apps
    BY <1>5 DEF Enter, TypeOK, Apps
  <2> QED BY <2>1, <2>2, <2>3 DEF TypeOK, Appends
<1>6. ASSUME NEW h \in Heights, Resize(h)
      PROVE  Inv'
  BY <1>6 DEF TypeOK, Resize, InLobby, Apps, NoApp
<1>7. ASSUME NEW n \in 1 .. 2, Notice(n)
      PROVE  Inv'
  BY <1>7 DEF TypeOK, Notice, Appends, Lobby
<1>8. ASSUME NEW n \in 1 .. MaxViewers, Viewers(n)
      PROVE  Inv'
  BY <1>8 DEF TypeOK, Viewers, Lobby
<1>9. ASSUME NEW n \in 0 .. 1, AppDone(n)
      PROVE  Inv'
  BY <1>9 DEF TypeOK, AppDone, Appends, Lobby, Apps, NoApp
<1>10. CASE UNCHANGED vars
  BY <1>10 DEF TypeOK, vars
<1> QED BY <1>1, <1>2, <1>3, <1>4, <1>5, <1>6, <1>7, <1>8, <1>9, <1>10 DEF Next

LEMMA Invariant == Spec => []Inv
BY InitInv, NextInv, PTL DEF Spec

(* The types of the screen.                                                *)
THEOREM TypesHold == Spec => []TypeOK
<1>1. Inv => TypeOK BY DEF Inv
<1> QED BY <1>1, Invariant, PTL

(* View never slices beyond the history.                                   *)
THEOREM WindowHolds == Spec => []WindowInHistory
<1>1. ASSUME Inv PROVE WindowInHistory
  <2> USE HeightIsNat
  <2>1. scrollOffset \in Nat /\ history \in Nat /\ scrollOffset <= history
    BY <1>1, TerminalAssumption DEF Inv, TypeOK
  <2>2. ViewportHeight \in Nat /\ ViewportHeight >= 4
    BY <1>1 DEF Inv
  <2> QED BY <2>1, <2>2 DEF WindowInHistory, Window, AtLeast, AtMost
<1> QED BY <1>1, Invariant, PTL

(* PHONE fills the screen for every number of participants and every       *)
(* height from nine lines on.                                              *)
THEOREM PhoneFills == Spec => []PhoneFillsScreen
<1>1. ASSUME Inv PROVE PhoneFillsScreen
  <2> SUFFICES ASSUME app.is = "phone", app.height >= 9
               PROVE  PhoneLines(app.height, viewports) = app.height + 1
    BY DEF PhoneFillsScreen
  <2>1. app \in [is : {"phone", "other"}, height : Heights \union {0}]
    BY <1>1 DEF Inv, TypeOK, Apps, NoApp
  <2>2. app.height \in Nat
    <3>1. app.height \in Heights \union {0}
      BY <2>1
    <3>2. Heights \union {0} \subseteq Nat
      BY TerminalAssumption
    <3> QED BY ONLY <3>1, <3>2
  <2>3. viewports \in Nat \ {0}
    BY <1>1, TerminalAssumption DEF Inv, TypeOK
  <2> QED BY <2>2, <2>3, ViewportsFit
<1> QED BY <1>1, Invariant, PTL

(* The two pages of a step, for a history of t lines, v of which the       *)
(* screen holds, from offset o to offset p, and where they meet.           *)
Rows(v, o) == IF o > 0 THEN v - 1 ELSE v

Paged(t, v, o, p) ==
  /\ v >= 4 /\ o <= t
  /\ o = 0 \/ o + 4 <= t
  /\ \/ p = AtMost(o + v - 1, AtLeast(t - v, 0))
     \/ p = AtLeast(o - (v - 1), 0)

Pages(t, v, o, p) ==
  /\ p \in Nat
  /\ AtMost(t - p, t) = t - p
  /\ AtMost(t - o, t) = t - o
  /\ t - p >= AtLeast(t - o - Rows(v, o), 0)
  /\ AtLeast(t - p - Rows(v, p), 0) <= t - o

LEMMA PagingArithmetic ==
  ASSUME NEW t \in Nat, NEW v \in Nat, NEW o \in Nat, NEW p \in Int, Paged(t, v, o, p)
  PROVE  Pages(t, v, o, p)
<1> USE DEF Paged, Pages
<1>1. CASE p = AtMost(o + v - 1, AtLeast(t - v, 0))
  <2>1. CASE t < v
    <3>1. p = 0 BY <1>1, <2>1 DEF AtMost, AtLeast
    <3> QED BY <2>1, <3>1 DEF AtMost, AtLeast, Rows
  <2>2. CASE t >= v /\ o + v - 1 <= t - v
    <3>1. p = o + v - 1 BY <1>1, <2>2 DEF AtMost, AtLeast
    <3> QED BY <2>2, <3>1 DEF AtMost, AtLeast, Rows
  <2>3. CASE t >= v /\ o + v - 1 > t - v
    <3>1. p = t - v BY <1>1, <2>3 DEF AtMost, AtLeast
    <3> QED BY <2>3, <3>1 DEF AtMost, AtLeast, Rows
  <2> QED BY <2>1, <2>2, <2>3
<1>2. CASE p = AtLeast(o - (v - 1), 0)
  <2>1. CASE o < v - 1
    <3>1. p = 0 BY <1>2, <2>1 DEF AtLeast
    <3> QED BY <2>1, <3>1 DEF AtMost, AtLeast, Rows
  <2>2. CASE o >= v - 1
    <3>1. p = o - (v - 1) BY <1>2, <2>2 DEF AtLeast
    <3>2. p \in Nat /\ p <= o BY <2>2, <3>1
    <3> QED BY <2>2, <3>1, <3>2 DEF AtMost, AtLeast, Rows
  <2> QED BY <2>1, <2>2
<1> QED BY <1>1, <1>2

(* Paging meets the page before, for every height and history.             *)
THEOREM PagesAlwaysMeet == Spec => PagesMeet
<1>1. ASSUME Inv, PageUp \/ PageDown
      PROVE  Window'.end >= Window.start /\ Window'.start <= Window.end
  <2>1. ViewportHeight \in Nat /\ ViewportHeight >= 4
    BY <1>1, HeightIsNat DEF Inv
  <2>2. ViewportHeight' = ViewportHeight /\ history' = history
    BY <1>1 DEF PageUp, PageDown, Lobby, ViewportHeight
  <2>3. /\ scrollOffset \in Nat /\ history \in Nat /\ scrollOffset <= history
        /\ scrollOffset = 0 \/ scrollOffset + 4 <= history
    BY <1>1, TerminalAssumption DEF Inv, TypeOK
  <2>4. scrollOffset' = AtMost(scrollOffset + ViewportHeight - 1,
                               AtLeast(history - ViewportHeight, 0))
        \/ scrollOffset' = AtLeast(scrollOffset - (ViewportHeight - 1), 0)
    BY <1>1 DEF PageUp, PageDown
  <2> DEFINE end(o) == AtMost(history - o, history)
             start(o) == AtLeast(end(o) - Rows(ViewportHeight, o), 0)
  <2>5. Window = [start |-> start(scrollOffset), end |-> end(scrollOffset)]
    BY DEF Window, Rows
  <2>6. Window' = [start |-> start(scrollOffset'), end |-> end(scrollOffset')]
    BY <2>2 DEF Window, Rows
  <2>7. end(scrollOffset') >= start(scrollOffset) /\ start(scrollOffset') <= end(scrollOffset)
    <3>1. /\ end(scrollOffset') = history - scrollOffset'
          /\ end(scrollOffset) = history - scrollOffset
          /\ history - scrollOffset'
               >= AtLeast(history - scrollOffset - Rows(ViewportHeight, scrollOffset), 0)
          /\ AtLeast(history - scrollOffset' - Rows(ViewportHeight, scrollOffset'), 0)
               <= history - scrollOffset
      <4>1. scrollOffset' \in Int
        BY <2>1, <2>3, <2>4 DEF AtMost, AtLeast
      <4> HIDE DEF end, start
      <4>2. /\ AtMost(history - scrollOffset', history) = history - scrollOffset'
            /\ AtMost(history - scrollOffset, history) = history - scrollOffset
            /\ history - scrollOffset'
                 >= AtLeast(history - scrollOffset - Rows(ViewportHeight, scrollOffset), 0)
            /\ AtLeast(history - scrollOffset' - Rows(ViewportHeight, scrollOffset'), 0)
                 <= history - scrollOffset
        <5>1. Paged(history, ViewportHeight, scrollOffset, scrollOffset')
          BY <2>1, <2>3, <2>4 DEF Paged
        <5>2. Pages(history, ViewportHeight, scrollOffset, scrollOffset')
          BY <4>1, <5>1, <2>1, <2>3, PagingArithmetic
        <5> QED BY <5>2 DEF Pages
      <4> QED BY <4>2 DEF end, start
    <3> QED BY <3>1
  <2> QED BY <2>5, <2>6, <2>7
<1>2. Inv /\ [Next]_vars
        => [PageUp \/ PageDown
              => Window'.end >= Window.start /\ Window'.start <= Window.end]_vars
  BY <1>1
<1> QED BY <1>2, Invariant, PTL DEF Spec, PagesMeet

=============================================================================

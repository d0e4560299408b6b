--------------------------- MODULE MCPhoneSession ---------------------------
(***************************************************************************)
(* Instances of PhoneSession for TLC.                                      *)
(***************************************************************************)
EXTENDS PhoneSession, TLC

CONSTANTS alice, bob, carol, a1, b1, b2, c1

Pair == (a1 :> alice) @@ (b1 :> bob)
Trio == Pair @@ (c1 :> carol)
Siblings == Pair @@ (b2 :> bob)

Shut == {{}}
RingOver == {{"dialOverRing"}}
Apps == {{"otherApps", "retries"}}
CalmOrNot == {{"slowLists", "retries"}, {"dialOverRing", "slowLaunch", "reopen"}}

(* Bound: no further than a full channel, where the next event is dropped, *)
(* and not even that far with every door open.                             *)
NoOverflow ==
  \A s \in Sessions : Len(notify[s]) < IF Calm THEN NotifyCap ELSE 3

(* Bound: one launch message in flight per session, and a second of a1; a  *)
(* second receiver of one session.                                         *)
FewLaunches ==
  /\ NoOverflow
  /\ \A s \in Sessions : Cardinality(launching[s]) <= IF s = a1 THEN 2 ELSE 1
  /\ \A s, t \in Sessions : armed[s] = 2 /\ armed[t] = 2 => s = t

(* Bound: one session at a time leaves two events waiting.                *)
FewWaiting ==
  /\ NoOverflow
  /\ \E r \in Sessions : \A s \in Sessions \ {r} : Len(notify[s]) <= 1

CallSymmetry == Permutations(CallIds)

SiblingSymmetry == CallSymmetry \union Permutations({b1, b2})

=============================================================================

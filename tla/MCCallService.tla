---------------------------- MODULE MCCallService ----------------------------
(***************************************************************************)
(* Instances of CallService for TLC: which account each session logs in    *)
(* to, and the symmetry of the call identifiers (any unused one may be     *)
(* minted, and no definition orders or chooses among them).                *)
(***************************************************************************)
EXTENDS CallService, TLC

CONSTANTS alice, bob, carol, a1, b1, b2, c1

Trio == (a1 :> alice) @@ (b1 :> bob) @@ (c1 :> carol)

CallSymmetry == Permutations(CallIds)

(* notify is written and never read in CallService.                        *)
TableView == <<phase, state, callee, parts, invites, ticked, rung>>

=============================================================================

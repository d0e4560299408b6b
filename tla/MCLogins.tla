------------------------------ MODULE MCLogins ------------------------------
(***************************************************************************)
(* Instances of Logins for TLC: connections are interchangeable.           *)
(***************************************************************************)
EXTENDS Logins, TLC

ConnSymmetry == Permutations(Conns)

(* kicking decides only which connections a Kick will end, and each of     *)
(* them may end by itself (Close) at any moment.                           *)
LoginView == <<users, now, stage, login, copy, asRole>>

=============================================================================

--------------------------- MODULE MCConnections ----------------------------
(***************************************************************************)
(* Instances of Connections for TLC.                                       *)
(***************************************************************************)
EXTENDS Connections, TLC

CONSTANTS root, ROOT

Lower == (root :> root) @@ (ROOT :> root)

Account(role, status, ban) ==
  [role |-> role, status |-> status, ban |-> ban, pw |-> "own", must |-> FALSE]

Lost == Account("admin", "suspended", "forever")

(* Bound: nobody yet; one administrator, banned for good or for a time, or *)
(* active; one user.                                                       *)
FirstTables ==
  {(root :> a) @@ (ROOT :> NoRow) :
     a \in {NoRow, Lost, Account("admin", "suspended", "timed"),
            Account("admin", "active", "none"), Account("user", "active", "none")}}

=============================================================================

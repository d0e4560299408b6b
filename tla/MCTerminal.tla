----------------------------- MODULE MCTerminal -----------------------------
(***************************************************************************)
(* Instances of Terminal for TLC.                                          *)
(***************************************************************************)
EXTENDS Terminal

Keywords == UNION {{c[i] : i \in 1 .. Len(c)} : c \in Commands}

(* Every prefix of every keyword, and a username.                          *)
Typed == {"BOB"} \union UNION {{SubSeq(w, 1, n) : n \in 1 .. Len(w)} : w \in Keywords}

(* Bound: one word; or a beginning and an end of those that share them.    *)
Seconds == {"U", "USER", "USERS", "P", "PA", "PLAN", "C", "CREATE", "I", "BOB", "DELETE"}
FewLines ==
  {<<t>> : t \in Typed}
  \union {<<t, u>> : t \in Typed, u \in Seconds}
  \union {<<t, "PLAN", u>> : t \in {"S", "SE", "SET"}, u \in {"C", "CLEAR", "BOB"}}
  \union {<<"RES", "P", "BOB">>}

(* Bound: a command, a user's app and an administrator's, an ambiguity.    *)
SomeLines == {<<"WH">>, <<"PH">>, <<"RES", "P", "BOB">>, <<"S">>}

=============================================================================

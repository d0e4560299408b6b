--------------------------- MODULE Abbreviations ----------------------------
(***************************************************************************)
(* From a line typed at the lobby's prompt to the command that it runs:    *)
(* resolveAbbrev (internal/lobby/abbrev.go), which completes the prefixes  *)
(* of keywords, and the two tables of dispatch (internal/lobby/commands.go)*)
(*                                                                         *)
(* A line is a sequence of words in upper case.  The source keeps the case *)
(* of an argument; nothing here depends on it.                             *)
(***************************************************************************)
EXTENDS Naturals, FiniteSets, SequencesExt

(* commands: what may be typed without an argument.                        *)
Commands ==
  {<<"HELP">>, <<"LOGOUT">>, <<"TIME">>, <<"SHOW", "TIME">>, <<"WHO">>,
   <<"SHOW", "USERS">>, <<"SHOW">>, <<"ANSWER">>, <<"REJECT">>, <<"FINGER">>,
   <<"SHOW", "USER">>, <<"PHONE">>, <<"DIAL">>, <<"SET", "PLAN">>,
   <<"SET", "PLAN", "CLEAR">>, <<"SET", "PASSWORD">>, <<"LIST", "PENDING">>,
   <<"LIST", "USERS">>, <<"LIST", "INVITES">>, <<"INVITE">>, <<"INVITE", "CREATE">>,
   <<"APPROVE">>, <<"DENY">>, <<"DELETE", "USER">>, <<"CREATE", "USER">>, <<"UNLOCK">>,
   <<"RESET", "PASSWORD">>, <<"EXPIRE", "PASSWORD">>, <<"KICK">>, <<"BAN">>, <<"UNBAN">>,
   <<"PURGE", "PENDING">>}

(* argCommands: what takes the rest of the line as its argument.           *)
ArgCommands ==
  {<<"HELP">>, <<"SHOW", "USER">>, <<"FINGER">>, <<"PHONE">>, <<"DIAL">>, <<"APPROVE">>,
   <<"DENY">>, <<"DELETE", "USER">>, <<"CREATE", "USER">>, <<"UNLOCK">>,
   <<"RESET", "PASSWORD">>, <<"EXPIRE", "PASSWORD">>, <<"KICK">>, <<"BAN">>, <<"UNBAN">>,
   <<"INVITE", "CREATE">>}

(* adminCommandKeys                                                        *)
AdminCommands ==
  {<<"LIST", "PENDING">>, <<"LIST", "USERS">>, <<"LIST", "INVITES">>, <<"INVITE">>,
   <<"INVITE", "CREATE">>, <<"APPROVE">>, <<"DENY">>, <<"DELETE", "USER">>,
   <<"CREATE", "USER">>, <<"UNLOCK">>, <<"RESET", "PASSWORD">>, <<"EXPIRE", "PASSWORD">>,
   <<"KICK">>, <<"BAN">>, <<"UNBAN">>, <<"PURGE", "PENDING">>}

Roles == {"user", "admin"}

StartsWith(word, typed) ==
  Len(typed) <= Len(word) /\ SubSeq(word, 1, Len(typed)) = typed

-----------------------------------------------------------------------------
(* The trie: its nodes are the paths of keywords that lead to a command.   *)
Below(path) == {c \in Commands : IsPrefix(path, c)}

(* computeUserVisible                                                      *)
UserVisible(path) == Below(path) \ AdminCommands # {}

(* Mutant of Candidates: all of the trie.                                  *)
CandidatesOfAll(path, role) ==
  {c[Len(path) + 1] : c \in Below(path) \ {path}}

(* The keywords that may follow a path, for a role.                        *)
Candidates(path, role) ==
  {w \in {c[Len(path) + 1] : c \in Below(path) \ {path}} :
     role = "admin" \/ UserVisible(Append(path, w))}

(* Mutant of Matching: no preference for the whole word.                   *)
MatchingPrefixes(words, typed) == {w \in words : StartsWith(w, typed)}

(* An exact match wins over the prefixes.                                  *)
Matching(words, typed) ==
  IF typed \in words THEN {typed} ELSE {w \in words : StartsWith(w, typed)}

(* Mutant of OneWord: of several keywords, one is taken.                   *)
OneWordGuess(role, s, typed) ==
  LET found == Matching(Candidates(s.path, role), typed)
      longer == Append(s.path, CHOOSE w \in found : TRUE)
  IN IF s.mode = "argument" \/ found = {}
     THEN [s EXCEPT !.mode = "argument", !.arg = Append(s.arg, typed)]
     ELSE [s EXCEPT !.mode = IF longer \in ArgCommands THEN "argument" ELSE "keywords",
                    !.path = longer]

(* The loop of resolveAbbrev, on one word: keywords, until one takes an    *)
(* argument or none fits; an ambiguous word ends it.                       *)
OneWord(role, s, typed) ==
  LET found == Matching(Candidates(s.path, role), typed)
      longer == Append(s.path, CHOOSE w \in found : TRUE)
  IN CASE s.mode = "ambiguous" -> s
       [] s.mode = "argument" -> [s EXCEPT !.arg = Append(s.arg, typed)]
       [] s.mode = "keywords" /\ Cardinality(found) > 1 ->
            [s EXCEPT !.mode = "ambiguous", !.names = {Append(s.path, w) : w \in found}]
       [] s.mode = "keywords" /\ found = {} ->
            [s EXCEPT !.mode = "argument", !.arg = <<typed>>]
       [] OTHER ->
            [s EXCEPT !.mode = IF longer \in ArgCommands THEN "argument" ELSE "keywords",
                      !.path = longer]

(* resolveAbbrev                                                           *)
Resolve(line, role) ==
  FoldLeft(LAMBDA s, typed : OneWord(role, s, typed),
           [mode |-> "keywords", path |-> <<>>, arg |-> <<>>, names |-> {}], line)

-----------------------------------------------------------------------------
(* What dispatch makes of a line: a command that runs with an argument, or *)
(* a message with the commands it names.                                   *)
Outcome(is, command, arg, names) ==
  [is |-> is, command |-> command, arg |-> arg, names |-> names]

Unknown == Outcome("unknown", <<>>, <<>>, {})

Allowed(command, role) == role = "admin" \/ command \notin AdminCommands

Dispatch(line, role) ==
  LET r == Resolve(line, role)
      full == r.path \o r.arg
      takers == {c \in ArgCommands : IsStrictPrefix(c, full)}
      taker == CHOOSE c \in takers : TRUE
  IN CASE r.mode = "ambiguous" -> Outcome("ambiguous", <<>>, <<>>, r.names)
       [] r.mode # "ambiguous" /\ takers # {} ->
            IF Allowed(taker, role)
            THEN Outcome("ran", taker, SubSeq(full, Len(taker) + 1, Len(full)), {})
            ELSE Unknown
       [] OTHER -> IF full \in Commands /\ Allowed(full, role)
                   THEN Outcome("ran", full, <<>>, {})
                   ELSE Unknown

-----------------------------------------------------------------------------
(* What a reader of the help would expect of a line, without the trie.     *)

Visible(role) == {c \in Commands : Allowed(c, role)}

(* The line may stand for the command, or for the beginning of it.         *)
Fits(line, c) ==
  \A i \in 1 .. Len(line) \cap 1 .. Len(c) : StartsWith(c[i], line[i])

(* Of two commands that both fit, one is meant if the line has its word in *)
(* full at the first place where they differ.                              *)
MeantRather(line, c, d) ==
  \E i \in 1 .. Len(line) \cap 1 .. Len(c) \cap 1 .. Len(d) :
    /\ SubSeq(c, 1, i - 1) = SubSeq(d, 1, i - 1)
    /\ c[i] # d[i]
    /\ line[i] = c[i]

=============================================================================

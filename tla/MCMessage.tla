----------------------------- MODULE MCMessage ------------------------------
(* Lines for module Message: commands with up to two arguments of one or   *)
(* more characters and spaces anywhere; messages whose names and contents  *)
(* may look like the frame they are sent in.                               *)
EXTENDS Message

Strings(S, n) == UNION {[1..k -> S] : k \in 0..n}

CommandLines ==
  {<<"/">>} \cup
  {<<"/", n>> \o s : n \in CommandNames \cup {Space, "a"}, s \in Strings({Space, "a", "\r"}, 7)}

MessageLines ==
  {<<h>> \o s : h \in {"@", "#", "a", Space},
     s \in Strings({Space, "a", "@", ":"}, 5) \cup Strings({Space, "a", "\r", "bad"}, 3)}

MCLines == {<<>>, <<"\r">>, <<"bad">>} \cup CommandLines \cup MessageLines
MCUserNames == {<<"a", "a">>, <<"a", "a", "a">>}
=============================================================================

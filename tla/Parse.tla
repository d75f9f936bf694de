------------------------------- MODULE Parse --------------------------------
(***************************************************************************)
(* Payload::parse: a line to a command, a message or nothing.              *)
(*                                                                         *)
(* A line is a sequence of characters, but the name of a command, which is *)
(* only ever compared as a whole, stands for one of them. Places count     *)
(* from 1. C strings end where the parser writes a NUL over a space.       *)
(***************************************************************************)
EXTENDS Naturals, Sequences, SequencesExt

ArgCount ==
  [subscribe |-> 2, unsubscribe |-> 1, delete |-> 1, list_users |-> 1,
   listusers |-> 1, logout |-> 0]

CommandNames == DOMAIN ArgCount

Invalid == [kind |-> "invalid"]   \* NULL is returned
Crash   == [kind |-> "crash"]     \* a NULL pointer is used

-----------------------------------------------------------------------------
(* What is in a line.                                                      *)

\* What parts words, and more than one may.
Space == " "

\* A character outside ' '..'~': "bad" stands for the others.
is_valid_char(c) == c \notin {"\r", "bad"}

\* One carriage return at the end is no part of the line.
Stripped(line) ==
  IF line # <<>> /\ Last(line) = "\r" THEN Front(line) ELSE line

-----------------------------------------------------------------------------
(* Commands.                                                               *)

TokenEnds(b, i) == b[i] = Space \/ i = Len(b)
Text(b, from, i) == SubSeq(b, from, IF b[i] = Space THEN i - 1 ELSE i)

CommandOf(word) ==
  IF \E n \in CommandNames : word = <<n>> THEN Head(word) ELSE "unknown"

\* Mutant: an empty token is an argument, too.
TakesAny(last, i) == FALSE

\* No argument between the end of the last token and place i.
Empty(last, i) == last + 1 = i

\* One turn of the loop, at place i.
Token(b, s, i) ==
  IF ~TokenEnds(b, i) \/ s.cmd = "unknown" THEN s
  ELSE IF s.cmd = "none"
  THEN [cmd |-> CommandOf(Text(b, 2, i)), last |-> i, args |-> <<>>]
  ELSE [s EXCEPT !.last = i,
                 !.args = IF Empty(s.last, i) THEN @
                          ELSE Append(@, Text(b, s.last + 1, i))]

Tokens(b) ==
  LET scan[i \in 1..Len(b)] ==
        IF i = 1 THEN [cmd |-> "none", last |-> 1, args |-> <<>>]
                 ELSE Token(b, scan[i - 1], i)
  IN  scan[Len(b)]

Command(b) ==
  LET s == Tokens(b) IN
  IF s.cmd = "none" THEN Crash
  ELSE IF s.cmd # "unknown" /\ Len(s.args) = ArgCount[s.cmd]
  THEN [kind |-> s.cmd, args |-> s.args]
  ELSE Invalid

-----------------------------------------------------------------------------
(* Messages.                                                               *)

\* Mutant: the name ends at the last space.
LastSpace(b) == {i \in 2..Len(b) - 1 : b[i] = Space /\ \A j \in i + 1..Len(b) - 1 : b[j] # Space}

\* The first space, if there is one with a character behind it.
NameEnd(b) == {i \in 2..Len(b) - 1 : b[i] = Space /\ \A j \in 2..i - 1 : b[j] # Space}

Addressed(b) ==
  IF NameEnd(b) \in {{}, {2}} THEN Invalid
  ELSE LET i == CHOOSE k \in NameEnd(b) : TRUE IN
       [kind |-> IF b[1] = "@" THEN "direct" ELSE "group",
        to |-> SubSeq(b, 2, i - 1), content |-> SubSeq(b, i + 1, Len(b))]

parse(line) ==
  LET b == Stripped(line) IN
  IF b = <<>> \/ \E i \in DOMAIN b : ~is_valid_char(b[i]) THEN Invalid
  ELSE IF b[1] = "/" THEN Command(b)
  ELSE IF b[1] \in {"@", "#"} THEN Addressed(b)
  ELSE [kind |-> "global", content |-> b]

-----------------------------------------------------------------------------
(* PROTOCOL.md, by words: what a line should be parsed as.                 *)

\* The numbers of S, the least first.
Ascending(S) ==
  CHOOSE s \in [1..Cardinality(S) -> S] : \A i, j \in DOMAIN s : i < j => s[i] < s[j]

\* The words of b from its second character on.
Words(b) ==
  LET starts == {i \in 2..Len(b) : b[i] # Space /\ (i = 2 \/ b[i - 1] = Space)}
      ends   == {j \in 2..Len(b) : b[j] # Space /\ (j = Len(b) \/ b[j + 1] = Space)}
  IN  [k \in DOMAIN Ascending(starts) |->
         SubSeq(b, Ascending(starts)[k], Ascending(ends)[k])]

DocumentedCommand(b) ==
  LET words == Words(b) IN
  IF b[2] # Space /\ \E n \in CommandNames :
                      words[1] = <<n>> /\ Len(words) = ArgCount[n] + 1
  THEN [kind |-> b[2], args |-> Tail(words)]
  ELSE Invalid

\* A name without spaces, a space, and something said.
DocumentedMessage(b) ==
  {m \in {[kind |-> IF b[1] = "@" THEN "direct" ELSE "group",
           to |-> SubSeq(b, 2, i - 1), content |-> SubSeq(b, i + 1, Len(b))] :
             i \in {k \in DOMAIN b : b[k] = Space}} :
     m.to # <<>> /\ m.content # <<>> /\ \A i \in DOMAIN m.to : m.to[i] # Space}

\* The line ends with an argument of one character.
ShortLastArgument(b) == Len(b) > 3 /\ Last(b) # Space /\ b[Len(b) - 1] = Space

\* The commands that the code gets wrong: on a lone slash it compares a name
\* that it never found, and it drops a last argument of one character.
Misread(b) == Len(b) = 1 \/ ShortLastArgument(b)
=============================================================================

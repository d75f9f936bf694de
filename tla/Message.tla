------------------------------ MODULE Message -------------------------------
(***************************************************************************)
(* The way of one line of a logged-in client: what Payload::parse makes of *)
(* it, and, if that is a message, what msg::Message::send writes to each   *)
(* recipient, in several writes of which any may fail.                     *)
(***************************************************************************)
EXTENDS Parse

CONSTANTS
  Lines,      \* the lines that are received
  UserNames   \* the names of users, sequences of alphanumeric characters

Chars ==
  {"/", "@", "#", Space, ":", "\r", "bad", "a", "b"} \cup CommandNames

\* Only a command's name is a character that stands for several.
ASSUME LinesAssumption ==
  \A l \in Lines : /\ l \in Seq(Chars)
                   /\ \A i \in DOMAIN l : l[i] \in CommandNames => i = 2 /\ l[1] = "/"
ASSUME NamesAssumption == UserNames \subseteq Seq({"a", "b"}) \ {<<>>}

VARIABLES
  line,     \* the line received
  payload,  \* what it was parsed as
  user,     \* payload->user
  pieces,   \* what is still to be written
  wire,     \* what the recipient's socket was given
  failed    \* a write failed

vars == <<line, payload, user, pieces, wire, failed>>

Unparsed == [kind |-> "unparsed"]
MessageKinds == {"direct", "group", "global"}
IsMessage == payload.kind \in MessageKinds

TypeOK ==
  /\ line \in Seq(Chars) /\ user \in UserNames /\ failed \in BOOLEAN
  /\ payload.kind \in {"unparsed", "invalid", "crash"} \cup MessageKinds \cup CommandNames
  /\ payload.kind \in CommandNames =>
       \A i \in DOMAIN payload.args : payload.args[i] \in Seq(Chars \ {Space, "\r"}) \ {<<>>}
  /\ \A i \in DOMAIN pieces : pieces[i] # <<>>   \* a write of nothing would succeed

Init ==
  /\ line \in Lines /\ user \in UserNames
  /\ payload = Unparsed /\ pieces = <<>> /\ wire = <<>> /\ failed = FALSE

\* Mutant: a group message is sent without what ends the sender's name.
Unseparated(p, u) == <<<<"#">>, p.to, <<Space, "@">>, u, p.content, <<"\n">>>>

\* The writes of msg::GroupMessage::send, DirectMessage::send and
\* GlobalMessage::send.
GroupPieces(p, u) ==
  <<<<"#">>, p.to, <<Space, "@">>, u, <<":", Space>>, p.content, <<"\n">>>>

DirectPieces(p, u) ==
  <<<<"<DM>", Space, "@">>, u, <<":", Space>>, p.content, <<"\n">>>>

GlobalPieces(p, u) ==
  <<<<"<Global>", Space, "@">>, u, <<":", Space>>, p.content, <<"\n">>>>

Pieces(p, u) ==
  CASE p.kind = "direct" -> DirectPieces(p, u)
    [] p.kind = "group"  -> GroupPieces(p, u)
    [] p.kind = "global" -> GlobalPieces(p, u)
    [] OTHER             -> <<>>

TakeLine ==
  /\ payload = Unparsed
  /\ payload' = parse(line)
  /\ pieces' = Pieces(payload', user)
  /\ UNCHANGED <<line, user, wire, failed>>

\* UNWRAP(tcp_stream_write(...)).
Write ==
  /\ pieces # <<>> /\ ~failed
  /\ wire' = wire \o Head(pieces) /\ pieces' = Tail(pieces)
  /\ UNCHANGED <<line, payload, user, failed>>

\* send() takes fewer bytes than it was given, or none.
WriteFails ==
  /\ pieces # <<>> /\ ~failed
  /\ \E n \in 0..Len(Head(pieces)) - 1 : wire' = wire \o SubSeq(Head(pieces), 1, n)
  /\ failed' = TRUE
  /\ UNCHANGED <<line, payload, user, pieces>>

Next == TakeLine \/ Write \/ WriteFails

Spec == Init /\ [][Next]_vars

-----------------------------------------------------------------------------
(* Properties.                                                             *)

\* A line is parsed as PROTOCOL.md has it, whatever spaces are in it. Two kinds
\* of line are left out, since the code contradicts the document there: of a
\* lone slash, and of a command that ends with an argument of one character,
\* nothing is demanded, and code that read them right would have the property.
ParsedAsDocumented ==
  LET b == Stripped(line)
      Parsed(p) == payload # Unparsed => payload = p
  IN
  /\ b = <<>> \/ "bad" \in ToSet(b) \/ "\r" \in ToSet(b) => Parsed(Invalid)
  /\ ToSet(b) \cap {"\r", "bad"} = {} /\ b # <<>> =>
       CASE b[1] = "/" ->
              Misread(b) \/ Parsed(DocumentedCommand(b))
         [] b[1] \in {"@", "#"} ->
              IF DocumentedMessage(b) = {} THEN Parsed(Invalid)
              ELSE \E m \in DocumentedMessage(b) : Parsed(m)
         [] OTHER -> Parsed([kind |-> "global", content |-> b])

\* What can be read from a whole line that a recipient got: the names of
\* channels have no spaces.
Readings ==
  {r \in [kind : MessageKinds, to : {SubSeq(wire, 2, i) : i \in 1..Len(wire)},
          user : UserNames, content : {SubSeq(wire, i, Len(wire) - 1) : i \in 1..Len(wire)}] :
     /\ Space \notin ToSet(r.to) /\ (r.kind # "group" => r.to = <<>>)
     /\ wire = FlattenSeq(Pieces(r, r.user))}

\* A recipient who has the whole line can tell the kind of a message, its
\* channel, its sender and what was said in one way only, and the right one,
\* whatever the sender wrote.
ReadInOneWay ==
  IsMessage /\ pieces = <<>> =>
    Readings = {[kind |-> payload.kind, user |-> user, content |-> payload.content,
                 to |-> IF payload.kind = "group" THEN payload.to ELSE <<>>]}
=============================================================================

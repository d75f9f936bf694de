-------------------------------- MODULE Auth --------------------------------
(***************************************************************************)
(* The account dialogue: what handle_payload does with the lines of a      *)
(* connection that is not logged in yet, and the registry of users the     *)
(* connections share (ConnectionPool::get<User> and push<User>). A line    *)
(* makes at most one call on the registry, under m_users_m, so a line is   *)
(* one action.                                                             *)
(*                                                                         *)
(* A line passes the checks for a name, for a password, for an answer, for *)
(* several of these or for none: an empty line behind another in the same  *)
(* read, and a line that is only a CR, are such a line. Pointers do not    *)
(* say who frees the strings behind them: owner does.                      *)
(***************************************************************************)
EXTENDS Naturals, Sequences

CONSTANTS
  Conns,
  Lines,              \* what a client types
  Names, Passwords,   \* the lines that pass the checks of each
  Yes, No,            \* the lines that start with y or n
  Null

ASSUME LinesAssumption ==
  /\ Names \subseteq Lines /\ Passwords \subseteq Lines
  /\ Yes \subseteq Lines /\ No \subseteq Lines /\ Yes \cap No = {}
  /\ Null \notin Lines

VARIABLES
  m_users,   \* the registry of the pool, a Vec
  dialogue,  \* the thread_local variables of each rx thread, and conn->user
  ended,     \* connections whose rx thread is past its loop
  misused,   \* connections that freed a string twice or used it after free
  \* What the properties compare with:
  asked,     \* the account each client was last asked whether to create
  given,     \* the last password each client gave
  excused    \* sent an empty line too early, or lost a name to another

vars == <<m_users, dialogue, ended, misused, asked, given, excused>>

Account(n, p) == [name |-> n, password |-> p]
Accounts  == [name : Names, password : Passwords]
NoAccount == Account(Null, Null)

Dialogues ==
  [username : Names \cup {Null}, password : Passwords \cup {Null},
   new_account : BOOLEAN,
   user : Accounts \cup {NoAccount},       \* set when authenticated
   owner : {"thread", "user", "nobody"},   \* who frees username and password
   graceful : BOOLEAN]

TypeOK ==
  /\ m_users \in Seq(Accounts)
  /\ dialogue \in [Conns -> Dialogues]
  /\ ended \subseteq Conns /\ misused \subseteq Conns /\ excused \subseteq Conns
  /\ asked \in [Conns -> Accounts \cup {NoAccount}]
  /\ given \in [Conns -> Passwords \cup {Null}]

Init ==
  /\ m_users = <<>>
  /\ dialogue = [c \in Conns |->
       [username |-> Null, password |-> Null, new_account |-> FALSE,
        user |-> NoAccount, owner |-> "thread", graceful |-> FALSE]]
  /\ ended = {} /\ misused = {} /\ excused = {}
  /\ asked = [c \in Conns |-> NoAccount] /\ given = [c \in Conns |-> Null]

Authenticated(d) == d.user # NoAccount

\* The loop of rx_thread goes on. What a connection does after it misused
\* its memory is undefined and left out.
Running(c) == c \notin ended /\ c \notin misused

Dialogue(c, d) == dialogue' = [dialogue EXCEPT ![c] = d]

-----------------------------------------------------------------------------
(* ConnectionPool::get<User> and push<User>.                               *)

Found(n) ==
  {i \in DOMAIN m_users :
     m_users[i].name = n /\ \A j \in 1..(i - 1) : m_users[j].name # n}

\* Mutant: the name is not looked up again before the push.
TrustsTheQuestion(n) == FALSE

NameTaken(n) == \E i \in DOMAIN m_users : m_users[i].name = n

-----------------------------------------------------------------------------
\* Mutant: the strings are freed whoever owns them.
FreesAll(d) == d.username # Null

\* handle_payload(NULL, 0): the strings of a dialogue that led nowhere are
\* freed; the pointers stay.
FreesStrings(d) == ~Authenticated(d) /\ d.username # Null

Cleanup(c) ==
  LET d == dialogue[c] IN
  /\ IF FreesStrings(d)
     THEN /\ Dialogue(c, [d EXCEPT !.owner = "nobody"])
          /\ misused' = IF d.owner = "thread" THEN misused ELSE misused \cup {c}
     ELSE UNCHANGED <<dialogue, misused>>
  /\ UNCHANGED <<m_users, asked, given>>

\* The end of rx_thread.
End(c) == Running(c) /\ Cleanup(c) /\ ended' = ended \cup {c} /\ UNCHANGED excused

\* An empty line that a read starts with: the stream hands out NULL.
EmptyRead(c) ==
  /\ Running(c) /\ Cleanup(c)
  /\ excused' = IF Authenticated(dialogue[c]) THEN excused ELSE excused \cup {c}
  /\ UNCHANGED ended

-----------------------------------------------------------------------------
(* The lines. d is the dialogue once l was taken as the password.          *)

\* make_shared<User> and push<User>. When the name is taken, the User made
\* for nothing frees the strings.
CreateAccount(c, d) ==
  LET a == Account(d.username, d.password) IN
  \/ /\ ~NameTaken(a.name)
     /\ m_users' = Append(m_users, a)
     /\ Dialogue(c, [d EXCEPT !.user = a, !.owner = "user"])
     /\ UNCHANGED <<asked, excused>>
  \/ /\ NameTaken(a.name)
     /\ Dialogue(c, [d EXCEPT !.owner = "nobody", !.graceful = TRUE])
     /\ excused' = excused \cup {c}
     /\ UNCHANGED <<m_users, asked>>

SayBye(c, d) ==
  Dialogue(c, [d EXCEPT !.graceful = TRUE]) /\ UNCHANGED <<m_users, asked, excused>>

AskToCreate(c, d) ==
  /\ Dialogue(c, [d EXCEPT !.new_account = TRUE])
  /\ asked' = [asked EXCEPT ![c] = Account(d.username, d.password)]
  /\ UNCHANGED <<m_users, excused>>

\* Mutant: a wrong password logs in as well.
AnyPassword(a, d) == TRUE

SamePassword(a, d) == a.password = d.password

Login(c, d) ==
  \/ Found(d.username) = {} /\ AskToCreate(c, d)
  \/ \E i \in Found(d.username) :
       /\ Dialogue(c, [d EXCEPT !.password = Null,
                         !.user = IF SamePassword(m_users[i], d)
                                  THEN m_users[i] ELSE NoAccount])
       /\ UNCHANGED <<m_users, asked, excused>>

\* Mutant: the question need not have been asked.
AnswersAnyway(d, l) == l \in Yes \cup No

IsAnswer(d, l) == d.new_account /\ l \in Yes \cup No

\* Both username and password are there.
Decide(c, d, l) ==
  \/ /\ d.owner = "nobody" /\ ~(IsAnswer(d, l) /\ l \in No)
     /\ misused' = misused \cup {c}
     /\ UNCHANGED <<m_users, dialogue, asked, excused>>
  \/ d.owner # "nobody" /\ IsAnswer(d, l) /\ l \in Yes
     /\ CreateAccount(c, d) /\ UNCHANGED misused
  \/ IsAnswer(d, l) /\ l \in No /\ SayBye(c, d) /\ UNCHANGED misused
  \/ d.owner # "nobody" /\ ~IsAnswer(d, l) /\ Login(c, d) /\ UNCHANGED misused

GiveName(c, l) ==
  /\ Running(c) /\ dialogue[c].username = Null
  /\ l \in Names /\ Dialogue(c, [dialogue[c] EXCEPT !.username = l])
  /\ UNCHANGED <<m_users, ended, misused, asked, given, excused>>

\* Mutant: the length of a password is not checked.
AcceptsAll(l) == TRUE

GoodPassword(l) == l \in Passwords

GivePassword(c, l) ==
  LET d == dialogue[c] IN
  /\ Running(c) /\ ~Authenticated(d) /\ d.username # Null /\ d.password = Null
  /\ GoodPassword(l)
  /\ given' = [given EXCEPT ![c] = l]
  /\ Decide(c, [d EXCEPT !.password = l], l)
  /\ UNCHANGED ended

Answer(c, l) ==
  LET d == dialogue[c] IN
  /\ Running(c) /\ ~Authenticated(d) /\ d.username # Null /\ d.password # Null
  /\ Decide(c, d, l)
  /\ UNCHANGED <<ended, given>>

Next ==
  \E c \in Conns :
    \/ End(c) \/ EmptyRead(c)
    \/ \E l \in Lines : GiveName(c, l) \/ GivePassword(c, l) \/ Answer(c, l)

Spec == Init /\ [][Next]_vars

-----------------------------------------------------------------------------
(* Properties.                                                             *)

\* Two clients may both be asked whether to create the same name, and both
\* answer yes: only one account comes of it.
OneAccountPerName ==
  \A i, j \in DOMAIN m_users : m_users[i].name = m_users[j].name => i = j

\* An account is created by a client that is then logged in, with the name
\* and the password it was asked about; a password given later, after the
\* name was taken by somebody else, never becomes an account, although
\* new_account is never reset.
CreatedAsAsked ==
  [][m_users' # m_users =>
       \E c \in Conns : /\ m_users' = Append(m_users, asked[c])
                        /\ dialogue'[c].user = asked[c]]_vars

\* Who is logged in has a registered account of the name it gave first, and
\* gave its password last.
KnownIdentity ==
  \A c \in Conns :
    LET d == dialogue[c] IN
    Authenticated(d) =>
      /\ \E i \in DOMAIN m_users : m_users[i] = d.user
      /\ d.user = Account(d.username, given[c])

\* A name or password is freed twice or used after it was freed only by a
\* connection that sent an empty line before it was logged in, or that lost
\* the name it wanted to another client between question and answer.
MemoryMisusedIsExcused == misused \subseteq excused
=============================================================================

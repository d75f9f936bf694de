----------------------------- MODULE AuthProofs -----------------------------
(***************************************************************************)
(* Proofs about module Auth, for every set of connections and of lines.    *)
(*                                                                         *)
(* What makes the invariants inductive is Consistent: a connection that    *)
(* was asked whether to create an account still has the password it was    *)
(* asked about, unless its name has been taken since.                      *)
(***************************************************************************)
EXTENDS Auth, SequenceTheorems, TLAPS

\* What a dialogue d of connection c, whose last password is p, satisfies.
Consistent(c, d, p) ==
  /\ d.username = Null => d.password = Null /\ ~d.new_account /\ ~Authenticated(d)
  /\ Authenticated(d) =>
       /\ \E i \in DOMAIN m_users : m_users[i] = d.user
       /\ d.user = Account(d.username, p)
  /\ ~Authenticated(d) /\ d.password # Null => p = d.password
  /\ d.new_account => asked[c] \in Accounts /\ asked[c].name = d.username
  /\ d.new_account /\ ~Authenticated(d) /\ d.password # asked[c].password =>
       NameTaken(d.username)
  /\ d.owner = "user" => Authenticated(d)
  /\ d.owner = "nobody" => c \in excused \cup ended

IInv ==
  /\ TypeOK
  /\ OneAccountPerName
  /\ misused \subseteq excused
  /\ \A c \in Conns : Consistent(c, dialogue[c], given[c])

LEMMA InitIInv == Init => IInv
<1> SUFFICES ASSUME Init PROVE IInv
  OBVIOUS
<1>1. TypeOK
  BY LinesAssumption DEF Init, TypeOK, Dialogues, NoAccount, Account
<1>2. OneAccountPerName /\ misused \subseteq excused
  BY DEF Init, OneAccountPerName
<1>3. ASSUME NEW c \in Conns PROVE Consistent(c, dialogue[c], given[c])
  BY DEF Init, Consistent, Authenticated
<1>4. QED
  BY <1>1, <1>2, <1>3 DEF IInv

\* The registry only grows: what is in it stays in it.
LEMMA Appended ==
  ASSUME TypeOK, NEW a \in Accounts, m_users' = Append(m_users, a)
  PROVE  /\ m_users' \in Seq(Accounts)
         /\ DOMAIN m_users' = DOMAIN m_users \cup {Len(m_users) + 1}
         /\ \A i \in DOMAIN m_users : m_users'[i] = m_users[i]
         /\ m_users'[Len(m_users) + 1] = a
  BY AppendProperties DEF TypeOK

\* A connection that does not move keeps its part of the invariant.
LEMMA OthersConsistent ==
  ASSUME IInv, NEW c \in Conns, dialogue'[c] = dialogue[c], given'[c] = given[c],
         asked'[c] = asked[c], excused \subseteq excused', ended \subseteq ended',
         \/ m_users' = m_users
         \/ \E a \in Accounts : m_users' = Append(m_users, a)
  PROVE  Consistent(c, dialogue[c], given[c])'
<1>1. /\ DOMAIN m_users \subseteq DOMAIN m_users'
      /\ \A i \in DOMAIN m_users : m_users'[i] = m_users[i]
  BY Appended DEF IInv
<1>2. Consistent(c, dialogue[c], given[c])
  BY DEF IInv
<1>3. NameTaken(dialogue[c].username) => NameTaken(dialogue[c].username)'
  BY <1>1 DEF NameTaken
<1>4. (\E i \in DOMAIN m_users : m_users[i] = dialogue[c].user) =>
      \E i \in DOMAIN m_users' : m_users'[i] = dialogue[c].user
  BY <1>1
<1>5. QED
  BY <1>2, <1>3, <1>4 DEF Consistent, Authenticated

\* A step of connection c: what is left to show of the invariant.
LEMMA OneMoves ==
  ASSUME IInv, NEW c \in Conns, NEW e \in Dialogues,
         NEW p \in Passwords \cup {Null}, NEW a \in Accounts \cup {NoAccount},
         Dialogue(c, e),
         given' = [given EXCEPT ![c] = p], asked' = [asked EXCEPT ![c] = a],
         ended' \in {ended, ended \cup {c}},
         misused' \in {misused, misused \cup {c}},
         excused' \in {excused, excused \cup {c}},
         misused' \subseteq excused',
         \/ m_users' = m_users
         \/ \E b \in Accounts :
              m_users' = Append(m_users, b) /\ ~NameTaken(b.name),
         Consistent(c, e, p)'
  PROVE  IInv'
<1>1. TypeOK'
  BY Appended DEF IInv, TypeOK, Dialogue
<1>2. OneAccountPerName'
  <2>1. CASE m_users' = m_users
    BY <2>1 DEF IInv, OneAccountPerName
  <2>2. CASE \E b \in Accounts :
               m_users' = Append(m_users, b) /\ ~NameTaken(b.name)
    BY <2>2, Appended DEF IInv, OneAccountPerName, NameTaken
  <2>3. QED
    BY <2>1, <2>2
<1>3. ASSUME NEW k \in Conns, k # c PROVE Consistent(k, dialogue[k], given[k])'
  <2>1. /\ dialogue'[k] = dialogue[k] /\ given'[k] = given[k]
        /\ asked'[k] = asked[k] /\ excused \subseteq excused'
        /\ ended \subseteq ended'
    BY <1>3 DEF IInv, TypeOK, Dialogue
  <2>2. QED
    BY <2>1, OthersConsistent
<1>4. Consistent(c, dialogue[c], given[c])'
  <2>1. dialogue'[c] = e /\ given'[c] = p
    BY DEF IInv, TypeOK, Dialogue
  <2>2. QED
    BY <2>1 DEF Consistent, Authenticated
<1>5. QED
  BY <1>1, <1>2, <1>3, <1>4 DEF IInv

LEMMA CleanupStep ==
  ASSUME IInv, NEW c \in Conns, End(c) \/ EmptyRead(c)
  PROVE  IInv'
<1>1. PICK d \in Dialogues, p \in Passwords \cup {Null},
           a \in Accounts \cup {NoAccount} :
        d = dialogue[c] /\ p = given[c] /\ a = asked[c]
  BY DEF IInv, TypeOK
<1>2. PICK e \in Dialogues :
        e = IF FreesStrings(d) THEN [d EXCEPT !.owner = "nobody"] ELSE d
  BY DEF Dialogues
<1>3. /\ Dialogue(c, e) /\ m_users' = m_users
      /\ given' = [given EXCEPT ![c] = p] /\ asked' = [asked EXCEPT ![c] = a]
      /\ ended' \in {ended, ended \cup {c}} /\ excused' \in {excused, excused \cup {c}}
  BY <1>1, <1>2 DEF Cleanup, End, EmptyRead, IInv, TypeOK, Dialogue
<1>4. Consistent(c, d, p)
  BY <1>1 DEF IInv
<1>5. /\ misused' \in {misused, misused \cup {c}}
      /\ misused' # misused => d.owner = "nobody" /\ c \notin ended
  BY <1>1, <1>4
     DEF Cleanup, End, EmptyRead, Running, FreesStrings, Consistent, Dialogues
<1>6. misused' \subseteq excused'
  BY <1>3, <1>4, <1>5 DEF IInv, Consistent
<1>7. e.owner = "nobody" => c \in excused' \cup ended'
  <2>1. CASE FreesStrings(d)
    BY <1>1, <2>1 DEF End, EmptyRead, FreesStrings
  <2>2. CASE ~FreesStrings(d)
    BY <1>2, <1>3, <1>4, <2>2 DEF Consistent
  <2>3. QED
    BY <2>1, <2>2
<1>8. Consistent(c, e, p)'
  <2>1. /\ e.username = d.username /\ e.password = d.password /\ e.user = d.user
        /\ e.new_account = d.new_account
        /\ e.owner \in {d.owner, "nobody"} /\ asked'[c] = asked[c]
    BY <1>1, <1>2, <1>3 DEF Dialogues, IInv, TypeOK
  <2>2. QED
    BY <1>3, <1>4, <1>7, <2>1 DEF Consistent, Authenticated, NameTaken
<1>9. QED
  BY <1>3, <1>5, <1>6, <1>8, OneMoves

-----------------------------------------------------------------------------
\* What CreatedAsAsked says of a step.
AsAsked ==
  m_users' # m_users =>
    \E c \in Conns : /\ m_users' = Append(m_users, asked[c])
                     /\ dialogue'[c].user = asked[c]

\* A line l of connection c, whose dialogue is d once l was taken in.
LEMMA DecideStep ==
  ASSUME IInv, NEW c \in Conns, NEW l \in Lines, NEW d \in Dialogues,
         NEW p \in Passwords, d.password = p,
         Running(c), ~Authenticated(d), d.username # Null,
         Consistent(c, d, p), Decide(c, d, l), ended' = ended,
         given' = [given EXCEPT ![c] = p],
         dialogue[c] = d \/ dialogue[c] = [d EXCEPT !.password = Null]
  PROVE  IInv' /\ AsAsked
<1>0. PICK b \in Accounts : b = Account(d.username, p)
  BY DEF Dialogues, Accounts, Account
<1>1. PICK a \in Accounts \cup {NoAccount} : a = asked[c]
  BY DEF IInv, TypeOK
<1>2. asked = [asked EXCEPT ![c] = a] /\ p # Null /\ b # NoAccount
      /\ b.name = d.username /\ b.password = p
  BY <1>0, <1>1, LinesAssumption DEF IInv, TypeOK, NoAccount, Account, Accounts
<1>3. CASE /\ d.owner = "nobody" /\ misused' = misused \cup {c}
           /\ UNCHANGED <<m_users, dialogue, asked, excused>>
  <2>1. PICK e \in Dialogues : e = dialogue[c]
    BY DEF IInv, TypeOK
  <2>2. Dialogue(c, e)
    BY <1>3, <2>1 DEF Dialogue, IInv, TypeOK
  <2>3. misused' \subseteq excused'
    BY <1>3 DEF Consistent, Running, IInv
  <2>4. ~Authenticated(e) /\ e.owner = d.owner /\ e.password \in {Null, p}
    BY <2>1 DEF Dialogues, Authenticated
  <2>5. Consistent(c, e, p)'
    <3>1. Consistent(c, e, given[c]) /\ asked'[c] = asked[c]
      BY <1>3, <2>1 DEF IInv
    <3>2. QED
      BY <1>3, <2>4, <3>1 DEF Consistent, Authenticated, NameTaken
  <2>6. IInv'
    BY <1>2, <1>3, <2>2, <2>3, <2>5, OneMoves
  <2>7. QED
    BY <1>3, <2>6 DEF AsAsked
<1>4. CASE /\ IsAnswer(d, l) /\ d.owner # "nobody" /\ UNCHANGED misused
           /\ ~NameTaken(b.name) /\ m_users' = Append(m_users, b)
           /\ Dialogue(c, [d EXCEPT !.user = b, !.owner = "user"])
           /\ UNCHANGED <<asked, excused>>
  <2>1. asked[c] = b
    BY <1>2, <1>4 DEF Consistent, IsAnswer, Accounts
  <2>2. PICK e \in Dialogues : e = [d EXCEPT !.user = b, !.owner = "user"]
    BY DEF Dialogues
  <2>3. Consistent(c, e, p)'
    <3>1. \E i \in DOMAIN m_users' : m_users'[i] = b
      BY <1>4, Appended DEF IInv
    <3>2. /\ e.user = b /\ e.username = d.username /\ e.new_account = d.new_account
          /\ e.owner = "user" /\ e.password = p /\ b = Account(e.username, p)
      BY <1>0, <2>2 DEF Dialogues
    <3>3. Authenticated(e) /\ asked'[c] = asked[c]
      BY <1>2, <1>4, <3>2 DEF Authenticated
    <3>4. QED
      BY <3>1, <3>2, <3>3 DEF Consistent, Authenticated
  <2>4. IInv'
    BY <1>2, <1>4, <2>2, <2>3, OneMoves DEF IInv
  <2>5. dialogue'[c].user = b
    BY <1>4 DEF Dialogue, Dialogues, IInv, TypeOK
  <2>6. m_users' = Append(m_users, asked[c]) /\ dialogue'[c].user = asked[c]
    BY <1>4, <2>1, <2>5
  <2>7. QED
    BY <2>4, <2>6 DEF AsAsked
<1>5. CASE /\ IsAnswer(d, l) /\ UNCHANGED <<m_users, asked, misused>>
           /\ NameTaken(b.name)
           /\ Dialogue(c, [d EXCEPT !.owner = "nobody", !.graceful = TRUE])
           /\ excused' = excused \cup {c}
  <2>1. PICK e \in Dialogues : e = [d EXCEPT !.owner = "nobody", !.graceful = TRUE]
    BY DEF Dialogues
  <2>2. /\ e.username = d.username /\ e.user = d.user /\ e.owner = "nobody"
        /\ e.new_account = d.new_account /\ e.password = p /\ asked'[c] = asked[c]
    BY <1>5, <2>1 DEF Dialogues
  <2>3. Consistent(c, e, p)'
    BY <1>5, <2>2 DEF Consistent, Authenticated, NameTaken
  <2>4. IInv'
    BY <1>2, <1>5, <2>1, <2>3, OneMoves DEF IInv
  <2>5. QED
    BY <1>5, <2>4 DEF AsAsked
<1>6. CASE SayBye(c, d) /\ UNCHANGED misused
  <2>1. PICK e \in Dialogues : e = [d EXCEPT !.graceful = TRUE]
    BY DEF Dialogues
  <2>2. /\ e.username = d.username /\ e.user = d.user /\ e.owner = d.owner
        /\ e.new_account = d.new_account /\ e.password = p /\ asked'[c] = asked[c]
    BY <1>6, <2>1 DEF Dialogues, SayBye
  <2>3. Consistent(c, e, p)'
    BY <1>6, <2>2 DEF Consistent, Authenticated, NameTaken, SayBye
  <2>4. IInv'
    BY <1>2, <1>6, <2>1, <2>3, OneMoves DEF IInv, SayBye
  <2>5. QED
    BY <1>6, <2>4 DEF AsAsked, SayBye
<1>7. CASE /\ d.owner # "nobody" /\ Found(d.username) = {}
           /\ AskToCreate(c, d) /\ UNCHANGED misused
  <2>1. PICK e \in Dialogues : e = [d EXCEPT !.new_account = TRUE]
    BY DEF Dialogues
  <2>2. /\ e.username = d.username /\ e.user = d.user /\ e.owner = d.owner
        /\ e.new_account /\ e.password = p /\ asked'[c] = b
        /\ asked' = [asked EXCEPT ![c] = b]
    BY <1>0, <1>7, <2>1 DEF Dialogues, AskToCreate, IInv, TypeOK
  <2>3. Consistent(c, e, p)'
    BY <1>2, <1>7, <2>2 DEF Consistent, Authenticated, AskToCreate
  <2>4. IInv'
    BY <1>2, <1>7, <2>1, <2>2, <2>3, OneMoves DEF IInv, AskToCreate
  <2>5. QED
    BY <1>7, <2>4 DEF AsAsked, AskToCreate
<1>8. CASE \E i \in Found(d.username) :
             /\ Dialogue(c, [d EXCEPT !.password = Null,
                               !.user = IF SamePassword(m_users[i], d)
                                        THEN m_users[i] ELSE NoAccount])
             /\ UNCHANGED <<m_users, asked, excused, misused>>
  <2>1. PICK i \in DOMAIN m_users :
          /\ m_users[i].name = d.username
          /\ Dialogue(c, [d EXCEPT !.password = Null,
                            !.user = IF SamePassword(m_users[i], d)
                                     THEN m_users[i] ELSE NoAccount])
          /\ UNCHANGED <<m_users, asked, excused, misused>>
    BY <1>8 DEF Found
  <2>2. PICK u \in Accounts : u = m_users[i]
    BY <2>1 DEF IInv, TypeOK
  <2>3. PICK e \in Dialogues :
          e = [d EXCEPT !.password = Null,
                 !.user = IF SamePassword(u, d) THEN u ELSE NoAccount]
    BY DEF Dialogues
  <2>4. /\ e.username = d.username /\ e.password = Null /\ e.owner = d.owner
        /\ e.user = (IF u.password = p THEN u ELSE NoAccount)
        /\ e.new_account = d.new_account /\ asked'[c] = asked[c]
    BY <2>1, <2>3 DEF Dialogues, SamePassword
  <2>5. Authenticated(e) => /\ \E j \in DOMAIN m_users' : m_users'[j] = e.user
                            /\ e.user = Account(e.username, p)
    BY <2>1, <2>2, <2>4 DEF Authenticated, Account, Accounts
  <2>6. NameTaken(e.username)'
    BY <2>1, <2>4 DEF NameTaken
  <2>7. Consistent(c, e, p)'
    BY <2>1, <2>4, <2>5, <2>6 DEF Consistent, Authenticated
  <2>8. IInv'
    BY <1>2, <2>1, <2>2, <2>3, <2>7, OneMoves DEF IInv
  <2>9. QED
    BY <2>1, <2>8 DEF AsAsked
<1>9. QED
  BY <1>0, <1>3, <1>4, <1>5, <1>6, <1>7, <1>8 DEF Decide, CreateAccount, Login

-----------------------------------------------------------------------------
LEMMA NextIInv == IInv /\ [Next]_vars => IInv' /\ (AsAsked \/ UNCHANGED vars)
<1> SUFFICES ASSUME IInv, [Next]_vars PROVE IInv' /\ (AsAsked \/ UNCHANGED vars)
  OBVIOUS
<1>1. ASSUME NEW c \in Conns, End(c) \/ EmptyRead(c) PROVE IInv' /\ AsAsked
  BY <1>1, CleanupStep DEF AsAsked, End, EmptyRead, Cleanup
<1>2. ASSUME NEW c \in Conns, NEW l \in Lines, GiveName(c, l) PROVE IInv' /\ AsAsked
  <2>1. PICK d \in Dialogues, p \in Passwords \cup {Null},
             a \in Accounts \cup {NoAccount} :
          d = dialogue[c] /\ p = given[c] /\ a = asked[c]
    BY DEF IInv, TypeOK
  <2>2. PICK e \in Dialogues : e = [d EXCEPT !.username = l]
    BY <1>2 DEF Dialogues, GiveName
  <2>3. Consistent(c, d, p) /\ d.username = Null
    BY <1>2, <2>1 DEF IInv, GiveName
  <2>4. /\ e.username = l /\ e.password = d.password /\ e.user = d.user
        /\ e.owner = d.owner /\ e.new_account = d.new_account /\ l # Null
    BY <2>2, LinesAssumption DEF Dialogues
  <2>5. Consistent(c, e, p)'
    BY <1>2, <2>3, <2>4 DEF GiveName, Consistent, Authenticated, NameTaken
  <2>6. IInv'
    <3>1. given = [given EXCEPT ![c] = p] /\ asked = [asked EXCEPT ![c] = a]
      BY <2>1 DEF IInv, TypeOK
    <3>2. QED
      BY <1>2, <2>1, <2>2, <2>5, <3>1, OneMoves DEF GiveName, IInv
  <2>7. QED
    BY <1>2, <2>6 DEF AsAsked, GiveName
<1>3. ASSUME NEW c \in Conns, NEW l \in Lines, GivePassword(c, l)
      PROVE  IInv' /\ AsAsked
  <2>1. PICK d \in Dialogues : d = [dialogue[c] EXCEPT !.password = l]
    BY <1>3 DEF Dialogues, IInv, TypeOK, GivePassword, GoodPassword
  <2>2. /\ dialogue[c] \in Dialogues /\ Consistent(c, dialogue[c], given[c])
        /\ ~Authenticated(dialogue[c]) /\ dialogue[c].username # Null
        /\ dialogue[c].password = Null
    BY <1>3 DEF IInv, TypeOK, GivePassword
  <2>3. /\ d.username = dialogue[c].username /\ d.user = dialogue[c].user
        /\ d.owner = dialogue[c].owner /\ d.new_account = dialogue[c].new_account
        /\ d.password = l /\ dialogue[c] = [d EXCEPT !.password = Null]
    BY <2>1, <2>2 DEF Dialogues
  <2>4. Null \notin Passwords /\ l \in Passwords
    BY <1>3, LinesAssumption DEF GivePassword, GoodPassword
  <2>5. Consistent(c, d, l) /\ ~Authenticated(d) /\ d.username # Null
    BY <2>2, <2>3, <2>4 DEF Consistent, Authenticated, Accounts
  <2>6. Running(c) /\ Decide(c, d, l) /\ ended' = ended
        /\ given' = [given EXCEPT ![c] = l]
    BY <1>3, <2>1 DEF GivePassword
  <2>7. QED
    BY <2>3, <2>4, <2>5, <2>6, DecideStep
<1>4. ASSUME NEW c \in Conns, NEW l \in Lines, Answer(c, l) PROVE IInv' /\ AsAsked
  <2>1. PICK d \in Dialogues : d = dialogue[c]
    BY DEF IInv, TypeOK
  <2>2. /\ Consistent(c, d, given[c]) /\ ~Authenticated(d) /\ d.username # Null
        /\ d.password # Null
    BY <1>4, <2>1 DEF IInv, Answer
  <2>3. PICK p \in Passwords : p = d.password
    BY <2>2 DEF Dialogues
  <2>4. p = given[c] /\ given' = [given EXCEPT ![c] = p]
    BY <1>4, <2>2, <2>3 DEF Consistent, Answer, IInv, TypeOK
  <2>5. Running(c) /\ Decide(c, d, l) /\ ended' = ended
    BY <1>4, <2>1 DEF Answer
  <2>6. QED
    BY <2>1, <2>2, <2>3, <2>4, <2>5, DecideStep
<1>5. CASE UNCHANGED vars
  BY <1>5 DEF vars, IInv, TypeOK, OneAccountPerName, Consistent, Authenticated,
              NameTaken
<1>6. QED
  BY <1>1, <1>2, <1>3, <1>4, <1>5 DEF Next

LEMMA Inductive == Spec => []IInv
  BY InitIInv, NextIInv, PTL DEF Spec

\* The registry, the dialogues and the pointers stay what they should be.
THEOREM AuthTypeCorrect == Spec => []TypeOK
<1>1. IInv => TypeOK
  BY DEF IInv
<1>2. QED
  BY <1>1, Inductive, PTL

\* However the dialogues of any number of clients interleave, two accounts
\* never have the same name.
THEOREM OneAccount == Spec => []OneAccountPerName
<1>1. IInv => OneAccountPerName
  BY DEF IInv
<1>2. QED
  BY <1>1, Inductive, PTL

\* Although new_account stays set after the name was found taken, an account
\* is only created with the name and password its creator was asked about.
THEOREM AccountAsAsked == Spec => CreatedAsAsked
<1>1. IInv /\ [Next]_vars =>
        [m_users' # m_users =>
           \E c \in Conns : /\ m_users' = Append(m_users, asked[c])
                            /\ dialogue'[c].user = asked[c]]_vars
  BY NextIInv DEF AsAsked
<1>2. QED
  BY <1>1, Inductive, PTL DEF Spec, CreatedAsAsked

\* Nobody is logged in to an account other than the one whose name and
\* password it gave.
THEOREM IdentityKnown == Spec => []KnownIdentity
<1>1. IInv => KnownIdentity
  BY DEF IInv, KnownIdentity, Consistent
<1>2. QED
  BY <1>1, Inductive, PTL

\* A name or a password is misused only by a connection with one of the two
\* excuses.
THEOREM MisuseExcused == Spec => []MemoryMisusedIsExcused
<1>1. IInv => MemoryMisusedIsExcused
  BY DEF IInv, MemoryMisusedIsExcused
<1>2. QED
  BY <1>1, Inductive, PTL
=============================================================================

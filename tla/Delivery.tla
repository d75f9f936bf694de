------------------------------ MODULE Delivery ------------------------------
(***************************************************************************)
(* Who a message reaches: the message branch of handle_payload and         *)
(* ConnectionPool::send_msg, on channels whose members come and go.        *)
(*                                                                         *)
(* send_msg holds m_conns_m, so one call of it is one step; a group        *)
(* message is one call per member of its channel, a global message one per *)
(* member of every channel of the sender, and the steps of the others come *)
(* in between. The list user->channels holds the channels the user is a    *)
(* member of, in any order: that both sides agree is what module Channels  *)
(* is about.                                                               *)
(***************************************************************************)
EXTENDS Naturals, Sequences, FiniteSets

CONSTANTS
  Conns, Users, Channels,
  UserOf,        \* the account a connection logs in to
  MaxMessages,   \* bound: the messages sent in all
  MaxMoves       \* bound: logins, collections, subscribes and unsubscribes

ASSUME UsersAssumption ==
  UserOf \in [Conns -> Users] /\ MaxMessages \in Nat /\ MaxMoves \in Nat

VARIABLES
  m_conns,   \* connections of the pool that are logged in
  gone,      \* connections the collector has deleted
  users,     \* channel->users, a Vec
  task,      \* the fan-out an rx thread is in, and the channels it has left
  sent,      \* the number of messages sent
  moves,     \* the number of logins, collections, subscribes and unsubscribes
  log,       \* for each connection, what send_message ever queued, and for
             \* which channel
  freed,     \* messages deleted with the last shared_ptr of a send_msg call
  undefined, \* a deleted message was used, or a list while it changed
  \* What the properties compare with:
  reach,     \* the connections there since the walk of a channel began
  lacking,   \* messages during whose fan-out a member had no connection
  shifted    \* connections during whose walk of a channel a member left it

vars == <<m_conns, gone, users, task, sent, moves, log, freed, undefined,
          reach, lacking, shifted>>

Kinds    == {"direct", "group", "global"}
Messages == [from : Conns, n : 1..MaxMessages, kind : Kinds]
Idle     == [i |-> 0]

\* A fan-out: the channel being walked and the index in its users, and the
\* channels of a global message that are still to be walked.
Fanouts ==
  [ch : Channels, i : Nat, left : SUBSET Channels, msg : Messages]

\* A direct message goes by no channel.
Entries == [msg : Messages, via : SUBSET Channels]

TypeOK ==
  /\ m_conns \subseteq Conns /\ gone \subseteq Conns \ m_conns
  /\ users \in [Channels -> Seq(Users)]
  /\ task \in [Conns -> {Idle} \cup Fanouts]
  /\ \A c \in Conns : task[c] # Idle => c \in m_conns
  /\ sent \in 0..MaxMessages /\ moves \in 0..MaxMoves
  /\ log \in [Conns -> Seq(Entries)]
  /\ freed \subseteq Messages /\ lacking \subseteq Messages
  /\ undefined \in BOOLEAN /\ shifted \subseteq Conns
  /\ reach \in [Conns -> SUBSET Conns]

\* Any users may have logged in and subscribed, in any order.
Init ==
  /\ m_conns \in SUBSET Conns /\ gone = {} /\ sent = 0 /\ moves = 0
  /\ users \in [Channels ->
       {s \in UNION {[1..n -> Users] : n \in 0..Cardinality(Users)} :
          \A i, j \in DOMAIN s : s[i] = s[j] => i = j}]
  /\ task = [c \in Conns |-> Idle] /\ log = [c \in Conns |-> <<>>]
  /\ freed = {} /\ undefined = FALSE
  /\ reach = [c \in Conns |-> {}] /\ lacking = {} /\ shifted = {}

Elements(s)    == {s[i] : i \in DOMAIN s}
RemoveAt(s, i) == SubSeq(s, 1, i - 1) \o SubSeq(s, i + 1, Len(s))
Fanning(c, kind) == task[c] # Idle /\ task[c].msg.kind = kind

\* c is walking the list of channel ch.
Walking(c, kind, ch) == Fanning(c, kind) /\ task[c].ch = ch

\* Mutant: a group message is sent after users_m was given back.
NeverLocked(ch) == FALSE

\* Some rx thread holds users_m of channel ch, or channels_m of user u.
UsersLocked(ch) == \E c \in Conns : Walking(c, "group", ch)
ChannelsLocked(u) == \E c \in Conns : UserOf[c] = u /\ Fanning(c, "global")

-----------------------------------------------------------------------------
(* Connections and members.                                                *)

Moves ==
  moves < MaxMoves /\ moves' = moves + 1 /\ UNCHANGED <<task, sent, log, freed>>

Login(c) ==
  /\ Moves /\ c \notin m_conns \cup gone
  /\ m_conns' = m_conns \cup {c}
  /\ UNCHANGED <<gone, users, undefined>>

\* Mutant: the collector does not wait for the rx thread.
NotJoined(c) == TRUE

RxJoined(c) == task[c] = Idle

Collect(c) ==
  /\ Moves /\ c \in m_conns /\ RxJoined(c)
  /\ m_conns' = m_conns \ {c} /\ gone' = gone \cup {c}
  /\ UNCHANGED <<users, undefined>>

\* c may handle a command of its user about channel ch.
CommandFree(c, ch) ==
  /\ c \in m_conns /\ task[c] = Idle
  /\ ~UsersLocked(ch) /\ ~ChannelsLocked(UserOf[c])

\* A global message walks the list without users_m: changing it meanwhile is a
\* data race, which may end in anything.
Changes(ch) ==
  /\ Moves /\ UNCHANGED <<m_conns, gone>>
  /\ undefined' \in {FALSE, \E c \in Conns : Walking(c, "global", ch)}

Subscribe(c, ch) ==
  /\ CommandFree(c, ch) /\ Changes(ch) /\ UserOf[c] \notin Elements(users[ch])
  /\ users' = [users EXCEPT ![ch] = Append(@, UserOf[c])]

Unsubscribe(c, ch) ==
  /\ CommandFree(c, ch) /\ Changes(ch)
  /\ \E i \in DOMAIN users[ch] :
       /\ users[ch][i] = UserOf[c]
       /\ users' = [users EXCEPT ![ch] = RemoveAt(@, i)]

-----------------------------------------------------------------------------
(* Messages.                                                               *)

Recipients(u) == {c \in m_conns : UserOf[c] = u}

\* Mutant: the message goes with the only copy that was queued.
FreesLoneCopy(u) == \A c, d \in Recipients(u) : c = d

\* The shared_ptr of send_msg is the last one: nobody was given a copy. The
\* copies in the queues are never deleted.
LastOwner(u) == Recipients(u) = {}

\* send_msg(u, e.msg). Each call makes an owner of its own for the same message.
SendMsg(u, e) ==
  /\ undefined' = (e.msg \in freed)
  /\ log' = [c \in Conns |->
               IF c \in Recipients(u) THEN Append(log[c], e) ELSE log[c]]
  /\ freed' = IF LastOwner(u) THEN freed \cup {e.msg} ELSE freed

\* An rx thread takes up the next message of its connection.
NextMessage(c, kind) == [from |-> c, n |-> sent + 1, kind |-> kind]

Takes(c) ==
  /\ c \in m_conns /\ task[c] = Idle /\ sent < MaxMessages
  /\ sent' = sent + 1 /\ UNCHANGED <<m_conns, gone, users, moves>>

Direct(c, u) ==
  /\ Takes(c) /\ UNCHANGED task
  /\ SendMsg(u, [msg |-> NextMessage(c, "direct"), via |-> {}])

\* The fan-out starts with channel ch.
Begin(c, kind, ch, left) ==
  /\ Takes(c) /\ UserOf[c] \in Elements(users[ch])
  /\ task' = [task EXCEPT ![c] = [ch |-> ch, i |-> 1, left |-> left,
                                 msg |-> NextMessage(c, kind)]]
  /\ UNCHANGED <<log, freed, undefined>>

\* Takes users_m of the channel for the whole fan-out.
BeginGroup(c, ch) == ~UsersLocked(ch) /\ Begin(c, "group", ch, {})

ChannelsOf(u) == {ch \in Channels : u \in Elements(users[ch])}

\* Takes channels_m of the sender, whose channels are walked one after the
\* other; users of each is read without users_m.
BeginGlobal(c, ch) ==
  /\ ~ChannelsLocked(UserOf[c])
  /\ Begin(c, "global", ch, ChannelsOf(UserOf[c]) \ {ch})

\* What the members of the channel that c is walking are sent.
Entry(c) == [msg |-> task[c].msg, via |-> {task[c].ch}]

\* The next member is another user.
FanOut(c) ==
  /\ task[c] # Idle /\ task[c].i <= Len(users[task[c].ch])
  /\ LET to == users[task[c].ch][task[c].i] IN
     IF to # UserOf[c] THEN SendMsg(to, Entry(c))
                       ELSE UNCHANGED <<log, freed, undefined>>
  /\ task' = [task EXCEPT ![c].i = @ + 1]
  /\ UNCHANGED <<m_conns, gone, users, sent, moves>>

EndOfUsers(c) == task[c] # Idle /\ task[c].i > Len(users[task[c].ch])

\* A global message goes on to another channel of the sender.
NextChannel(c, ch) ==
  /\ EndOfUsers(c) /\ ch \in task[c].left
  /\ task' = [task EXCEPT ![c] = [ch |-> ch, i |-> 1, left |-> @.left \ {ch},
                                 msg |-> @.msg]]
  /\ UNCHANGED <<m_conns, gone, users, sent, moves, log, freed, undefined>>

\* The lock is given back.
End(c) ==
  /\ EndOfUsers(c) /\ task[c].left = {}
  /\ task' = [task EXCEPT ![c] = Idle]
  /\ UNCHANGED <<m_conns, gone, users, sent, moves, log, freed, undefined>>

-----------------------------------------------------------------------------
\* The history the properties compare with.
Others(c)  == Elements(users[task[c].ch]) \ {UserOf[c]}
Present(c) == {d \in m_conns : UserOf[d] \in Others(c)}

\* c is walking a channel before and after the step.
WalksOn(c) == task[c] # Idle /\ task'[c] # Idle /\ task'[c].ch = task[c].ch

Remember ==
  /\ reach' = [c \in Conns |->
       IF task'[c] = Idle THEN {}
       ELSE IF WalksOn(c) THEN reach[c] \cap Present(c)' ELSE Present(c)']
  /\ lacking' = lacking \cup
       {task'[c].msg : c \in {d \in Conns : task'[d] # Idle /\
          \E u \in Others(d)' : \A k \in m_conns' : UserOf[k] # u}}
  /\ shifted' = {c \in Conns : WalksOn(c) /\
       (c \in shifted \/ Len(users'[task[c].ch]) < Len(users[task[c].ch]))}

Step ==
  \E c \in Conns :
    \/ Login(c) \/ Collect(c) \/ FanOut(c) \/ End(c)
    \/ \E u \in Users : Direct(c, u)
    \/ \E ch \in Channels :
         \/ Subscribe(c, ch) \/ Unsubscribe(c, ch)
         \/ BeginGroup(c, ch) \/ BeginGlobal(c, ch) \/ NextChannel(c, ch)

Next == ~undefined /\ Step /\ Remember

Spec == Init /\ [][Next]_vars

-----------------------------------------------------------------------------
(* Properties.                                                             *)

Copies(c, e) == {i \in DOMAIN log[c] : log[c][i] = e}
Group(e) == e.msg.kind = "group"

\* Two connections that are both sent two group messages of a channel are sent
\* them in the same order, whoever sent them.
SameOrder ==
  \A c, d \in Conns : \A m, n \in Elements(log[c]) \cap Elements(log[d]) :
    Group(m) /\ Group(n) /\ m.via = n.via =>
      \A i \in Copies(c, m), j \in Copies(c, n),
         k \in Copies(d, m), l \in Copies(d, n) : i < j => k < l

\* For each channel it goes to, a message is sent once to every connection of
\* every other member that was there from the beginning of the walk of the
\* channel to its end: a global message once for every channel that is shared
\* with the sender, and so more than once if there are several. A group message
\* is sent whatever the members do; a global message unless a member leaves
\* meanwhile, which shifts the list under the index of the walk.
FanOutReachesMembers ==
  \A c \in Conns :
    EndOfUsers(c) /\ (Fanning(c, "group") \/ c \notin shifted) =>
      \A d \in reach[c] : \E i \in DOMAIN log[d] : Copies(d, Entry(c)) = {i}

\* A message that was queued for somebody is deleted, and so dangles in the
\* queue, only if a member it was meant for had no connection; a direct message
\* never does. Memory is misused only after such a deletion or under a global
\* message.
DanglesOnlyIfLacking ==
  /\ \A c \in Conns : \A e \in Elements(log[c]) :
       e.msg \in freed => e.msg \in lacking
  /\ undefined => freed \cap lacking # {} \/ \E c \in Conns : Fanning(c, "global")
=============================================================================

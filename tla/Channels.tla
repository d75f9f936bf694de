------------------------------ MODULE Channels ------------------------------
(***************************************************************************)
(* The channels of chatd and the commands that change them, each run by    *)
(* the rx thread of a logged-in connection: /subscribe, /unsubscribe,      *)
(* /delete and /list_users.                                                *)
(*                                                                         *)
(* Membership is kept twice, in User::channels and in Channel::users, each *)
(* list under a mutex of its own; the pool's registry m_channels is a      *)
(* third structure with a third mutex. An action is a stretch of code      *)
(* between two acquisitions of a mutex that others may hold. The calls of  *)
(* ConnectionPool::get, push and remove lock and unlock m_channels_m       *)
(* themselves and are one action each.                                     *)
(*                                                                         *)
(* Channel objects are numbered in the order they are registered; made[c]  *)
(* is the name of object c. Two objects may have one name: a user holds a  *)
(* shared_ptr to a channel and may keep it after the registry lost it.     *)
(***************************************************************************)
EXTENDS Naturals, Sequences, SequencesExt

CONSTANTS
  Users,        \* the logged-in users
  Threads,      \* rx threads of their connections
  UserOf,       \* [Threads -> Users]; a user may be logged in twice
  Names,        \* names of channels
  Commands,     \* the commands that are given
  MaxChannels,  \* bound: channels ever registered
  MaxCommands   \* bound: commands ever given

AllCommands == {"subscribe", "unsubscribe", "delete", "list_users"}

ASSUME ThreadsAssumption ==
  UserOf \in [Threads -> Users] /\ "none" \notin Threads
ASSUME CommandsAssumption == Commands \subseteq AllCommands
ASSUME BoundsAssumption == MaxChannels \in Nat \ {0} /\ MaxCommands \in Nat

VARIABLES
  pc,          \* where each thread is
  call,        \* the command it runs and the name given with it
  i,           \* its loop index, from 1
  ch,          \* the channel it has found or made
  made,        \* names of the channels registered so far
  m_channels,  \* ConnectionPool::m_channels, the registry
  channels,    \* User::channels of every user
  users,       \* Channel::users of every channel
  channels_m,  \* owner of every User::channels_m
  users_m,     \* owner of every Channel::users_m
  thrown,      \* a C_OUT_OF_BOUNDS left a thread: the process is gone
  budget       \* commands left under the bound MaxCommands

local == <<pc, call, i, ch>>
lists == <<made, m_channels, channels, users>>
locks == <<channels_m, users_m>>
vars  == <<local, lists, locks, thrown, budget>>

Channel == 1..MaxChannels
Call    == [cmd : Commands, name : Names]
NoCall  == [cmd |-> "none"]
Labels ==
  {"idle", "lock", "get", "push", "join", "add", "scan", "disband", "list",
   "members", "strip"}

TypeOK ==
  /\ pc \in [Threads -> Labels]
  /\ call \in [Threads -> Call \cup {NoCall}]
  /\ i \in [Threads -> Nat \ {0}] /\ ch \in [Threads -> Channel]
  /\ made \in Seq(Names) /\ Len(made) <= MaxChannels
  /\ m_channels \subseteq 1..Len(made)
  /\ channels \in [Users -> Seq(1..Len(made))]
  /\ users \in [Channel -> Seq(Users)]
  /\ channels_m \in [Users -> Threads \cup {"none"}]
  /\ users_m \in [Channel -> Threads \cup {"none"}]
  /\ thrown \in BOOLEAN
  /\ budget \in 0..MaxCommands

Init ==
  /\ pc = [t \in Threads |-> "idle"]
  /\ call = [t \in Threads |-> NoCall]
  /\ i = [t \in Threads |-> 1] /\ ch = [t \in Threads |-> 1]
  /\ made = <<>> /\ m_channels = {}
  /\ channels = [u \in Users |-> <<>>]
  /\ users = [c \in Channel |-> <<>>]
  /\ channels_m = [u \in Users |-> "none"]
  /\ users_m = [c \in Channel |-> "none"]
  /\ thrown = FALSE
  /\ budget = MaxCommands

-----------------------------------------------------------------------------
User(t)  == UserOf[t]
Mine(t)  == channels[User(t)]
Name(t)  == call[t].name

Goto(t, label) == pc' = [pc EXCEPT ![t] = label] /\ UNCHANGED call

\* The command returns and its locals are gone.
Return(t) ==
  /\ pc' = [pc EXCEPT ![t] = "idle"]
  /\ call' = [call EXCEPT ![t] = NoCall]
  /\ i' = [i EXCEPT ![t] = 1] /\ ch' = [ch EXCEPT ![t] = 1]

LockList(t)    == channels_m' = [channels_m EXCEPT ![User(t)] = t]
UnlockList(t)  == channels_m' = [channels_m EXCEPT ![User(t)] = "none"]
LockUsers(c,t) == users_m' = [users_m EXCEPT ![c] = t]

\* Mutant: a return that leaves the users of the channel locked.
LeaveLocked(c) == UNCHANGED users_m

UnlockUsers(c) == users_m' = [users_m EXCEPT ![c] = "none"]

-----------------------------------------------------------------------------
(* ConnectionPool::get, push and remove, for channels.                     *)

Named(n)      == {c \in m_channels : made[c] = n}
First(S)      == {c \in S : \A d \in S : c <= d}
Registered(n) == Named(n) # {}

\* Mutant: push() without its own look at the registry.
NotLooked(n) == TRUE

\* push() looks for the name again under its own lock.
NameFree(n) == ~Registered(n)

\* Mutant: the element before the new one.
Previous == Len(made)

\* The channel that is about to be made.
Newest == Len(made) + 1

Register(n) ==
  made' = Append(made, n) /\ m_channels' = m_channels \cup {Newest}
Unregister(n) == m_channels' = m_channels \ First(Named(n))

-----------------------------------------------------------------------------
(* The start of every command: lock_guard on the user's own list.          *)

Begin(t, command, n) ==
  /\ pc[t] = "idle"
  /\ budget > 0 /\ budget' = budget - 1
  /\ pc' = [pc EXCEPT ![t] = "lock"]
  /\ call' = [call EXCEPT ![t] = [cmd |-> command, name |-> n]]
  /\ UNCHANGED <<i, ch, lists, locks, thrown>>

\* Mutant: /subscribe does not look at the user's own list.
NeverIn(t) == FALSE

\* "ERR: You are already in the channel!"
AlreadyIn(t) == \E k \in DOMAIN Mine(t) : made[Mine(t)[k]] = Name(t)

LockOwnList(t) ==
  /\ pc[t] = "lock"
  /\ channels_m[User(t)] = "none"
  /\ IF call[t].cmd # "subscribe"
     THEN LockList(t) /\ Goto(t, "scan") /\ UNCHANGED <<i, ch>>
     ELSE IF AlreadyIn(t)
          THEN Return(t) /\ UNCHANGED channels_m
          ELSE LockList(t) /\ Goto(t, "get") /\ UNCHANGED <<i, ch>>
  /\ UNCHANGED <<lists, users_m, thrown, budget>>

-----------------------------------------------------------------------------
(* cmd::Subscribe, holding channels_m of the user to the end.              *)

\* pool->get: the channel exists, and the password is right or wrong, or
\* there is none yet.
SubGet(t) ==
  /\ pc[t] = "get"
  /\ \/ \E c \in First(Named(Name(t))) :
          /\ ch' = [ch EXCEPT ![t] = c]
          /\ Goto(t, "join")
          /\ UNCHANGED <<i, channels_m>>
     \/ Registered(Name(t)) /\ Return(t) /\ UnlockList(t)
     \/ ~Registered(Name(t)) /\ Goto(t, "push")
          /\ UNCHANGED <<i, ch, channels_m>>
  /\ UNCHANGED <<lists, users_m, thrown, budget>>

\* pool->push of a new channel: "ERR: Could not create channel." if another
\* thread has registered the name since.
SubPush(t) ==
  /\ pc[t] = "push"
  /\ IF NameFree(Name(t))
     THEN /\ Len(made) < MaxChannels
          /\ Register(Name(t))
          /\ ch' = [ch EXCEPT ![t] = Newest]
          /\ Goto(t, "join")
          /\ UNCHANGED <<i, channels_m>>
     ELSE Return(t) /\ UnlockList(t) /\ UNCHANGED <<made, m_channels>>
  /\ UNCHANGED <<channels, users, users_m, thrown, budget>>

\* Mutant: the guard of the user's list ends here.
DropList(t) == UnlockList(t)

KeepList(t) == UNCHANGED channels_m

SubJoin(t) ==
  /\ pc[t] = "join"
  /\ channels' = [channels EXCEPT ![User(t)] = Append(@, ch[t])]
  /\ KeepList(t)
  /\ Goto(t, "add")
  /\ UNCHANGED <<i, ch, made, m_channels, users, users_m, thrown,
                 budget>>

SubAdd(t) ==
  /\ pc[t] = "add"
  /\ users_m[ch[t]] = "none"
  /\ users' = [users EXCEPT ![ch[t]] = Append(@, User(t))]
  /\ UnlockList(t)
  /\ Return(t)
  /\ UNCHANGED <<made, m_channels, channels, users_m, thrown, budget>>

-----------------------------------------------------------------------------
(* Unsubscribe, Delete and ListUsers look for the name in the user's list, *)
(* locking the users of one channel after the other.                       *)

ScanEnd(t) ==
  /\ pc[t] = "scan"
  /\ i[t] > Len(Mine(t))
  /\ Return(t) /\ UnlockList(t)
  /\ UNCHANGED <<lists, users_m, thrown, budget>>

\* The i-th channel could be locked.
Scanned(t, c) ==
  /\ pc[t] = "scan"
  /\ i[t] <= Len(Mine(t)) /\ c = Mine(t)[i[t]]
  /\ users_m[c] = "none"

ScanOther(t) ==
  /\ \E c \in Channel : Scanned(t, c) /\ made[c] # Name(t)
  /\ i' = [i EXCEPT ![t] = @ + 1]
  /\ UNCHANGED <<pc, call, ch, lists, locks, thrown, budget>>

Found(t, c) == Scanned(t, c) /\ made[c] = Name(t)

\* Mutant: an empty channel stays.
NeverAbandoned(c) == FALSE

\* The channel has lost its last user.
Abandoned(c) == users'[c] = <<>>

\* Unsubscribe takes the channel and the user out of each other's list, and
\* keeps both mutexes if the channel is to be removed from the pool.
UnsFound(t, c) ==
  /\ call[t].cmd = "unsubscribe"
  /\ Found(t, c)
  /\ channels' = [channels EXCEPT ![User(t)] = RemoveAt(@, i[t])]
  /\ users' = [users EXCEPT ![c] = RemoveFirst(@, User(t))]
  /\ IF Abandoned(c)
     THEN /\ ch' = [ch EXCEPT ![t] = c]
          /\ LockUsers(c, t)
          /\ Goto(t, "disband")
          /\ UNCHANGED <<i, channels_m>>
     ELSE Return(t) /\ UnlockList(t) /\ UNCHANGED users_m
  /\ UNCHANGED <<made, m_channels, thrown, budget>>

\* pool->remove(channel->name), by name.
UnsDisband(t) ==
  /\ pc[t] = "disband"
  /\ Unregister(Name(t))
  /\ UnlockUsers(ch[t]) /\ UnlockList(t)
  /\ Return(t)
  /\ UNCHANGED <<made, channels, users, thrown, budget>>

\* ListUsers keeps channels_m and locks the users of the channel again, to
\* read their names.
ListFound(t, c) ==
  /\ call[t].cmd = "list_users"
  /\ Found(t, c)
  /\ ch' = [ch EXCEPT ![t] = c]
  /\ Goto(t, "list")
  /\ UNCHANGED <<i, lists, locks, thrown, budget>>

List(t) ==
  /\ pc[t] = "list"
  /\ users_m[ch[t]] = "none"
  /\ Return(t) /\ UnlockList(t)
  /\ UNCHANGED <<lists, users_m, thrown, budget>>

-----------------------------------------------------------------------------
(* cmd::Delete: with channels_m released, it locks the users of the        *)
(* channel and then, one after the other, the list of each of them.        *)

DelFound(t, c) ==
  /\ call[t].cmd = "delete"
  /\ Found(t, c)
  /\ ch' = [ch EXCEPT ![t] = c]
  /\ UnlockList(t)
  /\ Goto(t, "members")
  /\ UNCHANGED <<i, lists, users_m, thrown, budget>>

DelMembers(t) ==
  /\ pc[t] = "members"
  /\ users_m[ch[t]] = "none"
  /\ LockUsers(ch[t], t)
  /\ i' = [i EXCEPT ![t] = 1]
  /\ Goto(t, "strip")
  /\ UNCHANGED <<ch, lists, channels_m, thrown, budget>>

\* Of the i-th user's list the first entry goes, whichever channel it is: the
\* inner loop compares the name of the channel being deleted with itself. It
\* runs as long as the list of the user who gave the command, read without its
\* mutex, has entries; removing from an empty list throws.
DelStrip(t) ==
  /\ pc[t] = "strip"
  /\ i[t] <= Len(users[ch[t]])
  /\ LET m == users[ch[t]][i[t]] IN
       /\ channels_m[m] = "none"
       /\ channels' = IF Mine(t) = <<>> \/ channels[m] = <<>> THEN channels
                      ELSE [channels EXCEPT ![m] = Tail(@)]
       /\ thrown' = (Mine(t) # <<>> /\ channels[m] = <<>>)
  /\ i' = [i EXCEPT ![t] = @ + 1]
  /\ UNCHANGED <<pc, call, ch, made, m_channels, users, locks, budget>>

DelRemove(t) ==
  /\ pc[t] = "strip"
  /\ i[t] > Len(users[ch[t]])
  /\ Unregister(Name(t))
  /\ UnlockUsers(ch[t])
  /\ Return(t)
  /\ UNCHANGED <<made, channels, users, channels_m, thrown, budget>>

-----------------------------------------------------------------------------
Step(t) ==
  /\ ~thrown
  /\ \/ LockOwnList(t)
     \/ SubGet(t) \/ SubPush(t) \/ SubJoin(t) \/ SubAdd(t)
     \/ ScanEnd(t) \/ ScanOther(t)
     \/ \E c \in Channel : UnsFound(t, c) \/ ListFound(t, c) \/ DelFound(t, c)
     \/ UnsDisband(t) \/ List(t)
     \/ DelMembers(t) \/ DelStrip(t) \/ DelRemove(t)

Next ==
  \E t \in Threads :
    \/ \E command \in Commands, n \in Names : ~thrown /\ Begin(t, command, n)
    \/ Step(t)

Spec == Init /\ [][Next]_vars

\* Every thread keeps running while it can; no command is ever owed.
FairSpec == Spec /\ \A t \in Threads : WF_vars(Step(t))

-----------------------------------------------------------------------------
(* Properties that hold.                                                   *)

In(x, list) == \E k \in DOMAIN list : list[k] = x

\* The registry never holds two channels of one name, although /subscribe
\* looks a name up and registers it in two separate critical sections.
NamesUnique == \A c, d \in m_channels : made[c] = made[d] => c = d

\* No user is in two channels of one name, on however many connections he
\* gives commands and however many objects of that name were made: a name
\* given with /unsubscribe or /list_users means one channel.
OnePerName ==
  \A u \in Users : \A j, k \in DOMAIN channels[u] :
    made[channels[u][j]] = made[channels[u][k]] => j = k

\* Where nothing is deleted, the two sides of a membership agree whenever
\* nobody holds the user's list: what /subscribe and /unsubscribe do to both
\* lists is one step to everyone who locks the first of them.
MembershipMirrored ==
  \A u \in Users : channels_m[u] = "none" =>
    \A c \in Channel : In(c, channels[u]) <=> In(u, users[c])

\* No name, with its password, stays registered for a channel that nobody is
\* in: a registered channel has a user in its list, or a thread is about to
\* add the first one or to remove the channel. (Whether that user knows of his
\* membership is MembershipMirrored, which does not hold under /delete.)
RegisteredIsUsed ==
  \A c \in m_channels :
    \/ users[c] # <<>>
    \/ \E t \in Threads : pc[t] \in {"join", "add", "disband"} /\ ch[t] = c

\* Thread t has to wait for a mutex that o holds.
WaitsFor(t, o) ==
  \/ pc[t] = "lock" /\ channels_m[User(t)] = o
  \/ pc[t] \in {"add", "list", "members"} /\ users_m[ch[t]] = o
  \/ pc[t] = "scan" /\ i[t] <= Len(Mine(t)) /\ users_m[Mine(t)[i[t]]] = o
  \/ /\ pc[t] = "strip" /\ i[t] <= Len(users[ch[t]])
     /\ channels_m[users[ch[t]][i[t]]] = o

\* Thread t is in a command and waits for nobody.
GoesOn(t) == pc[t] # "idle" /\ \A o \in Threads : ~WaitsFor(t, o)

\* Where nothing is deleted, no two threads wait for each other, nor more of
\* them in a circle: who holds a mutex that another thread waits for goes on,
\* or waits himself for one that goes on. /subscribe, /unsubscribe and
\* /list_users lock channels_m of a user before users_m of a channel.
NoCircularWait ==
  \A t, o \in Threads : WaitsFor(t, o) =>
    GoesOn(o) \/ \E p \in Threads : WaitsFor(o, p) /\ GoesOn(p)

\* Where nothing is deleted, every command ends.
CommandsEnd == \A t \in Threads : pc[t] # "idle" ~> (pc[t] = "idle" \/ thrown)

-----------------------------------------------------------------------------
(* Properties the repository states and the code does not have.            *)

\* "Subscribes to the specified channel. Messages from the channel will be
\* delivered to the user": messages go to the channel the registry holds, so a
\* subscriber's channel must be in it.
SubscribedIsRegistered ==
  \A u \in Users : channels_m[u] = "none" =>
    \A k \in DOMAIN channels[u] : channels[u][k] \in m_channels

\* "Deletes the specified channel", and nothing but it: a user leaves a channel
\* only by a command that names it.
DeleteKeepsOthers ==
  [][\A u \in Users, c \in Channel :
       In(c, channels[u]) /\ ~In(c, channels'[u]) =>
         \E t \in Threads :
           pc[t] \in {"scan", "strip"} /\ Name(t) = made[c]]_vars
=============================================================================

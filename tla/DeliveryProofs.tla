--------------------------- MODULE DeliveryProofs ---------------------------
(***************************************************************************)
(* Proofs about module Delivery, for every set of connections, users and   *)
(* channels and every number of messages and moves.                        *)
(*                                                                         *)
(* Messages are numbered in the order they are taken up. A group message   *)
(* is taken up with users_m free, so that those queued before it for the   *)
(* same channel have lower numbers: every log has the group messages of a  *)
(* channel in the order of their numbers. A direct message that was        *)
(* deleted has a number no later message has, so that it is in no queue;   *)
(* any other was deleted during a fan-out that lacked a recipient. And the *)
(* walk of a channel has sent its message to those it has passed, as long  *)
(* as nobody left the list under it, and to nobody for a channel that is   *)
(* still to be walked.                                                     *)
(***************************************************************************)
EXTENDS Delivery, TLAPS

\* TypeOK in parts, and what a fan-out is never.
ConnsInv ==
  /\ m_conns \subseteq Conns /\ gone \subseteq Conns \ m_conns
  /\ users \in [Channels -> Seq(Users)]
  /\ sent \in 0..MaxMessages /\ moves \in 0..MaxMoves

Walks ==
  [ch : Channels, i : Nat \ {0}, left : SUBSET Channels, msg : Messages]

\* A fan-out of a connection of the pool.
Proper(t, s) ==
  /\ t.msg.n <= s /\ t.msg.kind # "direct"
  /\ t.ch \notin t.left /\ (t.msg.kind = "group" => t.left = {})

TaskInv ==
  /\ task \in [Conns -> {Idle} \cup Walks]
  /\ \A c \in Conns : task[c] # Idle => c \in m_conns /\ Proper(task[c], sent)

LogInv ==
  /\ log \in [Conns -> Seq(Entries)]
  /\ freed \subseteq Messages
  /\ \A m \in freed : m.n <= sent
  /\ \A c \in Conns : \A k \in DOMAIN log[c] : log[c][k].msg.n <= sent

HistoryInv ==
  /\ lacking \subseteq Messages /\ undefined \in BOOLEAN
  /\ reach \in [Conns -> SUBSET Conns] /\ shifted \subseteq Conns

TypeInv == ConnsInv /\ TaskInv /\ LogInv /\ HistoryInv

-----------------------------------------------------------------------------
(* Types.                                                                  *)

\* Next, flattened into the actions of one connection.
LEMMA NextCases ==
  [Next]_vars =>
    \/ /\ ~undefined /\ Remember
       /\ \E c \in Conns :
            \/ Login(c) \/ Collect(c) \/ FanOut(c) \/ End(c)
            \/ \E u \in Users : Direct(c, u)
            \/ \E ch \in Channels :
                 \/ Subscribe(c, ch) \/ Unsubscribe(c, ch)
                 \/ BeginGroup(c, ch) \/ BeginGlobal(c, ch)
                 \/ NextChannel(c, ch)
    \/ UNCHANGED vars
  BY DEF Next, Step

\* What a step adds to the logs is the entry at their ends.
LEMMA SendMsgAppends ==
  ASSUME log \in [Conns -> Seq(Entries)], NEW u, NEW e \in Entries,
         SendMsg(u, e)
  PROVE  /\ log' \in [Conns -> Seq(Entries)]
         /\ \A d \in Conns : \A k \in DOMAIN log'[d] :
              \/ k \in DOMAIN log[d] /\ log'[d][k] = log[d][k]
              \/ /\ k = Len(log[d]) + 1 /\ log'[d][k] = e
                 /\ d \in Recipients(u)
<1>1. log' = [d \in Conns |-> IF d \in Recipients(u) THEN Append(log[d], e)
                                                     ELSE log[d]]
  BY DEF SendMsg
<1>2. ASSUME NEW d \in Conns
      PROVE  /\ log'[d] \in Seq(Entries)
             /\ \A k \in DOMAIN log'[d] :
                  \/ k \in DOMAIN log[d] /\ log'[d][k] = log[d][k]
                  \/ /\ k = Len(log[d]) + 1 /\ log'[d][k] = e
                     /\ d \in Recipients(u)
  <2>1. log[d] \in Seq(Entries)
    OBVIOUS
  <2>2. CASE d \in Recipients(u)
    <3>1. log'[d] = Append(log[d], e)
      BY <1>1, <2>2
    <3>2. QED
      BY <2>1, <2>2, <3>1
  <2>3. CASE d \notin Recipients(u)
    BY <1>1, <2>1, <2>3
  <2>4. QED
    BY <2>2, <2>3
<1>3. QED
  BY <1>1, <1>2

\* The message that is taken up next.
LEMMA NextMessageType ==
  ASSUME ConnsInv, NEW c \in Conns, NEW kind \in Kinds, sent < MaxMessages
  PROVE  /\ NextMessage(c, kind) \in Messages
         /\ NextMessage(c, kind).n = sent + 1
         /\ NextMessage(c, kind).kind = kind
  BY UsersAssumption DEF ConnsInv, NextMessage, Messages

\* What is sent for the channel of a walk.
LEMMA EntryType ==
  ASSUME TaskInv, NEW c \in Conns, task[c] # Idle
  PROVE  /\ task[c] \in Walks
         /\ Entry(c) \in Entries /\ Entry(c).msg = task[c].msg
         /\ Entry(c).via = {task[c].ch}
<1>1. task[c] \in Walks
  BY DEF TaskInv
<1>2. task[c].msg \in Messages /\ {task[c].ch} \in SUBSET Channels
  BY <1>1 DEF Walks
<1>3. QED
  BY <1>1, <1>2 DEF Entry, Entries

\* The next task of a connection: the others keep theirs.
LEMMA NewTask ==
  ASSUME TaskInv, NEW c \in Conns, NEW new \in {Idle} \cup Walks,
         task' = [task EXCEPT ![c] = new],
         sent \in Nat, sent' \in Nat, sent <= sent',
         UNCHANGED m_conns,
         new = Idle \/ (c \in m_conns /\ Proper(new, sent'))
  PROVE  TaskInv'
<1>1. task' \in [Conns -> {Idle} \cup Walks]
  BY DEF TaskInv
<1>2. ASSUME NEW d \in Conns, task'[d] # Idle
      PROVE  d \in m_conns' /\ Proper(task'[d], sent')
  <2>1. CASE d = c
    BY <1>2, <2>1 DEF TaskInv
  <2>2. CASE d # c
    <3>1. task'[d] = task[d]
      BY <2>2 DEF TaskInv
    <3>2. d \in m_conns /\ Proper(task[d], sent) /\ task[d] \in Walks
      BY <1>2, <3>1 DEF TaskInv
    <3>3. task[d].msg.n \in Nat
      BY <3>2 DEF Walks, Messages
    <3>4. Proper(task[d], sent')
      BY <3>2, <3>3, <3>1 DEF Proper
    <3>5. QED
      BY <3>1, <3>2, <3>4
  <2>3. QED
    BY <2>1, <2>2
<1>3. QED
  BY <1>1, <1>2 DEF TaskInv

\* Initially the types are right.
LEMMA TypeInit == Init => TypeInv
<1> SUFFICES ASSUME Init PROVE TypeInv
  OBVIOUS
<1>1. ConnsInv
  <2>1. users \in [Channels -> Seq(Users)]
    <3>1. \A n \in Nat : [1..n -> Users] \subseteq Seq(Users)
      OBVIOUS
    <3>2. 0..Cardinality(Users) \subseteq Nat
      OBVIOUS
    <3>3. UNION {[1..n -> Users] : n \in 0..Cardinality(Users)}
            \subseteq Seq(Users)
      BY <3>1, <3>2
    <3>4. QED
      BY <3>3 DEF Init
  <2>2. QED
    BY <2>1, UsersAssumption DEF Init, ConnsInv
<1>2. TaskInv
  BY DEF Init, TaskInv
<1>3. LogInv
  BY DEF Init, LogInv
<1>4. HistoryInv
  BY DEF Init, HistoryInv
<1>5. QED
  BY <1>1, <1>2, <1>3, <1>4 DEF TypeInv

\* A list that a command changes.
LEMMA ListChanged ==
  ASSUME ConnsInv, NEW c \in Conns, NEW ch \in Channels,
         Subscribe(c, ch) \/ Unsubscribe(c, ch)
  PROVE  /\ users' \in [Channels -> Seq(Users)]
         /\ \A x \in Channels : x # ch => users'[x] = users[x]
         /\ Subscribe(c, ch) => users'[ch] = Append(users[ch], UserOf[c])
         /\ Unsubscribe(c, ch) =>
              \E k \in DOMAIN users[ch] : users'[ch] = RemoveAt(users[ch], k)
<1>1. users \in [Channels -> Seq(Users)] /\ UserOf[c] \in Users
  BY UsersAssumption DEF ConnsInv
<1>2. CASE Subscribe(c, ch)
  <2>1. users' = [users EXCEPT ![ch] = Append(@, UserOf[c])]
    BY <1>2 DEF Subscribe
  <2>2. Append(users[ch], UserOf[c]) \in Seq(Users)
    BY <1>1
  <2>3. ASSUME Unsubscribe(c, ch) PROVE FALSE
    BY <1>2, <2>3 DEF Subscribe, Unsubscribe, Elements
  <2>4. QED
    BY <1>1, <2>1, <2>2, <2>3
<1>3. CASE Unsubscribe(c, ch)
  <2>1. PICK k \in DOMAIN users[ch] :
          /\ users[ch][k] = UserOf[c]
          /\ users' = [users EXCEPT ![ch] = RemoveAt(@, k)]
    BY <1>3 DEF Unsubscribe
  <2>2. RemoveAt(users[ch], k) \in Seq(Users)
    <3>1. users[ch] \in Seq(Users)
      BY <1>1
    <3>2. SubSeq(users[ch], 1, k - 1) \in Seq(Users)
      BY <3>1
    <3>3. SubSeq(users[ch], k + 1, Len(users[ch])) \in Seq(Users)
      BY <3>1
    <3>4. QED
      BY <3>2, <3>3 DEF RemoveAt
  <2>3. ~Subscribe(c, ch)
    BY <2>1 DEF Subscribe, Elements
  <2>4. QED
    BY <1>1, <2>1, <2>2, <2>3
<1>4. QED
  BY <1>2, <1>3

\* Logins, collections and the lists of users.
LEMMA MovesStep ==
  ASSUME TypeInv, NEW c \in Conns,
         \/ Login(c) \/ Collect(c)
         \/ \E ch \in Channels : Subscribe(c, ch) \/ Unsubscribe(c, ch)
  PROVE  ConnsInv' /\ TaskInv' /\ LogInv' /\ undefined' \in BOOLEAN
<1>0. ConnsInv /\ TaskInv /\ LogInv /\ undefined \in BOOLEAN
  BY DEF TypeInv, HistoryInv
<1>1. /\ UNCHANGED <<task, sent, log, freed>>
      /\ moves < MaxMoves /\ moves' = moves + 1
  BY DEF Login, Collect, Subscribe, Unsubscribe, Changes, Moves
<1>2. moves' \in 0..MaxMoves /\ sent' \in 0..MaxMessages
  BY <1>0, <1>1, UsersAssumption DEF ConnsInv
<1>3. LogInv'
  BY <1>0, <1>1 DEF LogInv
<1>4. CASE Login(c)
  <2>1. m_conns' = m_conns \cup {c} /\ UNCHANGED <<gone, users, undefined>>
        /\ c \notin gone
    BY <1>4 DEF Login
  <2>2. ConnsInv'
    BY <1>0, <1>1, <1>2, <2>1 DEF ConnsInv
  <2>3. TaskInv'
    BY <1>0, <1>1, <2>1 DEF TaskInv, Proper
  <2>4. QED
    BY <1>0, <1>3, <2>1, <2>2, <2>3
<1>5. CASE Collect(c)
  <2>1. m_conns' = m_conns \ {c} /\ gone' = gone \cup {c} /\ task[c] = Idle
        /\ UNCHANGED <<users, undefined>>
    BY <1>5 DEF Collect, RxJoined
  <2>2. ConnsInv'
    BY <1>0, <1>1, <1>2, <2>1 DEF ConnsInv
  <2>3. TaskInv'
    BY <1>0, <1>1, <2>1 DEF TaskInv, Proper
  <2>4. QED
    BY <1>0, <1>3, <2>1, <2>2, <2>3
<1>6. ASSUME NEW ch \in Channels, Subscribe(c, ch) \/ Unsubscribe(c, ch)
      PROVE  ConnsInv' /\ TaskInv' /\ LogInv' /\ undefined' \in BOOLEAN
  <2>1. UNCHANGED <<m_conns, gone>>
    BY <1>6 DEF Subscribe, Unsubscribe, Changes
  <2>2. undefined' \in BOOLEAN
    BY <1>6 DEF Subscribe, Unsubscribe, Changes
  <2>3. users' \in [Channels -> Seq(Users)]
    BY <1>0, <1>6, ListChanged
  <2>4. ConnsInv'
    BY <1>0, <1>1, <1>2, <2>1, <2>3 DEF ConnsInv
  <2>5. TaskInv'
    BY <1>0, <1>1, <2>1 DEF TaskInv, Proper
  <2>6. QED
    BY <1>3, <2>2, <2>4, <2>5
<1>7. QED
  BY <1>4, <1>5, <1>6

\* A message sent to a user, which has been taken up.
LEMMA SendMsgType ==
  ASSUME LogInv, sent \in Nat, sent' \in Nat, sent <= sent',
         NEW u, NEW e \in Entries, SendMsg(u, e), e.msg.n <= sent'
  PROVE  LogInv' /\ undefined' \in BOOLEAN
<1>1. /\ log' \in [Conns -> Seq(Entries)]
      /\ \A d \in Conns : \A k \in DOMAIN log'[d] :
           log'[d][k] = e \/ (k \in DOMAIN log[d] /\ log'[d][k] = log[d][k])
  BY SendMsgAppends DEF LogInv
<1>2. /\ undefined' = (e.msg \in freed) /\ e.msg \in Messages
      /\ freed' = freed \/ freed' = freed \cup {e.msg}
  BY DEF SendMsg, Entries
<1>3. undefined' \in BOOLEAN
  BY <1>2
<1>4. freed' \subseteq Messages /\ \A m \in freed' : m.n <= sent'
  <2>1. freed \subseteq Messages /\ \A m \in freed : m.n \in Nat /\ m.n <= sent
    BY DEF LogInv, Messages
  <2>2. QED
    BY <1>2, <2>1
<1>5. ASSUME NEW d \in Conns, NEW k \in DOMAIN log'[d]
      PROVE  log'[d][k].msg.n <= sent'
  <2>1. CASE log'[d][k] = e
    BY <2>1
  <2>2. CASE k \in DOMAIN log[d] /\ log'[d][k] = log[d][k]
    <3>1. log[d] \in Seq(Entries)
      BY DEF LogInv
    <3>2. log[d][k] \in Entries /\ log[d][k].msg.n <= sent
      BY <2>2, <3>1 DEF LogInv
    <3>3. log[d][k].msg.n \in Nat
      BY <3>2 DEF Entries, Messages
    <3>4. QED
      BY <2>2, <3>2, <3>3
  <2>3. QED
    BY <1>1, <2>1, <2>2
<1>6. QED
  BY <1>1, <1>3, <1>4, <1>5 DEF LogInv

\* A fan-out one member further.
Further(t) == [ch |-> t.ch, i |-> t.i + 1, left |-> t.left, msg |-> t.msg]

LEMMA FanOutTask ==
  ASSUME TaskInv, NEW c \in Conns, FanOut(c)
  PROVE  /\ task[c] \in Walks /\ Further(task[c]) \in Walks
         /\ task' = [task EXCEPT ![c] = Further(task[c])]
<1>1. task[c] \in Walks /\ task' = [task EXCEPT ![c].i = @ + 1]
  BY DEF FanOut, TaskInv
<1>2. [task[c] EXCEPT !.i = @ + 1] = Further(task[c])
  BY <1>1 DEF Walks, Further
<1>3. task' = [task EXCEPT ![c] = [task[c] EXCEPT !.i = @ + 1]]
  BY <1>1
<1>4. Further(task[c]) \in Walks
  BY <1>1 DEF Walks, Further
<1>5. QED
  BY <1>1, <1>2, <1>3, <1>4

\* A fan-out that goes on to another channel.
Onward(t, ch) == [ch |-> ch, i |-> 1, left |-> t.left \ {ch}, msg |-> t.msg]

LEMMA NextChannelTask ==
  ASSUME TaskInv, NEW c \in Conns, NEW ch \in Channels, NextChannel(c, ch)
  PROVE  /\ task[c] # Idle /\ task[c] \in Walks
         /\ Onward(task[c], ch) \in Walks /\ Proper(Onward(task[c], ch), sent)
         /\ task' = [task EXCEPT ![c] = Onward(task[c], ch)]
         /\ c \in m_conns /\ ch \in task[c].left /\ ch # task[c].ch
         /\ task[c].msg.kind # "group"
<1>1. /\ task[c] # Idle /\ task[c] \in Walks /\ Proper(task[c], sent)
      /\ c \in m_conns /\ ch \in task[c].left
  BY DEF NextChannel, EndOfUsers, TaskInv
<1>2. task' = [task EXCEPT ![c] = Onward(task[c], ch)]
  BY DEF NextChannel, Onward
<1>3. Onward(task[c], ch) \in Walks
  BY <1>1 DEF Walks, Onward
<1>4. /\ Proper(Onward(task[c], ch), sent)
      /\ ch # task[c].ch /\ task[c].msg.kind # "group"
  BY <1>1 DEF Proper, Onward
<1>5. QED
  BY <1>1, <1>2, <1>3, <1>4

\* Messages.
LEMMA SendStep ==
  ASSUME TypeInv, NEW c \in Conns,
         \/ \E u \in Users : Direct(c, u)
         \/ FanOut(c) \/ End(c)
         \/ \E ch \in Channels :
              BeginGroup(c, ch) \/ BeginGlobal(c, ch) \/ NextChannel(c, ch)
  PROVE  ConnsInv' /\ TaskInv' /\ LogInv' /\ undefined' \in BOOLEAN
<1>0. /\ ConnsInv /\ TaskInv /\ LogInv /\ undefined \in BOOLEAN
      /\ sent \in Nat /\ MaxMessages \in Nat
  BY UsersAssumption DEF TypeInv, HistoryInv, ConnsInv
<1>1. ASSUME Takes(c)
      PROVE  ConnsInv' /\ sent' = sent + 1 /\ sent < MaxMessages
             /\ c \in m_conns /\ UNCHANGED m_conns
  BY <1>0, <1>1 DEF Takes, ConnsInv
\* Logs and deletions of a step that sends nothing.
<1>2. ASSUME UNCHANGED <<log, freed>>, sent' \in Nat, sent <= sent'
      PROVE  LogInv'
  <2>1. /\ \A m \in freed : m.n \in Nat
        /\ \A d \in Conns : \A k \in DOMAIN log[d] : log[d][k].msg.n \in Nat
    <3>1. \A d \in Conns : log[d] \in Seq(Entries)
      BY <1>0 DEF LogInv
    <3>2. \A d \in Conns : \A k \in DOMAIN log[d] : log[d][k] \in Entries
      BY <3>1
    <3>3. QED
      BY <1>0, <3>2 DEF LogInv, Entries, Messages
  <2>2. QED
    BY <1>0, <1>2, <2>1 DEF LogInv
<1>3. ASSUME NEW u \in Users, Direct(c, u)
      PROVE  ConnsInv' /\ TaskInv' /\ LogInv' /\ undefined' \in BOOLEAN
  <2> DEFINE e == [msg |-> NextMessage(c, "direct"), via |-> {}]
  <2>1. Takes(c) /\ SendMsg(u, e) /\ UNCHANGED task
    BY <1>3 DEF Direct
  <2>2. e \in Entries /\ e.msg.n = sent + 1
    BY <1>0, <1>1, <2>1, NextMessageType DEF Kinds, Entries
  <2>3. LogInv' /\ undefined' \in BOOLEAN
    <3> HIDE DEF e
    <3>1. sent' \in Nat /\ sent <= sent' /\ e.msg.n <= sent'
      BY <1>0, <1>1, <2>1, <2>2
    <3>2. QED
      BY <1>0, <2>1, <2>2, <3>1, SendMsgType
  <2>4. TaskInv'
    <3>1. \A d \in Conns : task[d] # Idle =>
            task[d].msg.n \in Nat /\ task[d].msg.n <= sent + 1
      BY <1>0 DEF TaskInv, Walks, Messages, Proper
    <3>2. QED
      BY <1>0, <1>1, <2>1, <3>1 DEF TaskInv, Proper
  <2>5. QED
    BY <1>1, <2>1, <2>3, <2>4
<1>4. ASSUME NEW kind \in {"group", "global"}, NEW ch \in Channels,
             NEW left \in SUBSET Channels, ch \notin left,
             kind = "group" => left = {}, Begin(c, kind, ch, left)
      PROVE  ConnsInv' /\ TaskInv' /\ LogInv' /\ undefined' \in BOOLEAN
  <2> DEFINE msg == NextMessage(c, kind)
             new == [ch |-> ch, i |-> 1, left |-> left, msg |-> msg]
  <2>1. /\ Takes(c) /\ task' = [task EXCEPT ![c] = new]
        /\ UNCHANGED <<log, freed, undefined>>
    BY <1>4 DEF Begin
  <2>2. msg \in Messages /\ msg.n = sent + 1 /\ msg.kind = kind
    BY <1>0, <1>1, <2>1, NextMessageType DEF Kinds
  <2> HIDE DEF msg
  <2>3. new \in Walks
    BY <2>2 DEF Walks
  <2>4. Proper(new, sent')
    BY <1>0, <1>1, <1>4, <2>1, <2>2 DEF Proper
  <2> HIDE DEF new
  <2>5. TaskInv'
    <3>1. sent' \in Nat /\ sent <= sent' /\ UNCHANGED m_conns /\ c \in m_conns
      BY <1>0, <1>1, <2>1
    <3>2. QED
      BY <1>0, <2>1, <2>3, <2>4, <3>1, NewTask
  <2>6. LogInv'
    BY <1>0, <1>1, <1>2, <2>1
  <2>7. QED
    BY <1>0, <1>1, <2>1, <2>5, <2>6
<1>5. ASSUME FanOut(c)
      PROVE  ConnsInv' /\ TaskInv' /\ LogInv' /\ undefined' \in BOOLEAN
  <2>1. /\ task[c] # Idle /\ task' = [task EXCEPT ![c].i = @ + 1]
        /\ UNCHANGED <<m_conns, gone, users, sent, moves>>
        /\ \/ \E u : SendMsg(u, Entry(c))
           \/ UNCHANGED <<log, freed, undefined>>
    BY <1>5 DEF FanOut
  <2>2. /\ task[c] \in Walks /\ Entry(c) \in Entries
        /\ Entry(c).msg = task[c].msg /\ c \in m_conns /\ Proper(task[c], sent)
    BY <1>0, <2>1, EntryType DEF TaskInv
  <2>3. LogInv' /\ undefined' \in BOOLEAN
    <3>1. Entry(c).msg.n <= sent'
      BY <2>1, <2>2 DEF Proper
    <3>2. CASE \E u : SendMsg(u, Entry(c))
      BY <1>0, <2>1, <2>2, <3>1, <3>2, SendMsgType
    <3>3. CASE UNCHANGED <<log, freed, undefined>>
      BY <1>0, <1>2, <2>1, <3>3
    <3>4. QED
      BY <2>1, <3>2, <3>3
  <2>4. TaskInv'
    <3> DEFINE new == Further(task[c])
    <3>1. new \in Walks /\ task' = [task EXCEPT ![c] = new]
      BY <1>0, <1>5, FanOutTask
    <3>2. Proper(new, sent')
      BY <2>1, <2>2 DEF Proper, Further
    <3> HIDE DEF new
    <3>3. sent' \in Nat /\ sent <= sent' /\ UNCHANGED m_conns
      BY <1>0, <2>1
    <3>4. QED
      BY <1>0, <2>2, <3>1, <3>2, <3>3, NewTask
  <2>5. QED
    BY <1>0, <2>1, <2>3, <2>4 DEF ConnsInv
<1>6. ASSUME End(c)
      PROVE  ConnsInv' /\ TaskInv' /\ LogInv' /\ undefined' \in BOOLEAN
  <2>1. /\ task' = [task EXCEPT ![c] = Idle]
        /\ UNCHANGED <<m_conns, gone, users, sent, moves>>
        /\ UNCHANGED <<log, freed, undefined>>
    BY <1>6 DEF End
  <2>2. TaskInv'
    <3>1. sent' \in Nat /\ sent <= sent' /\ UNCHANGED m_conns
      BY <1>0, <2>1
    <3>2. QED
      BY <1>0, <2>1, <3>1, NewTask
  <2>3. QED
    BY <1>0, <1>2, <2>1, <2>2 DEF ConnsInv
<1>7. ASSUME NEW ch \in Channels, NextChannel(c, ch)
      PROVE  ConnsInv' /\ TaskInv' /\ LogInv' /\ undefined' \in BOOLEAN
  <2>1. /\ task[c] # Idle
        /\ UNCHANGED <<m_conns, gone, users, sent, moves>>
        /\ UNCHANGED <<log, freed, undefined>>
    BY <1>7 DEF NextChannel, EndOfUsers
  <2> DEFINE new == Onward(task[c], ch)
  <2>2. /\ new \in Walks /\ task' = [task EXCEPT ![c] = new]
        /\ Proper(new, sent) /\ c \in m_conns
    BY <1>0, <1>7, NextChannelTask
  <2>3. Proper(new, sent')
    BY <2>1, <2>2 DEF Proper, Onward
  <2> HIDE DEF new
  <2>4. TaskInv'
    <3>1. sent' \in Nat /\ sent <= sent' /\ UNCHANGED m_conns
      BY <1>0, <2>1
    <3>2. QED
      BY <1>0, <2>2, <2>3, <3>1, NewTask
  <2>5. QED
    BY <1>0, <1>2, <2>1, <2>4 DEF ConnsInv
<1>8. ASSUME NEW ch \in Channels, BeginGroup(c, ch)
      PROVE  ConnsInv' /\ TaskInv' /\ LogInv' /\ undefined' \in BOOLEAN
  BY <1>4, <1>8 DEF BeginGroup
<1>9. ASSUME NEW ch \in Channels, BeginGlobal(c, ch)
      PROVE  ConnsInv' /\ TaskInv' /\ LogInv' /\ undefined' \in BOOLEAN
  <2>1. ChannelsOf(UserOf[c]) \ {ch} \in SUBSET Channels
    BY DEF ChannelsOf
  <2>2. QED
    BY <1>4, <1>9, <2>1 DEF BeginGlobal
<1>10. QED
  BY <1>3, <1>5, <1>6, <1>7, <1>8, <1>9

\* The history.
LEMMA HistoryStep ==
  ASSUME TypeInv, ConnsInv', TaskInv', undefined' \in BOOLEAN, Remember
  PROVE  HistoryInv'
<1>1. lacking' \subseteq Messages
  <2>1. \A d \in Conns : task'[d] # Idle => task'[d].msg \in Messages
    BY DEF TaskInv, Walks
  <2>2. QED
    BY <2>1 DEF Remember, TypeInv, HistoryInv
<1>2. reach' \in [Conns -> SUBSET Conns]
  <2>1. \A d \in Conns : Present(d)' \subseteq Conns
    BY DEF Present, ConnsInv
  <2>2. \A d \in Conns : reach'[d] \subseteq Conns
    BY <2>1 DEF Remember, TypeInv, HistoryInv
  <2>3. QED
    BY <2>2 DEF Remember
<1>3. shifted' \subseteq Conns
  BY DEF Remember
<1>4. QED
  BY <1>1, <1>2, <1>3 DEF HistoryInv

\* Every step keeps the types.
LEMMA TypeStep == TypeInv /\ [Next]_vars => TypeInv'
<1> SUFFICES ASSUME TypeInv, [Next]_vars PROVE TypeInv'
  OBVIOUS
<1>1. CASE UNCHANGED vars
  BY <1>1 DEF vars, TypeInv, ConnsInv, TaskInv, Proper, LogInv, HistoryInv
<1>2. ASSUME NEW c \in Conns, Remember,
             \/ Login(c) \/ Collect(c) \/ FanOut(c) \/ End(c)
             \/ \E u \in Users : Direct(c, u)
             \/ \E ch \in Channels :
                  \/ Subscribe(c, ch) \/ Unsubscribe(c, ch)
                  \/ BeginGroup(c, ch) \/ BeginGlobal(c, ch)
                  \/ NextChannel(c, ch)
      PROVE  TypeInv'
  <2>1. ConnsInv' /\ TaskInv' /\ LogInv' /\ undefined' \in BOOLEAN
    <3>1. CASE \/ Login(c) \/ Collect(c)
               \/ \E ch \in Channels : Subscribe(c, ch) \/ Unsubscribe(c, ch)
      BY <3>1, MovesStep
    <3>2. CASE \/ \E u \in Users : Direct(c, u)
               \/ FanOut(c) \/ End(c)
               \/ \E ch \in Channels :
                    \/ BeginGroup(c, ch) \/ BeginGlobal(c, ch)
                    \/ NextChannel(c, ch)
      BY <3>2, SendStep
    <3>3. QED
      BY <1>2, <3>1, <3>2
  <2>2. QED
    BY <1>2, <2>1, HistoryStep DEF TypeInv
<1>3. QED
  BY <1>1, <1>2, NextCases

\* Type correctness: what is queued, deleted or under way are messages, a
\* connection that is deleted is no longer in the pool, and the rx thread of
\* no connection outside the pool is in a fan-out.
THEOREM DeliveryTypeCorrect == Spec => []TypeOK
<1>1. TypeInv => TypeOK
  <2>1. TaskInv => task \in [Conns -> {Idle} \cup Fanouts]
    BY DEF TaskInv, Walks, Fanouts
  <2>2. QED
    BY <2>1 DEF TypeInv, ConnsInv, TaskInv, LogInv, HistoryInv, TypeOK
<1>2. QED
  BY <1>1, TypeInit, TypeStep, PTL DEF Spec

-----------------------------------------------------------------------------
(* Deleted messages.                                                       *)

Logged(m) == \E c \in Conns : \E e \in Elements(log[c]) : e.msg = m

\* A deleted message was lacking a recipient, or is a direct message that
\* nobody was given.
LackInv ==
  /\ \A m \in freed : m \in lacking \/ (m.kind = "direct" /\ ~Logged(m))
  /\ undefined =>
       freed \cap lacking # {} \/ \E c \in Conns : Fanning(c, "global")

\* Everything logged has been sent.
LEMMA LoggedSent ==
  ASSUME LogInv, NEW m, Logged(m)
  PROVE  m \in Messages /\ m.n <= sent
<1>1. PICK c \in Conns : \E k \in DOMAIN log[c] : log[c][k].msg = m
  BY DEF Logged, Elements
<1>2. log[c] \in Seq(Entries)
  BY DEF LogInv
<1>3. \A k \in DOMAIN log[c] : log[c][k] \in Entries
  BY <1>2
<1>4. QED
  BY <1>1, <1>3 DEF LogInv, Entries

\* Sending a message logs no other.
LEMMA SendMsgLogs ==
  ASSUME LogInv, NEW u, NEW e \in Entries, SendMsg(u, e),
         NEW m, m # e.msg, Logged(m)'
  PROVE  Logged(m)
<1>1. PICK c \in Conns : \E k \in DOMAIN log'[c] : log'[c][k].msg = m
  BY DEF Logged, Elements
<1>2. \E k \in DOMAIN log[c] : log[c][k].msg = m
  BY <1>1, SendMsgAppends DEF LogInv
<1>3. QED
  BY <1>2 DEF Logged, Elements

\* A message sent while a member lacks a connection is lacking.
LEMMA LackingGrows ==
  ASSUME Remember
  PROVE  /\ lacking \subseteq lacking'
         /\ \A d \in Conns, u \in Users :
              task'[d] # Idle /\ u \in Others(d)' /\ Recipients(u)' = {}
                => task'[d].msg \in lacking'
<1>1. lacking' = lacking \cup
       {task'[c].msg : c \in {d \in Conns : task'[d] # Idle /\
          \E u \in Others(d)' : \A k \in m_conns' : UserOf[k] # u}}
  BY DEF Remember
<1>2. ASSUME NEW d \in Conns, NEW u \in Users, task'[d] # Idle,
             u \in Others(d)', Recipients(u)' = {}
      PROVE  task'[d].msg \in lacking'
  <2>1. \A k \in m_conns' : UserOf[k] # u
    BY <1>2 DEF Recipients
  <2>2. d \in {e \in Conns : task'[e] # Idle /\
                \E v \in Others(e)' : \A k \in m_conns' : UserOf[k] # v}
    BY <1>2, <2>1
  <2>3. QED
    BY <1>1, <2>2
<1>3. QED
  BY <1>1, <1>2

\* Every step keeps the reason of every deletion.
LEMMA LackStep == TypeInv /\ LackInv /\ [Next]_vars => LackInv'
<1> SUFFICES ASSUME TypeInv, LackInv, [Next]_vars PROVE LackInv'
  OBVIOUS
<1>0. /\ ConnsInv /\ TaskInv /\ LogInv
      /\ sent \in Nat /\ freed \subseteq Messages
  BY DEF TypeInv, ConnsInv, LogInv
\* A step that sends nothing.
<1>1. ASSUME ~undefined, Remember, UNCHANGED <<log, freed>>,
             undefined' => \E c \in Conns : Fanning(c, "global")'
      PROVE  LackInv'
  <2>1. lacking \subseteq lacking'
    BY <1>1, LackingGrows
  <2>2. \A m \in freed' :
          m \in lacking' \/ (m.kind = "direct" /\ ~Logged(m)')
    BY <1>1, <2>1 DEF LackInv, Logged
  <2>3. QED
    BY <1>1, <2>2 DEF LackInv
<1>2. ASSUME NEW c \in Conns, ~undefined, Remember,
             \/ Login(c) \/ Collect(c)
             \/ \E ch \in Channels : Subscribe(c, ch) \/ Unsubscribe(c, ch)
      PROVE  LackInv'
  <2>1. UNCHANGED <<task, log, freed>>
    BY <1>2 DEF Login, Collect, Subscribe, Unsubscribe, Changes, Moves
  <2>2. undefined' => \E d \in Conns : Fanning(d, "global")
    BY <1>2 DEF Login, Collect, Subscribe, Unsubscribe, Changes, Walking
  <2>3. undefined' => \E d \in Conns : Fanning(d, "global")'
    BY <2>1, <2>2 DEF Fanning
  <2>4. QED
    BY <1>1, <1>2, <2>1, <2>3
<1>3. ASSUME NEW c \in Conns, NEW u \in Users, ~undefined, Remember,
             Direct(c, u)
      PROVE  LackInv'
  <2> DEFINE msg == NextMessage(c, "direct")
             e   == [msg |-> msg, via |-> {}]
  <2>1. SendMsg(u, e) /\ sent < MaxMessages
    BY <1>3 DEF Direct, Takes
  <2>2. msg \in Messages /\ msg.n = sent + 1 /\ msg.kind = "direct"
    BY <1>0, <2>1, NextMessageType DEF Kinds
  <2> HIDE DEF msg
  <2>3. e \in Entries /\ e.msg = msg
    BY <2>2 DEF Entries
  <2> HIDE DEF e
  <2>4. /\ undefined' = (msg \in freed)
        /\ freed' = IF Recipients(u) = {} THEN freed \cup {msg} ELSE freed
    BY <2>1, <2>3 DEF SendMsg, LastOwner
  <2>5. msg \notin freed /\ ~Logged(msg)
    <3>1. ~(sent + 1 <= sent)
      BY <1>0
    <3>2. QED
      BY <1>0, <2>2, <3>1, LoggedSent DEF LogInv
  <2>6. ASSUME NEW m \in freed'
        PROVE  m \in lacking' \/ (m.kind = "direct" /\ ~Logged(m)')
    <3>1. CASE m = msg
      <4>1. Recipients(u) = {}
        BY <2>4, <2>5, <2>6, <3>1
      <4>2. log' = [d \in Conns |-> log[d]]
        BY <2>1, <4>1 DEF SendMsg
      <4>3. log' = log
        BY <1>0, <4>2 DEF LogInv
      <4>4. QED
        BY <2>2, <2>5, <3>1, <4>3 DEF Logged
    <3>2. CASE m # msg
      <4>1. m \in freed
        BY <2>4, <2>6, <3>2
      <4>2. ~Logged(m) => ~Logged(m)'
        BY <1>0, <2>1, <2>3, <3>2, SendMsgLogs
      <4>3. lacking \subseteq lacking'
        BY <1>3, LackingGrows
      <4>4. QED
        BY <4>1, <4>2, <4>3 DEF LackInv
    <3>3. QED
      BY <3>1, <3>2
  <2>7. ~undefined'
    BY <2>4, <2>5
  <2>8. QED
    BY <2>6, <2>7 DEF LackInv
<1>4. ASSUME NEW c \in Conns, ~undefined, Remember,
             \/ End(c)
             \/ \E ch \in Channels :
                  BeginGroup(c, ch) \/ BeginGlobal(c, ch) \/ NextChannel(c, ch)
      PROVE  LackInv'
  <2>1. UNCHANGED <<log, freed, undefined>>
    BY <1>4 DEF BeginGroup, BeginGlobal, Begin, End, NextChannel
  <2>2. QED
    BY <1>1, <1>4, <2>1
<1>5. ASSUME NEW c \in Conns, ~undefined, Remember, FanOut(c)
      PROVE  LackInv'
  <2>0. PICK to : to = users[task[c].ch][task[c].i]
    OBVIOUS
  <2>1. /\ task[c] # Idle /\ task[c].i <= Len(users[task[c].ch])
        /\ UNCHANGED <<m_conns, users>>
        /\ IF to # UserOf[c] THEN SendMsg(to, Entry(c))
                             ELSE UNCHANGED <<log, freed, undefined>>
    BY <1>5, <2>0 DEF FanOut
  <2>2. /\ task[c] \in Walks /\ Entry(c) \in Entries
        /\ Entry(c).msg = task[c].msg /\ task[c].msg.kind # "direct"
    BY <1>0, <2>1, EntryType DEF TaskInv, Proper
  <2>3. CASE to = UserOf[c]
    <3>1. UNCHANGED <<log, freed, undefined>>
      BY <2>1, <2>3
    <3>2. QED
      BY <1>1, <1>5, <3>1
  <2>4. CASE to # UserOf[c]
    <3>0. PICK msg : msg = task[c].msg
      OBVIOUS
    <3>1. SendMsg(to, Entry(c)) /\ Entry(c).msg = msg /\ msg.kind # "direct"
      BY <2>1, <2>2, <2>4, <3>0
    <3>2. /\ undefined' = (msg \in freed)
          /\ freed' = IF Recipients(to) = {} THEN freed \cup {msg} ELSE freed
      BY <3>1 DEF SendMsg, LastOwner
    <3>3. to \in Users /\ to \in Elements(users[task[c].ch])
      <4>1. users[task[c].ch] \in Seq(Users) /\ task[c].i \in Nat \ {0}
        BY <1>0, <2>2 DEF ConnsInv, Walks
      <4>2. QED
        BY <2>0, <2>1, <4>1 DEF Elements
    <3>4. task'[c].msg = msg /\ task'[c] # Idle /\ task'[c].ch = task[c].ch
      <4>1. task'[c] = Further(task[c])
        BY <1>0, <1>5, FanOutTask DEF TaskInv
      <4>2. task'[c].i # Idle.i
        BY <2>2, <4>1 DEF Walks, Further, Idle
      <4>3. QED
        BY <3>0, <4>1, <4>2 DEF Further
    <3>5. /\ to \in Others(c)'
          /\ Recipients(to) = {} => Recipients(to)' = {}
      BY <2>1, <2>4, <3>3, <3>4 DEF Others, Recipients, Elements
    <3>6. /\ lacking \subseteq lacking'
          /\ Recipients(to) = {} => msg \in lacking'
      BY <1>5, <3>3, <3>4, <3>5, LackingGrows
    <3>7. ASSUME NEW m \in freed'
          PROVE  m \in lacking' \/ (m.kind = "direct" /\ ~Logged(m)')
      <4>1. CASE m \in freed
        <5>1. CASE m \in lacking
          BY <3>6, <5>1
        <5>2. CASE m.kind = "direct" /\ ~Logged(m)
          <6>1. m # msg
            BY <3>1, <5>2
          <6>2. ~Logged(m)'
            BY <1>0, <2>2, <3>1, <5>2, <6>1, SendMsgLogs
          <6>3. QED
            BY <5>2, <6>2
        <5>3. QED
          BY <4>1, <5>1, <5>2 DEF LackInv
      <4>2. CASE m \notin freed
        BY <3>2, <3>6, <3>7, <4>2
      <4>3. QED
        BY <4>1, <4>2
    <3>8. undefined' => freed' \cap lacking' # {}
      <4>1. ASSUME msg \in freed
            PROVE  msg \in freed' /\ msg \in lacking'
        BY <3>1, <3>2, <3>6, <4>1 DEF LackInv
      <4>2. QED
        BY <3>2, <4>1
    <3>9. QED
      BY <3>7, <3>8 DEF LackInv
  <2>5. QED
    BY <2>3, <2>4
<1>6. CASE UNCHANGED vars
  BY <1>6 DEF vars, LackInv, Logged, Fanning
<1>7. QED
  BY <1>2, <1>3, <1>4, <1>5, <1>6, NextCases

\* However many connections and members there are, a message that was queued
\* for somebody is deleted only if a member it was meant for had no
\* connection during its fan-out, and a direct message never is.
THEOREM DanglesExcused == Spec => []DanglesOnlyIfLacking
<1>1. Init => LackInv
  BY DEF Init, LackInv
<1>2. LackInv => DanglesOnlyIfLacking
  BY DEF LackInv, DanglesOnlyIfLacking, Logged
<1>3. QED
  BY <1>1, <1>2, TypeInit, TypeStep, LackStep, PTL DEF Spec

-----------------------------------------------------------------------------
(* The order of group messages.                                            *)

NoDoubles(s) == \A j, k \in DOMAIN s : s[j] = s[k] => j = k

Distinct == \A ch \in Channels : NoDoubles(users[ch])

OneGroup ==
  \A c, d \in Conns :
    Fanning(c, "group") /\ Fanning(d, "group") /\ task[c].ch = task[d].ch
      => c = d

\* Every log has the group messages of a channel in the order they were taken
\* up.
Ascending ==
  \A d \in Conns : \A j, k \in DOMAIN log[d] :
    /\ Group(log[d][j]) /\ Group(log[d][k]) /\ log[d][j].via = log[d][k].via
    /\ j < k
    => log[d][j].msg.n < log[d][k].msg.n

\* The walk of c has passed the user.
Passed(c, u) ==
  \E j \in DOMAIN users[task[c].ch] :
    j < task[c].i /\ users[task[c].ch][j] = u

\* A group message under way is the last one taken up for its channel, and has
\* been sent to nobody but the members before the next one.
Latest ==
  \A c, d \in Conns : Fanning(c, "group") =>
    \A k \in DOMAIN log[d] :
      Group(log[d][k]) /\ log[d][k].via = {task[c].ch} =>
        \/ log[d][k].msg.n < task[c].msg.n
        \/ log[d][k].msg.n = task[c].msg.n /\ Passed(c, UserOf[d])

OrderInv == Distinct /\ OneGroup /\ Ascending /\ Latest

\* The entries of a log.
LEMMA LogEntry ==
  ASSUME LogInv, NEW d \in Conns, NEW k \in DOMAIN log[d]
  PROVE  /\ k \in Nat \ {0} /\ k <= Len(log[d]) /\ Len(log[d]) \in Nat
         /\ log[d][k] \in Entries /\ log[d][k].msg.n \in Nat
         /\ log[d][k].msg.n <= sent
<1>1. log[d] \in Seq(Entries)
  BY DEF LogInv
<1>2. log[d][k] \in Entries
  BY <1>1
<1>3. log[d][k].msg.n \in Nat
  BY <1>2 DEF Entries, Messages
<1>4. QED
  BY <1>1, <1>2, <1>3 DEF LogInv

\* Leaving a list keeps it free of doubles.
LEMMA RemoveDistinct ==
  ASSUME NEW s \in Seq(Users), NoDoubles(s), NEW n \in DOMAIN s
  PROVE  NoDoubles(RemoveAt(s, n)) /\ Len(RemoveAt(s, n)) = Len(s) - 1
<1> DEFINE a == SubSeq(s, 1, n - 1)
           b == SubSeq(s, n + 1, Len(s))
           r == RemoveAt(s, n)
<1>1. r = a \o b
  BY DEF RemoveAt
<1>2. n \in 1..Len(s) /\ Len(s) \in Nat
  OBVIOUS
<1>3. a \in Seq(Users) /\ Len(a) = n - 1 /\ \A k \in 1..(n - 1) : a[k] = s[k]
  BY <1>2
<1>4. /\ b \in Seq(Users) /\ Len(b) = Len(s) - n
      /\ \A k \in 1..(Len(s) - n) : b[k] = s[k + n]
  BY <1>2
<1> HIDE DEF a, b, r
<1>5. Len(r) = Len(s) - 1
  <2>1. a \in Seq(Users) /\ b \in Seq(Users)
    BY <1>3, <1>4
  <2>2. Len(a \o b) = Len(a) + Len(b)
    BY <2>1
  <2>3. QED
    BY <1>1, <1>2, <1>3, <1>4, <2>2
<1>6. ASSUME NEW k \in DOMAIN r
      PROVE  /\ k \in Nat
             /\ k < n => k \in DOMAIN s /\ r[k] = s[k]
             /\ k >= n => k + 1 \in DOMAIN s /\ r[k] = s[k + 1]
  <2>1. k \in 1..(Len(s) - 1)
    BY <1>1, <1>2, <1>3, <1>4, <1>5
  <2>2. CASE k < n
    <3>1. k \in 1..(n - 1)
      BY <1>2, <2>1, <2>2
    <3>2. (a \o b)[k] = a[k]
      BY <1>3, <1>4, <3>1
    <3>3. QED
      BY <1>1, <1>2, <1>3, <2>1, <2>2, <3>1, <3>2
  <2>3. CASE k >= n
    <3>1. (a \o b)[k] = b[k - (n - 1)]
      BY <1>2, <1>3, <1>4, <2>1, <2>3
    <3>2. k - (n - 1) \in 1..(Len(s) - n) /\ (k - (n - 1)) + n = k + 1
      BY <1>2, <2>1, <2>3
    <3>3. b[k - (n - 1)] = s[k + 1]
      BY <1>4, <3>2
    <3>4. k + 1 \in DOMAIN s /\ k \in Nat
      BY <1>2, <2>1
    <3>5. QED
      BY <1>1, <2>3, <3>1, <3>3, <3>4
  <2>4. QED
    BY <1>2, <2>1, <2>2, <2>3
<1>7. ASSUME NEW j \in DOMAIN r, NEW k \in DOMAIN r, r[j] = r[k]
      PROVE  j = k
  <2>0. n \in Nat
    BY <1>2
  <2>1. CASE j < n /\ k < n
    BY <1>6, <1>7, <2>1 DEF NoDoubles
  <2>2. CASE j >= n /\ k >= n
    <3>1. j + 1 = k + 1
      BY <1>6, <1>7, <2>2 DEF NoDoubles
    <3>2. QED
      BY <1>6, <3>1
  <2>3. CASE j < n /\ k >= n
    <3>1. j = k + 1
      BY <1>6, <1>7, <2>3 DEF NoDoubles
    <3>2. QED
      BY <1>6, <2>0, <2>3, <3>1
  <2>4. CASE j >= n /\ k < n
    <3>1. j + 1 = k
      BY <1>6, <1>7, <2>4 DEF NoDoubles
    <3>2. QED
      BY <1>6, <2>0, <2>4, <3>1
  <2>5. QED
    BY <1>6, <2>0, <2>1, <2>2, <2>3, <2>4
<1>8. NoDoubles(r)
  BY <1>7 DEF NoDoubles
<1>9. QED
  BY <1>5, <1>8 DEF r

\* Joining a list and leaving it keep every list free of doubles.
LEMMA ListDistinct ==
  ASSUME ConnsInv, Distinct, NEW c \in Conns, NEW ch \in Channels,
         Subscribe(c, ch) \/ Unsubscribe(c, ch)
  PROVE  Distinct'
<1>1. /\ users \in [Channels -> Seq(Users)] /\ NoDoubles(users[ch])
      /\ UserOf[c] \in Users /\ users[ch] \in Seq(Users)
  BY UsersAssumption DEF ConnsInv, Distinct
<1>2. NoDoubles(users'[ch])
  <2>1. CASE Subscribe(c, ch)
    <3>1. users'[ch] = Append(users[ch], UserOf[c])
      BY <2>1, ListChanged
    <3>2. \A k \in DOMAIN users[ch] : users[ch][k] # UserOf[c]
      BY <2>1 DEF Subscribe, Elements
    <3>3. QED
      BY <1>1, <3>1, <3>2 DEF NoDoubles
  <2>2. CASE Unsubscribe(c, ch)
    <3>1. PICK k \in DOMAIN users[ch] : users'[ch] = RemoveAt(users[ch], k)
      BY <2>2, ListChanged
    <3>2. QED
      BY <1>1, <3>1, RemoveDistinct
  <2>3. QED
    BY <2>1, <2>2
<1>3. \A x \in Channels : x # ch => users'[x] = users[x]
  BY ListChanged
<1>4. QED
  BY <1>2, <1>3 DEF Distinct

\* Who is fanning out after a step of one connection: the others as before.
LEMMA OthersFan ==
  ASSUME TaskInv, NEW c \in Conns, NEW new, task' = [task EXCEPT ![c] = new]
  PROVE  /\ task'[c] = new
         /\ \A d \in Conns : d # c =>
              task'[d] = task[d]
              /\ \A kind \in Kinds : Fanning(d, kind)' = Fanning(d, kind)
  BY DEF TaskInv, Fanning

\* A message that is not a group message does not disturb the order.
LEMMA OtherSent ==
  ASSUME LogInv, Ascending, Latest, UNCHANGED users,
         NEW u, NEW e \in Entries, SendMsg(u, e), ~Group(e),
         \A c \in Conns : Fanning(c, "group")' =>
           Fanning(c, "group") /\ task'[c] = task[c]
  PROVE  Ascending' /\ Latest'
<1>1. ASSUME NEW d \in Conns, NEW k \in DOMAIN log'[d], Group(log'[d][k])
      PROVE  k \in DOMAIN log[d] /\ log'[d][k] = log[d][k]
  BY <1>1, SendMsgAppends DEF LogInv
<1>2. Ascending'
  BY <1>1 DEF Ascending, Group
<1>3. Latest'
  BY <1>1 DEF Latest, Group, Passed
<1>4. QED
  BY <1>2, <1>3

\* So does a step that logs nothing and begins no group message.
LEMMA NothingSent ==
  ASSUME TaskInv, OrderInv, UNCHANGED log, Distinct',
         \A ch \in Channels : users'[ch] = users[ch] \/ ~UsersLocked(ch),
         \A c \in Conns : Fanning(c, "group")' =>
           Fanning(c, "group") /\ task'[c] = task[c]
  PROVE  OrderInv'
<1>1. OneGroup' /\ Ascending'
  BY DEF OrderInv, OneGroup, Ascending, Group
<1>2. ASSUME NEW c \in Conns, Fanning(c, "group")'
      PROVE  /\ Fanning(c, "group") /\ task'[c] = task[c]
             /\ users'[task[c].ch] = users[task[c].ch]
  <2>1. Fanning(c, "group") /\ task'[c] = task[c]
    BY <1>2
  <2>2. task[c].ch \in Channels
    BY <2>1 DEF TaskInv, Walks, Fanning
  <2>3. UsersLocked(task[c].ch)
    BY <2>1 DEF UsersLocked, Walking
  <2>4. QED
    BY <2>1, <2>2, <2>3
<1>3. Latest'
  BY <1>2 DEF OrderInv, Latest, Group, Passed
<1>4. QED
  BY <1>1, <1>3 DEF OrderInv

\* A group message goes to the next member, whose connections have not had it.
LEMMA GroupSent ==
  ASSUME TypeInv, OrderInv, NEW c \in Conns, Fanning(c, "group"), FanOut(c)
  PROVE  OrderInv'
<1> DEFINE msg == task[c].msg
           ch  == task[c].ch
           e   == Entry(c)
<1>0. /\ LogInv /\ TaskInv /\ OneGroup /\ Ascending /\ Latest /\ Distinct
      /\ task[c] \in Walks /\ task[c].i \in Nat \ {0}
      /\ e \in Entries /\ e.msg = msg /\ e.via = {ch}
      /\ ch \in Channels /\ users[ch] \in Seq(Users)
  <2>1. LogInv /\ TaskInv /\ OneGroup /\ Ascending /\ Latest /\ Distinct
    BY DEF TypeInv, OrderInv
  <2>2. /\ task[c] \in Walks
        /\ e \in Entries /\ e.msg = msg /\ e.via = {ch}
    BY <2>1, EntryType DEF Fanning
  <2>3. task[c].i \in Nat \ {0} /\ ch \in Channels
    BY <2>2 DEF Walks
  <2>4. users[ch] \in Seq(Users)
    BY <2>3 DEF TypeInv, ConnsInv
  <2>5. QED
    BY <2>1, <2>2, <2>3, <2>4
<1>1. Group(e) /\ msg.n \in Nat
  BY <1>0 DEF Fanning, Group, Walks, Messages
<1>2. PICK to : to = users[ch][task[c].i]
  OBVIOUS
<1>3. /\ task[c].i \in DOMAIN users[ch] /\ UNCHANGED users
      /\ IF to # UserOf[c] THEN SendMsg(to, e)
                           ELSE UNCHANGED <<log, freed, undefined>>
  BY <1>0, <1>2 DEF FanOut
<1>4. /\ task'[c].i = task[c].i + 1 /\ task'[c].msg = msg
      /\ task'[c].ch = ch
      /\ \A d \in Conns : d # c => task'[d] = task[d]
      /\ \A d \in Conns : Fanning(d, "group")' => Fanning(d, "group")
  <2>1. task' = [task EXCEPT ![c] = Further(task[c])]
    BY <1>0, FanOutTask
  <2>2. task'[c] = Further(task[c])
    BY <1>0, <2>1, OthersFan
  <2>3. \A d \in Conns : d # c =>
          /\ task'[d] = task[d]
          /\ Fanning(d, "group")' = Fanning(d, "group")
    BY <1>0, <2>1, OthersFan DEF Kinds
  <2>4. QED
    BY <2>2, <2>3 DEF Further
<1>5. \A d \in Conns : Fanning(d, "group") /\ task[d].ch = ch => d = c
  BY <1>0 DEF OneGroup
\* What is in a log was there, or is the message.
<1>6. ASSUME NEW d \in Conns, NEW k \in DOMAIN log'[d]
      PROVE  \/ k \in DOMAIN log[d] /\ log'[d][k] = log[d][k]
             \/ /\ k = Len(log[d]) + 1 /\ log'[d][k] = e
                /\ UserOf[d] = to
  <2>1. CASE to # UserOf[c]
    <3>1. SendMsg(to, e)
      BY <1>3, <2>1
    <3> HIDE DEF e
    <3>2. \/ k \in DOMAIN log[d] /\ log'[d][k] = log[d][k]
          \/ k = Len(log[d]) + 1 /\ log'[d][k] = e /\ d \in Recipients(to)
      BY <1>0, <3>1, SendMsgAppends DEF LogInv
    <3>3. QED
      BY <3>2 DEF Recipients
  <2>2. CASE to = UserOf[c]
    BY <1>3, <2>2
  <2>3. QED
    BY <2>1, <2>2
<1>7. \A u : Passed(c, u)' <=> Passed(c, u) \/ u = to
  <2>1. users'[task'[c].ch] = users[ch]
    BY <1>3, <1>4
  <2>2. QED
    BY <1>0, <1>2, <1>3, <1>4, <2>1 DEF Passed
\* To whom it goes now it has not gone before.
<1>8. ~Passed(c, to)
  <2>1. NoDoubles(users[ch])
    BY <1>0 DEF Distinct
  <2>2. QED
    BY <1>0, <1>2, <1>3, <2>1 DEF Passed, NoDoubles
<1>9. ASSUME NEW d \in Conns, UserOf[d] = to, NEW k \in DOMAIN log[d],
             Group(log[d][k]), log[d][k].via = {ch}
      PROVE  log[d][k].msg.n < msg.n
  BY <1>0, <1>8, <1>9 DEF Latest
<1> HIDE DEF e, msg, ch
<1>10. Ascending'
  <2>1. ASSUME NEW d \in Conns, NEW j \in DOMAIN log'[d],
               NEW k \in DOMAIN log'[d], Group(log'[d][j]),
               Group(log'[d][k]), log'[d][j].via = log'[d][k].via, j < k
        PROVE  log'[d][j].msg.n < log'[d][k].msg.n
    <3>1. log[d] \in Seq(Entries) /\ Len(log[d]) \in Nat
      BY <1>0 DEF LogInv
    <3>2. \A l \in DOMAIN log[d] : l \in Nat /\ l <= Len(log[d])
      BY <3>1
    <3>3. j \in DOMAIN log[d] /\ log'[d][j] = log[d][j]
      <4>1. CASE k = Len(log[d]) + 1
        BY <1>6, <2>1, <3>1, <4>1
      <4>2. CASE k \in DOMAIN log[d]
        <5>1. j # Len(log[d]) + 1
          BY <2>1, <3>1, <3>2, <4>2
        <5>2. QED
          BY <1>6, <5>1
      <4>3. QED
        BY <1>6, <4>1, <4>2
    <3>4. CASE k \in DOMAIN log[d] /\ log'[d][k] = log[d][k]
      BY <1>0, <2>1, <3>3, <3>4 DEF Ascending
    <3>5. CASE log'[d][k] = e /\ UserOf[d] = to
      BY <1>0, <1>9, <2>1, <3>3, <3>5
    <3>6. QED
      BY <1>6, <3>4, <3>5
  <2>2. QED
    BY <2>1 DEF Ascending, Group
<1>11. ASSUME NEW b \in Conns, Fanning(b, "group")',
              NEW d \in Conns, NEW k \in DOMAIN log'[d], Group(log'[d][k]),
              log'[d][k].via = {task'[b].ch}
       PROVE  \/ log'[d][k].msg.n < task'[b].msg.n
              \/ /\ log'[d][k].msg.n = task'[b].msg.n
                 /\ Passed(b, UserOf[d])'
  <2>1. CASE b = c
    <3>1. CASE k \in DOMAIN log[d] /\ log'[d][k] = log[d][k]
      <4>1. /\ Group(log[d][k]) /\ log[d][k].via = {ch}
            /\ Fanning(c, "group")
        BY <1>4, <1>11, <2>1, <3>1
      <4>2. \/ log[d][k].msg.n < msg.n
            \/ log[d][k].msg.n = msg.n /\ Passed(c, UserOf[d])
        BY <1>0, <3>1, <4>1 DEF Latest, msg, ch
      <4>3. QED
        BY <1>4, <1>7, <2>1, <3>1, <4>2
    <3>2. CASE log'[d][k] = e /\ UserOf[d] = to
      BY <1>0, <1>4, <1>7, <2>1, <3>2
    <3>3. QED
      BY <1>6, <3>1, <3>2
  <2>2. CASE b # c
    <3>1. task'[b] = task[b] /\ Fanning(b, "group") /\ task[b].ch # ch
      BY <1>4, <1>5, <1>11, <2>2
    <3>2. k \in DOMAIN log[d] /\ log'[d][k] = log[d][k]
      <4>1. e.via # {task'[b].ch}
        BY <1>0, <3>1
      <4>2. QED
        BY <1>6, <1>11, <4>1
    <3>3. \/ log[d][k].msg.n < task[b].msg.n
          \/ log[d][k].msg.n = task[b].msg.n /\ Passed(b, UserOf[d])
      BY <1>0, <1>11, <3>1, <3>2 DEF Latest
    <3>4. Passed(b, UserOf[d]) => Passed(b, UserOf[d])'
      BY <1>3, <3>1 DEF Passed
    <3>5. QED
      BY <3>1, <3>2, <3>3, <3>4
  <2>3. QED
    BY <2>1, <2>2
<1>12. Latest'
  BY <1>11 DEF Latest, Group
<1>13. OneGroup'
  <2>1. ASSUME NEW b \in Conns, NEW d \in Conns, Fanning(b, "group")',
               Fanning(d, "group")', task'[b].ch = task'[d].ch
        PROVE  b = d
    <3>1. \A a \in Conns : task'[a].ch = task[a].ch
      BY <1>4 DEF ch
    <3>2. QED
      BY <1>0, <1>4, <2>1, <3>1 DEF OneGroup
  <2>2. QED
    BY <2>1 DEF OneGroup
<1>14. Distinct'
  BY <1>0, <1>3 DEF Distinct
<1>15. QED
  BY <1>10, <1>12, <1>13, <1>14 DEF OrderInv

\* Every step keeps the order.
LEMMA OrderStep == TypeInv /\ OrderInv /\ [Next]_vars => OrderInv'
<1> SUFFICES ASSUME TypeInv, OrderInv, [Next]_vars PROVE OrderInv'
  OBVIOUS
<1>0. /\ ConnsInv /\ LogInv /\ TaskInv /\ sent \in Nat
      /\ Distinct /\ OneGroup /\ Ascending /\ Latest
  BY DEF TypeInv, ConnsInv, OrderInv
\* What is there still is when the same task goes on.
<1>1. ASSUME UNCHANGED <<log, users, task>> PROVE OrderInv'
  BY <1>1 DEF OrderInv, Distinct, OneGroup, Ascending, Latest, Fanning, Group,
              Passed
\* A task that is no group message.
<1>2. ASSUME NEW c \in Conns, NEW new, task' = [task EXCEPT ![c] = new],
             new = Idle \/ new.msg.kind # "group", UNCHANGED <<log, users>>
      PROVE  OrderInv'
  <2>1. \A d \in Conns : Fanning(d, "group")' =>
          Fanning(d, "group") /\ task'[d] = task[d]
    <3>1. ~Fanning(c, "group")'
      <4>1. task'[c] = new
        BY <1>0, <1>2, OthersFan
      <4>2. QED
        BY <1>2, <4>1 DEF Fanning
    <3>2. QED
      BY <1>0, <1>2, <3>1, OthersFan DEF Kinds
  <2>2. QED
    BY <1>0, <1>2, <2>1, NothingSent DEF Distinct
<1>3. ASSUME NEW c \in Conns, Login(c) \/ Collect(c) PROVE OrderInv'
  BY <1>1, <1>3 DEF Login, Collect, Moves
<1>4. ASSUME NEW c \in Conns, NEW ch \in Channels,
             Subscribe(c, ch) \/ Unsubscribe(c, ch)
      PROVE  OrderInv'
  <2>1. UNCHANGED <<log, task>> /\ ~UsersLocked(ch)
    BY <1>4 DEF Subscribe, Unsubscribe, Changes, Moves, CommandFree
  <2>2. Distinct'
    BY <1>0, <1>4, ListDistinct
  <2>3. \A x \in Channels : users'[x] = users[x] \/ ~UsersLocked(x)
    BY <1>0, <1>4, <2>1, ListChanged
  <2>4. \A d \in Conns : Fanning(d, "group")' =>
          Fanning(d, "group") /\ task'[d] = task[d]
    BY <2>1 DEF Fanning
  <2>5. QED
    BY <1>0, <2>1, <2>2, <2>3, <2>4, NothingSent
<1>5. ASSUME NEW c \in Conns, NEW u \in Users, Direct(c, u) PROVE OrderInv'
  <2> DEFINE e == [msg |-> NextMessage(c, "direct"), via |-> {}]
  <2>1. /\ SendMsg(u, e) /\ sent < MaxMessages /\ UNCHANGED <<users, task>>
    BY <1>5 DEF Direct, Takes
  <2>2. e \in Entries /\ ~Group(e)
    BY <1>0, <2>1, NextMessageType DEF Kinds, Group, Entries
  <2>3. \A d \in Conns : Fanning(d, "group")' =>
          Fanning(d, "group") /\ task'[d] = task[d]
    BY <2>1 DEF Fanning
  <2> HIDE DEF e
  <2>4. Ascending' /\ Latest'
    BY <1>0, <2>1, <2>2, <2>3, OtherSent
  <2>5. QED
    BY <1>0, <2>1, <2>3, <2>4 DEF OrderInv, Distinct, OneGroup
<1>6. ASSUME NEW c \in Conns, NEW ch \in Channels, BeginGroup(c, ch)
      PROVE  OrderInv'
  <2> DEFINE new == [ch |-> ch, i |-> 1, left |-> {},
                     msg |-> NextMessage(c, "group")]
  <2>1. /\ task' = [task EXCEPT ![c] = new] /\ UNCHANGED <<log, users>>
        /\ sent < MaxMessages
        /\ \A d \in Conns : ~(Fanning(d, "group") /\ task[d].ch = ch)
    BY <1>6 DEF BeginGroup, Begin, Takes, UsersLocked, Walking
  <2>2. task'[c].msg.n = sent + 1 /\ task'[c].ch = ch
    <3>1. task'[c] = new
      BY <1>0, <2>1, OthersFan
    <3>2. QED
      BY <1>0, <2>1, <3>1, NextMessageType DEF Kinds
  <2> HIDE DEF new
  <2>3. \A d \in Conns : d # c =>
          task'[d] = task[d] /\ Fanning(d, "group")' = Fanning(d, "group")
    BY <1>0, <2>1, OthersFan DEF Kinds
  <2>4. Latest'
    <3>1. ASSUME NEW d \in Conns, NEW k \in DOMAIN log[d]
          PROVE  log[d][k].msg.n < sent + 1
      BY <1>0, LogEntry
    <3>2. ASSUME NEW b \in Conns, b # c, Fanning(b, "group")',
                 NEW d \in Conns, NEW k \in DOMAIN log'[d],
                 Group(log'[d][k]), log'[d][k].via = {task'[b].ch}
          PROVE  \/ log'[d][k].msg.n < task'[b].msg.n
                 \/ /\ log'[d][k].msg.n = task'[b].msg.n
                    /\ Passed(b, UserOf[d])'
      <4>1. Passed(b, UserOf[d])' = Passed(b, UserOf[d])
        BY <2>1, <2>3, <3>2 DEF Passed
      <4>2. QED
        BY <1>0, <2>1, <2>3, <3>2, <4>1 DEF Latest
    <3>3. QED
      BY <2>1, <2>2, <3>1, <3>2 DEF Latest, Group
  <2>5. OneGroup'
    <3>1. ASSUME NEW b \in Conns, NEW d \in Conns, Fanning(b, "group")',
                 Fanning(d, "group")', task'[b].ch = task'[d].ch
          PROVE  b = d
      BY <1>0, <2>1, <2>2, <2>3, <3>1 DEF OneGroup
    <3>2. QED
      BY <3>1 DEF OneGroup
  <2>6. QED
    BY <1>0, <2>1, <2>4, <2>5 DEF OrderInv, Distinct, Ascending, Group
<1>7. ASSUME NEW c \in Conns, NEW ch \in Channels, BeginGlobal(c, ch)
      PROVE  OrderInv'
  <2> DEFINE new == [ch |-> ch, i |-> 1, left |-> ChannelsOf(UserOf[c]) \ {ch},
                     msg |-> NextMessage(c, "global")]
  <2>1. /\ task' = [task EXCEPT ![c] = new] /\ UNCHANGED <<log, users>>
        /\ sent < MaxMessages
    BY <1>7 DEF BeginGlobal, Begin, Takes
  <2>2. new.msg.kind # "group"
    BY <1>0, <2>1, NextMessageType DEF Kinds
  <2> HIDE DEF new
  <2>3. QED
    BY <1>2, <2>1, <2>2
<1>8. ASSUME NEW c \in Conns, End(c) PROVE OrderInv'
  <2>1. task' = [task EXCEPT ![c] = Idle] /\ UNCHANGED <<log, users>>
    BY <1>8 DEF End
  <2>2. QED
    BY <1>2, <2>1
<1>9. ASSUME NEW c \in Conns, NEW ch \in Channels, NextChannel(c, ch)
      PROVE  OrderInv'
  <2>1. UNCHANGED <<log, users>>
    BY <1>9 DEF NextChannel
  <2>2. /\ task' = [task EXCEPT ![c] = Onward(task[c], ch)]
        /\ Onward(task[c], ch).msg.kind # "group"
    BY <1>0, <1>9, NextChannelTask DEF Onward
  <2>3. QED
    BY <1>2, <2>1, <2>2
<1>10. ASSUME NEW c \in Conns, FanOut(c), ~Fanning(c, "group") PROVE OrderInv'
  <2>1. /\ UNCHANGED users /\ task[c] # Idle
        /\ \/ \E u : SendMsg(u, Entry(c))
           \/ UNCHANGED log
    BY <1>10 DEF FanOut
  <2>2. /\ task' = [task EXCEPT ![c] = Further(task[c])]
        /\ Further(task[c]).msg = task[c].msg
    BY <1>0, <1>10, FanOutTask DEF Further
  <2>3. /\ Entry(c) \in Entries /\ ~Group(Entry(c))
        /\ Further(task[c]).msg.kind # "group"
    BY <1>0, <1>10, <2>1, <2>2, EntryType DEF Fanning, Group
  <2>4. CASE UNCHANGED log
    BY <1>2, <2>1, <2>2, <2>3, <2>4
  <2>5. ASSUME NEW u, SendMsg(u, Entry(c)) PROVE OrderInv'
    <3>1. \A d \in Conns : Fanning(d, "group")' =>
            Fanning(d, "group") /\ task'[d] = task[d]
      <4>1. task'[c] = Further(task[c])
        BY <1>0, <2>2, OthersFan
      <4>2. ~Fanning(c, "group")'
        BY <2>3, <4>1 DEF Fanning
      <4>3. QED
        BY <1>0, <2>2, <4>2, OthersFan DEF Kinds
    <3>2. Distinct' /\ OneGroup'
      BY <1>0, <2>1, <3>1 DEF Distinct, OneGroup
    <3>3. Ascending' /\ Latest'
      BY <1>0, <2>1, <2>3, <2>5, <3>1, OtherSent
    <3>4. QED
      BY <3>2, <3>3 DEF OrderInv
  <2>6. QED
    BY <2>1, <2>4, <2>5
<1>11. CASE UNCHANGED vars
  BY <1>1, <1>11 DEF vars
<1>12. QED
  BY <1>3, <1>4, <1>5, <1>6, <1>7, <1>8, <1>9, <1>10, <1>11, GroupSent,
     NextCases

\* In ascending logs any two connections have the same order.
LEMMA AscendingOrders == LogInv /\ Ascending => SameOrder
<1> SUFFICES ASSUME LogInv, Ascending,
                    NEW c \in Conns, NEW d \in Conns,
                    NEW m, NEW n, Group(m), Group(n), m.via = n.via,
                    NEW i \in Copies(c, m), NEW j \in Copies(c, n),
                    NEW k \in Copies(d, m), NEW l \in Copies(d, n), i < j
             PROVE  k < l
  BY DEF SameOrder
<1>1. /\ i \in DOMAIN log[c] /\ log[c][i] = m
      /\ j \in DOMAIN log[c] /\ log[c][j] = n
      /\ k \in DOMAIN log[d] /\ log[d][k] = m
      /\ l \in DOMAIN log[d] /\ log[d][l] = n
  BY DEF Copies
<1>2. m.msg.n < n.msg.n
  BY <1>1 DEF Ascending
<1>3. k \in Nat /\ l \in Nat /\ m.msg.n \in Nat /\ n.msg.n \in Nat
  BY <1>1, LogEntry
<1>4. CASE l < k
  <2>1. n.msg.n < m.msg.n
    BY <1>1, <1>4 DEF Ascending
  <2>2. QED
    BY <1>2, <1>3, <2>1
<1>5. CASE k = l
  BY <1>1, <1>2, <1>3, <1>5
<1>6. QED
  BY <1>3, <1>4, <1>5

\* However many connections, channels and messages there are, two connections
\* are sent the group messages of a channel in one order: users_m is held
\* from the first recipient to the last.
THEOREM OneOrder == Spec => []SameOrder
<1>1. Init => OrderInv
  <2>1. Init => Distinct
    BY DEF Init, Distinct, NoDoubles
  <2>2. QED
    BY <2>1 DEF Init, OrderInv, OneGroup, Ascending, Latest, Fanning
<1>2. TypeInv /\ OrderInv => SameOrder
  BY AscendingOrders DEF TypeInv, OrderInv
<1>3. QED
  BY <1>1, <1>2, TypeInit, TypeStep, OrderStep, PTL DEF Spec

-----------------------------------------------------------------------------
(* Who is reached.                                                         *)

\* What the members of another channel will be sent.
EntryFor(c, ch) == [msg |-> task[c].msg, via |-> {ch}]

\* A fan-out has sent nothing for the channels that are left. A walk under
\* which nobody left the list, as every one of a group message is, has sent its
\* message to nobody it has not passed, and once to every connection that was
\* there all the time and whose user it has passed.
Walk(c) ==
  /\ task[c].msg.from = c
  /\ reach[c] \subseteq Present(c)
  /\ Fanning(c, "group") => c \notin shifted
  /\ \A ch \in task[c].left, d \in Conns : Copies(d, EntryFor(c, ch)) = {}
  /\ c \notin shifted =>
       /\ task[c].i <= Len(users[task[c].ch]) + 1
       /\ \A d \in Conns : ~Passed(c, UserOf[d]) => Copies(d, Entry(c)) = {}
       /\ \A d \in reach[c] : Passed(c, UserOf[d]) =>
            \E k \in DOMAIN log[d] : Copies(d, Entry(c)) = {k}

ReachInv == \A c \in Conns : task[c] # Idle => Walk(c)

\* Sending an entry makes no copy of another.
LEMMA OtherCopies ==
  ASSUME LogInv, NEW u, NEW e \in Entries, SendMsg(u, e),
         NEW f, f # e, NEW d \in Conns
  PROVE  /\ Copies(d, f)' = Copies(d, f)
         /\ \A k \in DOMAIN log[d] : k \in DOMAIN log'[d]
<1>1. /\ log[d] \in Seq(Entries)
      /\ log'[d] = IF d \in Recipients(u) THEN Append(log[d], e) ELSE log[d]
  BY DEF LogInv, SendMsg
<1>2. CASE d \in Recipients(u)
  <2>1. log'[d] = Append(log[d], e)
    BY <1>1, <1>2
  <2>2. /\ \A k \in DOMAIN log[d] :
             k \in DOMAIN Append(log[d], e) /\ Append(log[d], e)[k] = log[d][k]
        /\ \A k \in DOMAIN Append(log[d], e) :
             k \in DOMAIN log[d] \/ Append(log[d], e)[k] = e
    BY <1>1
  <2>3. QED
    BY <2>1, <2>2 DEF Copies
<1>3. CASE d \notin Recipients(u)
  <2>1. log'[d] = log[d]
    BY <1>1, <1>3
  <2>2. QED
    BY <2>1 DEF Copies
<1>4. QED
  BY <1>2, <1>3

\* A recipient that had none gets one copy, and nobody else does.
LEMMA NewCopy ==
  ASSUME LogInv, NEW u, NEW e \in Entries, SendMsg(u, e), NEW d \in Conns
  PROVE  /\ d \in Recipients(u) /\ Copies(d, e) = {} =>
              \E k \in DOMAIN log'[d] : Copies(d, e)' = {k}
         /\ d \notin Recipients(u) =>
              Copies(d, e)' = Copies(d, e) /\ log'[d] = log[d]
<1>1. /\ log[d] \in Seq(Entries)
      /\ log'[d] = IF d \in Recipients(u) THEN Append(log[d], e) ELSE log[d]
  BY DEF LogInv, SendMsg
<1>2. ASSUME d \in Recipients(u), Copies(d, e) = {}
      PROVE  \E k \in DOMAIN log'[d] : Copies(d, e)' = {k}
  <2>1. log'[d] = Append(log[d], e)
    BY <1>1, <1>2
  <2>2. \A k \in DOMAIN log[d] : log[d][k] # e
    BY <1>2 DEF Copies
  <2>3. /\ Len(log[d]) + 1 \in DOMAIN log'[d]
        /\ log'[d][Len(log[d]) + 1] = e
        /\ \A k \in DOMAIN log'[d] :
             \/ k = Len(log[d]) + 1
             \/ k \in DOMAIN log[d] /\ log'[d][k] = log[d][k]
    BY <1>1, <2>1
  <2>4. Copies(d, e)' = {Len(log[d]) + 1}
    BY <2>2, <2>3 DEF Copies
  <2>5. QED
    BY <2>3, <2>4
<1>3. QED
  BY <1>1, <1>2 DEF Copies

\* The history of a walk that goes on.
LEMMA RememberWalk ==
  ASSUME TypeInv, Remember, NEW c \in Conns, task[c] # Idle, task'[c] # Idle,
         task'[c].ch = task[c].ch
  PROVE  /\ reach'[c] = reach[c] \cap Present(c)'
         /\ c \in shifted' <=> c \in shifted
                  \/ Len(users'[task[c].ch]) < Len(users[task[c].ch])
  BY DEF Remember, WalksOn

\* The history of a walk that begins.
LEMMA RememberStart ==
  ASSUME Remember, NEW c \in Conns, task'[c] # Idle,
         task[c] = Idle \/ task'[c].ch # task[c].ch
  PROVE  reach'[c] = Present(c)' /\ c \notin shifted'
  BY DEF Remember, WalksOn

\* A step of others, which changes none of the copies a fan-out has made and
\* nothing of the list before its next member, unless somebody leaves it.
LEMMA WalkKept ==
  ASSUME TypeInv, ReachInv, Remember, NEW c \in Conns,
         task[c] # Idle, task'[c] = task[c],
         NEW ch \in Channels, ch = task[c].ch,
         Fanning(c, "group") => users'[ch] = users[ch],
         Len(users'[ch]) >= Len(users[ch]) =>
           \A j \in DOMAIN users[ch] :
             j \in DOMAIN users'[ch] /\ users'[ch][j] = users[ch][j],
         users'[ch] \in Seq(Users),
         \A d \in Conns : \A e : e.msg = task[c].msg =>
           /\ Copies(d, e)' = Copies(d, e)
           /\ \A k \in DOMAIN log[d] : k \in DOMAIN log'[d]
  PROVE  Walk(c)'
<1>1. /\ reach'[c] = reach[c] \cap Present(c)'
      /\ c \in shifted' <=>
           c \in shifted \/ Len(users'[ch]) < Len(users[ch])
  BY RememberWalk
<1>2. /\ Walk(c) /\ task[c].msg.from = c
      /\ Fanning(c, "group") => c \notin shifted
      /\ reach[c] \subseteq Conns
      /\ users[ch] \in Seq(Users)
      /\ Len(users[ch]) \in Nat /\ Len(users'[ch]) \in Nat
      /\ task[c].i \in Nat \ {0}
  <2>1. Walk(c) /\ task[c].i \in Nat \ {0}
    BY DEF ReachInv, TypeInv, TaskInv, Walks
  <2>2. users[ch] \in Seq(Users) /\ reach[c] \subseteq Conns
    BY DEF TypeInv, ConnsInv, HistoryInv
  <2>3. Len(users[ch]) \in Nat /\ Len(users'[ch]) \in Nat
    BY <2>2
  <2>4. QED
    BY <2>1, <2>2, <2>3 DEF Walk
<1>3. Fanning(c, "group")' => c \notin shifted'
  BY <1>1, <1>2 DEF Fanning
<1>4. PICK e : e = Entry(c)
  OBVIOUS
<1>5. e.msg = task[c].msg
  BY <1>4 DEF Entry
<1>6. \A d \in Conns : Copies(d, Entry(c))' = Copies(d, e)'
  <2>1. Entry(c)' = e
    BY <1>4 DEF Entry
  <2>2. QED
    BY <2>1 DEF Copies
<1>7. \A d \in Conns : Copies(d, Entry(c))' = Copies(d, Entry(c))
  BY <1>4, <1>5, <1>6
<1>8. ASSUME NEW x \in task'[c].left, NEW d \in Conns
      PROVE  Copies(d, EntryFor(c, x))' = {}
  <2>1. PICK f : f = EntryFor(c, x)
    OBVIOUS
  <2>2. f.msg = task[c].msg /\ EntryFor(c, x)' = f
    BY <2>1 DEF EntryFor
  <2>3. Copies(d, EntryFor(c, x))' = Copies(d, f)'
    BY <2>2 DEF Copies
  <2>4. Copies(d, f) = {}
    BY <1>2, <1>8, <2>1 DEF Walk
  <2>5. QED
    BY <2>2, <2>3, <2>4
<1>9. ASSUME c \notin shifted'
      PROVE  /\ task'[c].i <= Len(users'[ch]) + 1
             /\ \A d \in Conns : ~Passed(c, UserOf[d])' =>
                  Copies(d, Entry(c))' = {}
             /\ \A d \in reach'[c] : Passed(c, UserOf[d])' =>
                  \E k \in DOMAIN log'[d] : Copies(d, Entry(c))' = {k}
  <2>1. c \notin shifted /\ Len(users'[ch]) >= Len(users[ch])
    BY <1>1, <1>2, <1>9
  <2>2. /\ task[c].i <= Len(users[ch]) + 1
        /\ \A d \in Conns : ~Passed(c, UserOf[d]) =>
             Copies(d, Entry(c)) = {}
        /\ \A d \in reach[c] : Passed(c, UserOf[d]) =>
             \E k \in DOMAIN log[d] : Copies(d, Entry(c)) = {k}
    BY <1>2, <2>1 DEF Walk
  <2>3. \A j \in DOMAIN users[ch] :
          j \in DOMAIN users'[ch] /\ users'[ch][j] = users[ch][j]
    BY <2>1
  <2>4. \A j \in DOMAIN users'[ch] : j < task[c].i => j \in DOMAIN users[ch]
    BY <1>2, <2>2
  <2>5. \A u : Passed(c, u)' <=> Passed(c, u)
    BY <2>3, <2>4 DEF Passed
  <2>6. task'[c].i <= Len(users'[ch]) + 1
    BY <1>2, <2>1, <2>2
  <2>7. \A d \in reach'[c] : d \in reach[c] /\ d \in Conns
    BY <1>1, <1>2
  <2>8. ASSUME NEW d \in reach'[c], Passed(c, UserOf[d])'
        PROVE  \E k \in DOMAIN log'[d] : Copies(d, Entry(c))' = {k}
    <3>1. PICK k \in DOMAIN log[d] : Copies(d, Entry(c)) = {k}
      BY <2>2, <2>5, <2>7, <2>8
    <3>2. k \in DOMAIN log'[d]
      BY <1>5, <2>7
    <3>3. QED
      BY <1>7, <2>7, <3>1, <3>2
  <2>9. QED
    BY <1>7, <2>2, <2>5, <2>6, <2>8
<1>10. reach'[c] \subseteq Present(c)'
  BY <1>1
<1>11. QED
  BY <1>2, <1>3, <1>8, <1>9, <1>10 DEF Walk

\* A walk whose own next step sends the message on.
LEMMA WalkGoesOn ==
  ASSUME TypeInv, OrderInv, ReachInv, Remember, NEW c \in Conns, FanOut(c)
  PROVE  Walk(c)'
<1>0. /\ LogInv /\ TaskInv /\ Walk(c) /\ task[c] # Idle
      /\ task[c] \in Walks /\ Entry(c) \in Entries /\ Proper(task[c], sent)
  <2>1. LogInv /\ TaskInv /\ task[c] # Idle
    BY DEF TypeInv, FanOut
  <2>2. QED
    BY <2>1, EntryType DEF ReachInv, TaskInv
<1>1. PICK ch \in Channels : ch = task[c].ch
  BY <1>0 DEF Walks
<1>2. PICK e \in Entries : e = Entry(c)
  BY <1>0
<1>3. /\ task[c].i \in Nat \ {0} /\ users[ch] \in Seq(Users)
      /\ Len(users[ch]) \in Nat /\ NoDoubles(users[ch])
  BY <1>0 DEF Walks, TypeInv, ConnsInv, OrderInv, Distinct
<1>4. PICK to : to = users[ch][task[c].i]
  OBVIOUS
<1>5. /\ task[c].i \in DOMAIN users[ch]
      /\ UNCHANGED <<users, m_conns>>
      /\ IF to # UserOf[c] THEN SendMsg(to, e)
                           ELSE UNCHANGED <<log, freed, undefined>>
  BY <1>1, <1>2, <1>3, <1>4 DEF FanOut
<1>6. /\ task'[c].i = task[c].i + 1 /\ task'[c].msg = task[c].msg
      /\ task'[c].ch = ch /\ task'[c].left = task[c].left
      /\ task'[c] # Idle
  <2>1. task'[c] = Further(task[c])
    BY <1>0, FanOutTask DEF TaskInv
  <2>2. task'[c].i # Idle.i
    BY <1>3, <2>1 DEF Idle, Further
  <2>3. QED
    BY <1>1, <2>1, <2>2 DEF Further
<1>7. /\ reach'[c] = reach[c] \cap Present(c)'
      /\ c \in shifted' <=> c \in shifted
  <2>1. /\ reach'[c] = reach[c] \cap Present(c)'
        /\ c \in shifted' <=> c \in shifted
                 \/ Len(users'[task[c].ch]) < Len(users[task[c].ch])
    BY <1>0, <1>1, <1>6, RememberWalk
  <2>2. QED
    BY <1>1, <1>3, <1>5, <2>1
<1>8. \A u : Passed(c, u)' <=> Passed(c, u) \/ u = to
  <2>1. users'[task'[c].ch] = users[ch]
    BY <1>5, <1>6
  <2>2. QED
    BY <1>1, <1>3, <1>4, <1>5, <1>6, <2>1 DEF Passed
<1>9. ~Passed(c, to)
  BY <1>1, <1>3, <1>4, <1>5 DEF Passed, NoDoubles
<1>10. Fanning(c, "group")' => c \notin shifted'
  BY <1>0, <1>6, <1>7 DEF Walk, Fanning
<1>11. \A d \in reach[c] : UserOf[d] # UserOf[c] /\ d \in m_conns
  BY <1>0 DEF Walk, Present, Others
<1>12. \A d \in Conns : Copies(d, Entry(c))' = Copies(d, e)'
  <2>1. Entry(c)' = e
    BY <1>1, <1>2, <1>6 DEF Entry
  <2>2. QED
    BY <2>1 DEF Copies
<1>13. ASSUME NEW d \in Conns, c \notin shifted
       PROVE  /\ ~Passed(c, UserOf[d])' => Copies(d, e)' = {}
              /\ d \in reach[c] /\ Passed(c, UserOf[d])' =>
                   \E k \in DOMAIN log'[d] : Copies(d, e)' = {k}
  <2>1. /\ ~Passed(c, UserOf[d]) => Copies(d, e) = {}
        /\ d \in reach[c] /\ Passed(c, UserOf[d]) =>
             \E k \in DOMAIN log[d] : Copies(d, e) = {k}
    BY <1>0, <1>2, <1>13 DEF Walk
  <2>2. ASSUME UserOf[d] # to \/ to = UserOf[c]
        PROVE  Copies(d, e)' = Copies(d, e) /\ log'[d] = log[d]
    <3>1. CASE to = UserOf[c]
      BY <1>5, <3>1 DEF Copies
    <3>2. CASE to # UserOf[c]
      <4>1. SendMsg(to, e) /\ d \notin Recipients(to)
        BY <1>5, <2>2, <3>2 DEF Recipients
      <4>2. QED
        BY <1>0, <4>1, NewCopy
    <3>3. QED
      BY <3>1, <3>2
  <2>3. ~Passed(c, UserOf[d])' => Copies(d, e)' = {}
    BY <1>8, <2>1, <2>2
  <2>4. ASSUME d \in reach[c], Passed(c, UserOf[d])'
        PROVE  \E k \in DOMAIN log'[d] : Copies(d, e)' = {k}
    <3>1. CASE UserOf[d] = to
      <4>1. to # UserOf[c] /\ d \in Recipients(to)
        BY <1>11, <2>4, <3>1 DEF Recipients
      <4>2. SendMsg(to, e) /\ Copies(d, e) = {}
        BY <1>5, <1>9, <2>1, <3>1, <4>1
      <4>3. QED
        BY <1>0, <4>1, <4>2, NewCopy
    <3>2. CASE UserOf[d] # to
      <4>1. Passed(c, UserOf[d])
        BY <1>8, <2>4, <3>2
      <4>2. QED
        BY <2>1, <2>2, <2>4, <3>2, <4>1
    <3>3. QED
      BY <3>1, <3>2
  <2>5. QED
    BY <2>3, <2>4
\* Nothing goes out for the channels that are left.
<1>14. ASSUME NEW x \in task'[c].left, NEW d \in Conns
       PROVE  Copies(d, EntryFor(c, x))' = {}
  <2>1. PICK f : f = EntryFor(c, x)
    OBVIOUS
  <2>2. EntryFor(c, x)' = f /\ f # e
    <3>1. x # ch
      BY <1>0, <1>1, <1>6, <1>14 DEF Proper
    <3>2. f.via = {x} /\ e.via = {ch}
      BY <1>1, <1>2, <2>1 DEF EntryFor, Entry
    <3>3. EntryFor(c, x)' = f
      BY <1>6, <2>1 DEF EntryFor
    <3>4. QED
      BY <3>1, <3>2, <3>3
  <2>3. Copies(d, f) = {}
    BY <1>0, <1>6, <1>14, <2>1 DEF Walk
  <2>4. Copies(d, f)' = Copies(d, f)
    <3>1. CASE UNCHANGED log
      BY <3>1 DEF Copies
    <3>2. CASE SendMsg(to, e)
      BY <1>0, <2>2, <3>2, OtherCopies
    <3>3. QED
      BY <1>5, <3>1, <3>2
  <2>5. Copies(d, EntryFor(c, x))' = Copies(d, f)'
    BY <2>2 DEF Copies
  <2>6. QED
    BY <2>3, <2>4, <2>5
<1>15. task'[c].i <= Len(users'[task'[c].ch]) + 1
  BY <1>3, <1>5, <1>6
<1>16. QED
  <2>1. task'[c].msg.from = c
    BY <1>0, <1>6 DEF Walk
  <2>2. reach'[c] \subseteq Conns /\ reach'[c] \subseteq reach[c]
    BY <1>7 DEF TypeInv, HistoryInv
  <2>3. reach'[c] \subseteq Present(c)'
    BY <1>7
  <2>4. QED
    BY <1>7, <1>10, <1>12, <1>13, <1>14, <1>15, <2>1, <2>2, <2>3 DEF Walk

\* A walk that begins: nobody has been passed, nobody has been sent anything
\* for the channel.
LEMMA WalkStarts ==
  ASSUME ConnsInv', Remember, NEW c \in Conns,
         task'[c] # Idle, task[c] = Idle \/ task'[c].ch # task[c].ch,
         task'[c].i = 1, task'[c].msg.from = c, task'[c].ch \in Channels,
         \A x \in task'[c].left \cup {task'[c].ch}, d \in Conns :
           Copies(d, EntryFor(c, x))' = {}
  PROVE  Walk(c)'
<1>1. reach'[c] = Present(c)' /\ c \notin shifted'
  BY RememberStart
<1>2. reach'[c] \subseteq Conns
  BY <1>1 DEF Present, ConnsInv
<1>3. \A d \in Conns : Copies(d, Entry(c))' = {}
  <2>1. \A d \in Conns : \A k \in DOMAIN log'[d] :
          log'[d][k] # [msg |-> task'[c].msg, via |-> {task'[c].ch}]
    BY DEF Copies, EntryFor
  <2>2. QED
    BY <2>1 DEF Copies, Entry
<1>4. users'[task'[c].ch] \in Seq(Users)
  BY DEF ConnsInv
<1>5. \A u : ~Passed(c, u)'
  BY <1>4 DEF Passed
<1>6. task'[c].i <= Len(users'[task'[c].ch]) + 1
  BY <1>4
<1>7. \A x \in task'[c].left, d \in Conns : Copies(d, EntryFor(c, x))' = {}
  OBVIOUS
<1>8. QED
  BY <1>1, <1>2, <1>3, <1>5, <1>6, <1>7 DEF Walk

\* The first channel of a message, of which there are no copies.
LEMMA WalkBegins ==
  ASSUME TypeInv, ConnsInv', Remember, NEW c \in Conns,
         NEW kind \in {"group", "global"}, NEW ch \in Channels, NEW left,
         Begin(c, kind, ch, left)
  PROVE  Walk(c)'
<1> DEFINE msg == NextMessage(c, kind)
           new == [ch |-> ch, i |-> 1, left |-> left, msg |-> msg]
<1>0. ConnsInv /\ TaskInv /\ LogInv /\ sent \in Nat
  BY DEF TypeInv, ConnsInv
<1>1. /\ task' = [task EXCEPT ![c] = new] /\ UNCHANGED log
      /\ sent < MaxMessages /\ task[c] = Idle
  BY DEF Begin, Takes
<1>2. task'[c] = new /\ msg.n = sent + 1 /\ msg.from = c
  BY <1>0, <1>1, NextMessageType, OthersFan DEF Kinds, NextMessage
<1>3. /\ task'[c].i = 1 /\ task'[c].msg = msg /\ task'[c].ch = ch
      /\ task'[c] # Idle
  <2>1. new.i # Idle.i
    BY DEF Idle
  <2>2. QED
    BY <1>2, <2>1
<1> HIDE DEF msg, new
<1>4. ASSUME NEW x, NEW d \in Conns PROVE Copies(d, EntryFor(c, x))' = {}
  <2>1. ASSUME NEW k \in DOMAIN log[d] PROVE log[d][k].msg # msg
    BY <1>0, <1>2, LogEntry
  <2>2. EntryFor(c, x)'.msg = msg
    BY <1>3 DEF EntryFor
  <2>3. QED
    BY <1>1, <2>1, <2>2 DEF Copies
<1>5. QED
  BY <1>1, <1>2, <1>3, <1>4, WalkStarts

\* Another channel of the message, of which there are no copies either.
LEMMA WalkContinues ==
  ASSUME TypeInv, ConnsInv', ReachInv, Remember, NEW c \in Conns,
         NEW ch \in Channels, NextChannel(c, ch)
  PROVE  Walk(c)'
<1>0. /\ TaskInv /\ task[c] # Idle /\ Walk(c)
      /\ ch \in task[c].left /\ ch # task[c].ch
      /\ task' = [task EXCEPT ![c] = Onward(task[c], ch)] /\ UNCHANGED log
  <2>1. TaskInv /\ UNCHANGED log
    BY DEF TypeInv, NextChannel
  <2>2. QED
    BY <2>1, NextChannelTask DEF ReachInv
<1>1. task'[c] = Onward(task[c], ch)
  BY <1>0, OthersFan
<1>2. /\ task'[c].i = 1 /\ task'[c].msg = task[c].msg /\ task'[c].ch = ch
      /\ task'[c].left = task[c].left \ {ch}
  BY <1>1 DEF Onward
<1>3. task'[c] # Idle
  BY <1>2 DEF Idle
<1>4. ASSUME NEW x \in task'[c].left \cup {task'[c].ch}, NEW d \in Conns
      PROVE  Copies(d, EntryFor(c, x))' = {}
  <2>1. x \in task[c].left
    BY <1>0, <1>2, <1>4
  <2>2. Copies(d, EntryFor(c, x)) = {}
    BY <1>0, <2>1 DEF Walk
  <2>3. EntryFor(c, x)' = EntryFor(c, x)
    BY <1>2 DEF EntryFor
  <2>4. QED
    BY <1>0, <2>2, <2>3 DEF Copies
<1>5. task'[c].msg.from = c
  BY <1>0, <1>2 DEF Walk
<1>6. QED
  BY <1>0, <1>2, <1>3, <1>4, <1>5, WalkStarts

\* A step of w keeps the walk of any other connection.
LEMMA OtherWalk ==
  ASSUME TypeInv, ReachInv, Remember, NEW c \in Conns, NEW w \in Conns, c # w,
         task[c] # Idle,
         \/ \E u \in Users : Direct(w, u)
         \/ FanOut(w) \/ End(w)
         \/ \E ch \in Channels :
              BeginGroup(w, ch) \/ BeginGlobal(w, ch) \/ NextChannel(w, ch)
  PROVE  Walk(c)'
<1>0. ConnsInv /\ TaskInv /\ LogInv
  BY DEF TypeInv
<1>1. UNCHANGED users /\ task'[c] = task[c]
  <2>1. /\ UNCHANGED users
        /\ task' = task \/ \E new : task' = [task EXCEPT ![w] = new]
    BY DEF Direct, BeginGroup, BeginGlobal, Begin, FanOut, End, Takes,
           NextChannel
  <2>2. QED
    BY <1>0, <2>1, OthersFan
<1>2. \/ UNCHANGED log
      \/ \E u : \E e \in Entries : SendMsg(u, e) /\ e.msg.from = w
  <2>1. ASSUME NEW u \in Users, Direct(w, u)
        PROVE  \E e \in Entries : SendMsg(u, e) /\ e.msg.from = w
    <3> DEFINE e == [msg |-> NextMessage(w, "direct"), via |-> {}]
    <3>1. SendMsg(u, e) /\ sent < MaxMessages
      BY <2>1 DEF Direct, Takes
    <3>2. e \in Entries /\ e.msg.from = w
      BY <1>0, <3>1, NextMessageType DEF Kinds, NextMessage, Entries
    <3>3. QED
      BY <3>1, <3>2
  <2>2. ASSUME FanOut(w)
        PROVE  UNCHANGED log
                 \/ \E u : \E e \in Entries : SendMsg(u, e) /\ e.msg.from = w
    <3>1. /\ task[w] # Idle
          /\ \/ \E u : SendMsg(u, Entry(w))
             \/ UNCHANGED log
      BY <2>2 DEF FanOut
    <3>2. Entry(w) \in Entries /\ Entry(w).msg.from = w
      BY <1>0, <3>1, EntryType DEF ReachInv, Walk
    <3>3. QED
      BY <3>1, <3>2
  <2>3. QED
    BY <2>1, <2>2 DEF BeginGroup, BeginGlobal, Begin, End, NextChannel
<1>3. ASSUME NEW d \in Conns, NEW f, f.msg = task[c].msg
      PROVE  /\ Copies(d, f)' = Copies(d, f)
             /\ \A k \in DOMAIN log[d] : k \in DOMAIN log'[d]
  <2>1. CASE UNCHANGED log
    BY <2>1 DEF Copies
  <2>2. ASSUME NEW u, NEW e \in Entries, SendMsg(u, e), e.msg.from = w
        PROVE  /\ Copies(d, f)' = Copies(d, f)
               /\ \A k \in DOMAIN log[d] : k \in DOMAIN log'[d]
    <3>1. f # e
      BY <1>3, <2>2 DEF ReachInv, Walk
    <3>2. QED
      BY <1>0, <2>2, <3>1, OtherCopies
  <2>3. QED
    BY <1>2, <2>1, <2>2
<1>4. PICK ch \in Channels : ch = task[c].ch
  BY <1>0 DEF TaskInv, Walks
<1>5. users[ch] \in Seq(Users)
  BY <1>0 DEF ConnsInv
<1>6. QED
  BY <1>1, <1>3, <1>4, <1>5, WalkKept

\* A change of the connections or of a list of users keeps every walk.
LEMMA MovesWalk ==
  ASSUME TypeInv, OrderInv, ReachInv, Remember,
         NEW c \in Conns, NEW w \in Conns,
         task[c] # Idle,
         \/ Login(w) \/ Collect(w)
         \/ \E x \in Channels : Subscribe(w, x) \/ Unsubscribe(w, x)
  PROVE  Walk(c)'
<1>0. ConnsInv /\ ConnsInv'
  BY MovesStep DEF TypeInv
<1>1. UNCHANGED <<task, log>>
  BY DEF Login, Collect, Subscribe, Unsubscribe, Changes, Moves
<1>2. \A d \in Conns : \A e : /\ Copies(d, e)' = Copies(d, e)
                              /\ \A k \in DOMAIN log[d] : k \in DOMAIN log'[d]
  BY <1>1 DEF Copies
<1>3. PICK ch \in Channels : ch = task[c].ch
  BY DEF TypeInv, TaskInv, Walks
<1>4. users[ch] \in Seq(Users) /\ users'[ch] \in Seq(Users)
  BY <1>0 DEF ConnsInv
<1>5. /\ Fanning(c, "group") => users'[ch] = users[ch]
      /\ Len(users'[ch]) >= Len(users[ch]) =>
           \A j \in DOMAIN users[ch] :
             j \in DOMAIN users'[ch] /\ users'[ch][j] = users[ch][j]
  <2>1. CASE Login(w) \/ Collect(w)
    BY <2>1 DEF Login, Collect
  <2>2. ASSUME NEW x \in Channels, Subscribe(w, x) \/ Unsubscribe(w, x)
        PROVE  /\ Fanning(c, "group") => users'[ch] = users[ch]
               /\ Len(users'[ch]) >= Len(users[ch]) =>
                    \A j \in DOMAIN users[ch] :
                      j \in DOMAIN users'[ch] /\ users'[ch][j] = users[ch][j]
    <3>1. CASE x # ch
      BY <1>0, <2>2, <3>1, ListChanged
    <3>2. CASE x = ch
      <4>1. ~Fanning(c, "group")
        BY <1>3, <2>2, <3>2
           DEF Subscribe, Unsubscribe, CommandFree, UsersLocked, Walking
      <4>2. CASE Subscribe(w, ch)
        <5>1. users'[ch] = Append(users[ch], UserOf[w])
          BY <1>0, <4>2, ListChanged
        <5>2. QED
          BY <1>4, <4>1, <5>1, UsersAssumption
      <4>3. CASE Unsubscribe(w, ch)
        <5>1. PICK k \in DOMAIN users[ch] : users'[ch] = RemoveAt(users[ch], k)
          BY <1>0, <4>3, ListChanged
        <5>2. Len(users'[ch]) = Len(users[ch]) - 1
          BY <1>4, <5>1, RemoveDistinct DEF OrderInv, Distinct
        <5>3. Len(users[ch]) \in Nat
          BY <1>4
        <5>4. QED
          BY <4>1, <5>2, <5>3
      <4>4. QED
        BY <2>2, <3>2, <4>2, <4>3
    <3>3. QED
      BY <3>1, <3>2
  <2>3. QED
    BY <2>1, <2>2
<1>6. QED
  BY <1>1, <1>2, <1>3, <1>4, <1>5, WalkKept

\* Every step keeps the walks.
LEMMA ReachStep ==
  TypeInv /\ OrderInv /\ ReachInv /\ [Next]_vars => ReachInv'
<1> SUFFICES ASSUME TypeInv, OrderInv, ReachInv, [Next]_vars PROVE ReachInv'
  OBVIOUS
<1>1. CASE UNCHANGED vars
  BY <1>1 DEF vars, ReachInv, Walk, Passed, Copies, Present, Others, Elements,
              Fanning, Entry, EntryFor
<1>2. ASSUME NEW w \in Conns, Remember,
             \/ Login(w) \/ Collect(w) \/ FanOut(w) \/ End(w)
             \/ \E u \in Users : Direct(w, u)
             \/ \E ch \in Channels :
                  \/ Subscribe(w, ch) \/ Unsubscribe(w, ch)
                  \/ BeginGroup(w, ch) \/ BeginGlobal(w, ch)
                  \/ NextChannel(w, ch),
             NEW c \in Conns, task'[c] # Idle
      PROVE  Walk(c)'
  <2>1. ASSUME \/ Login(w) \/ Collect(w)
               \/ \E ch \in Channels : Subscribe(w, ch) \/ Unsubscribe(w, ch)
        PROVE  Walk(c)'
    <3>1. UNCHANGED task
      BY <2>1 DEF Login, Collect, Subscribe, Unsubscribe, Changes, Moves
    <3>2. QED
      BY <1>2, <2>1, <3>1, MovesWalk
  <2>2. ASSUME \/ \E u \in Users : Direct(w, u)
               \/ FanOut(w) \/ End(w)
               \/ \E ch \in Channels :
                    \/ BeginGroup(w, ch) \/ BeginGlobal(w, ch)
                    \/ NextChannel(w, ch)
        PROVE  Walk(c)'
    <3>0. ConnsInv' /\ TaskInv
      BY <2>2, SendStep DEF TypeInv
    <3>1. CASE c # w
      <4>1. task[c] # Idle
        <5>1. task' = task \/ \E new : task' = [task EXCEPT ![w] = new]
          BY <2>2 DEF Direct, BeginGroup, BeginGlobal, Begin, FanOut, End,
                      NextChannel
        <5>2. QED
          BY <1>2, <3>0, <3>1, <5>1, OthersFan
      <4>2. QED
        BY <1>2, <2>2, <3>1, <4>1, OtherWalk
    <3>2. CASE c = w
      <4>1. CASE \E u \in Users : Direct(c, u)
        BY <1>2, <4>1 DEF Direct, Takes
      <4>2. CASE End(c)
        BY <1>2, <3>0, <4>2 DEF End, TaskInv
      <4>3. CASE FanOut(c)
        BY <1>2, <4>3, WalkGoesOn
      <4>4. ASSUME NEW ch \in Channels, BeginGroup(c, ch) PROVE Walk(c)'
        BY <1>2, <3>0, <4>4, WalkBegins DEF BeginGroup
      <4>5. ASSUME NEW ch \in Channels, BeginGlobal(c, ch) PROVE Walk(c)'
        BY <1>2, <3>0, <4>5, WalkBegins DEF BeginGlobal
      <4>6. ASSUME NEW ch \in Channels, NextChannel(c, ch) PROVE Walk(c)'
        BY <1>2, <3>0, <4>6, WalkContinues
      <4>7. QED
        BY <2>2, <3>2, <4>1, <4>2, <4>3, <4>4, <4>5, <4>6
    <3>3. QED
      BY <3>1, <3>2
  <2>3. QED
    BY <1>2, <2>1, <2>2
<1>3. QED
  BY <1>1, <1>2, NextCases DEF ReachInv

\* At the end of a list every other member has been passed.
LEMMA EndReaches ==
  TypeInv /\ ReachInv => FanOutReachesMembers
<1> SUFFICES ASSUME TypeInv, ReachInv, NEW c \in Conns, EndOfUsers(c),
                    Fanning(c, "group") \/ c \notin shifted,
                    NEW d \in reach[c]
             PROVE  \E k \in DOMAIN log[d] : Copies(d, Entry(c)) = {k}
  BY DEF FanOutReachesMembers
<1>1. Walk(c) /\ c \notin shifted
  BY DEF ReachInv, Walk, EndOfUsers
<1>2. UserOf[d] \in Elements(users[task[c].ch])
  BY <1>1 DEF Walk, Present, Others
<1>3. Passed(c, UserOf[d])
  <2>1. PICK j \in DOMAIN users[task[c].ch] : users[task[c].ch][j] = UserOf[d]
    BY <1>2 DEF Elements
  <2>2. /\ task[c].ch \in Channels /\ task[c].i \in Nat
        /\ task[c].i > Len(users[task[c].ch])
    BY DEF TypeInv, TaskInv, Walks, EndOfUsers
  <2>3. users[task[c].ch] \in Seq(Users)
    BY <2>2 DEF TypeInv, ConnsInv
  <2>4. QED
    BY <2>1, <2>2, <2>3 DEF Passed
<1>4. QED
  BY <1>1, <1>3 DEF Walk

\* However many members and channels there are and whatever the others do
\* meanwhile, a message is sent, for each channel it goes to, once to every
\* connection of every other member that was there from the beginning of the
\* walk of the channel to its end; of a global message, which goes to all
\* channels of the sender, this needs that nobody left the list, which
\* handle_payload walks without users_m.
THEOREM AllReached == Spec => []FanOutReachesMembers
<1>1. Init => OrderInv
  <2>1. Init => Distinct
    BY DEF Init, Distinct, NoDoubles
  <2>2. QED
    BY <2>1 DEF Init, OrderInv, OneGroup, Ascending, Latest, Fanning
<1>2. Init => ReachInv
  BY DEF Init, ReachInv
<1>3. QED
  BY <1>1, <1>2, TypeInit, TypeStep, OrderStep, ReachStep, EndReaches, PTL
     DEF Spec
=============================================================================

--------------------------- MODULE ChannelsProofs ---------------------------
(***************************************************************************)
(* Proofs about module Channels, for every set of users, threads, names    *)
(* and commands, /delete included except for BothSidesAgree.               *)
(*                                                                         *)
(* TypeInv is TypeOK in three parts, and that the channel a thread works   *)
(* on has been made. NamesUnique is inductive on top of it. For            *)
(* RegisteredIsUsed UsedInv adds that a thread about to remove a channel   *)
(* removes it under its own name: with NamesUnique, remove() by name then  *)
(* takes out that channel or none. HeldInv and MirrorInv are about the     *)
(* lists of users: what a command has found out under the mutex of one.    *)
(***************************************************************************)
EXTENDS Channels, WellFoundedInduction, TLAPS

LocalInv ==
  /\ pc \in [Threads -> Labels]
  /\ call \in [Threads -> Call \cup {NoCall}]
  /\ i \in [Threads -> Nat \ {0}] /\ ch \in [Threads -> Channel]
  /\ \A t \in Threads : pc[t] # "idle" => call[t] \in Call
  /\ \A t \in Threads : pc[t] \in {"join", "add", "disband"} =>
       ch[t] \in 1..Len(made)

ListInv ==
  /\ made \in Seq(Names) /\ Len(made) <= MaxChannels
  /\ m_channels \subseteq 1..Len(made)
  /\ channels \in [Users -> Seq(1..Len(made))]
  /\ users \in [Channel -> Seq(Users)]

LockInv ==
  /\ channels_m \in [Users -> Threads \cup {"none"}]
  /\ users_m \in [Channel -> Threads \cup {"none"}]
  /\ thrown \in BOOLEAN
  /\ budget \in 0..MaxCommands

TypeInv == LocalInv /\ ListInv /\ LockInv

UsedInv ==
  /\ RegisteredIsUsed
  /\ \A t \in Threads : pc[t] = "disband" => made[ch[t]] = Name(t)

-----------------------------------------------------------------------------
(* Lists.                                                                  *)

\* A list is still a list without one of its elements.
LEMMA RemoveAtType ==
  ASSUME NEW S, NEW s \in Seq(S), NEW k \in 1..Len(s)
  PROVE  RemoveAt(s, k) \in Seq(S)
<1>1. SubSeq(s, 1, k-1) \in Seq(S)
  OBVIOUS
<1>2. SubSeq(s, k+1, Len(s)) \in Seq(S)
  OBVIOUS
<1>3. QED
  BY <1>1, <1>2 DEF RemoveAt

\* A list over a set is a list over a larger one.
LEMMA SeqWider ==
  ASSUME NEW S, NEW T, S \subseteq T, NEW s \in Seq(S)
  PROVE  s \in Seq(T)
  OBVIOUS

\* A list that is not empty is a list without its first element.
LEMMA TailType ==
  ASSUME NEW S, NEW s \in Seq(S), s # <<>>
  PROVE  Tail(s) \in Seq(S)
  OBVIOUS

\* A list with one more element is not empty.
LEMMA AppendNotEmpty ==
  ASSUME NEW S, NEW s \in Seq(S), NEW e \in S
  PROVE  Append(s, e) # <<>>
<1>1. Len(Append(s, e)) = Len(s) + 1 /\ Len(s) \in Nat
  OBVIOUS
<1>2. Len(<<>>) = 0
  OBVIOUS
<1>3. QED
  BY <1>1, <1>2

\* A set of numbers that is not empty has a least one.
LEMMA MinExists ==
  ASSUME NEW I \in SUBSET Nat, I # {}
  PROVE  Min(I) \in I
<1>1. PICK x \in I : \A y \in I : ~(<<y, x>> \in OpToRel(<, Nat))
  BY NatLessThanWellFounded, WFMin
<1>2. ASSUME NEW y \in I, y < x
      PROVE  FALSE
  <2>1. <<y, x>> \in {ss \in Nat \X Nat : ss[1] < ss[2]}
    BY <1>2
  <2>2. QED
    BY <1>1, <2>1 DEF OpToRel
<1>3. \A y \in I : x =< y
  BY <1>2
<1>4. \E z \in I : \A y \in I : z =< y
  BY <1>3
<1>5. QED
  BY <1>4, Zenon DEF Min

\* RemoveFirst leaves a list.
LEMMA RemoveFirstType ==
  ASSUME NEW S, NEW s \in Seq(S), NEW e
  PROVE  RemoveFirst(s, e) \in Seq(S)
<1>1. CASE \E k \in 1..Len(s) : s[k] = e
  <2> DEFINE I == {k \in 1..Len(s) : s[k] = e}
  <2>1. I \in SUBSET Nat /\ I # {}
    BY <1>1
  <2>2. Min(I) \in 1..Len(s)
    BY <2>1, MinExists
  <2>3. RemoveFirst(s, e) = RemoveAt(s, Min(I))
    BY <1>1 DEF RemoveFirst, SelectInSeq
  <2>4. QED
    BY <2>2, <2>3, RemoveAtType
<1>2. CASE ~\E k \in 1..Len(s) : s[k] = e
  BY <1>2 DEF RemoveFirst
<1>3. QED
  BY <1>1, <1>2

-----------------------------------------------------------------------------
(* Types.                                                                  *)

\* Next, flattened into the actions of one thread.
LEMMA NextCases ==
  [Next]_vars =>
    \/ \E t \in Threads, command \in Commands, n \in Names :
         Begin(t, command, n)
    \/ \E t \in Threads :
         \/ LockOwnList(t) \/ SubGet(t) \/ SubPush(t) \/ SubJoin(t)
         \/ SubAdd(t) \/ ScanEnd(t) \/ ScanOther(t) \/ UnsDisband(t)
         \/ List(t) \/ DelMembers(t) \/ DelStrip(t) \/ DelRemove(t)
    \/ \E t \in Threads, c \in Channel :
         UnsFound(t, c) \/ ListFound(t, c) \/ DelFound(t, c)
    \/ UNCHANGED vars
  BY DEF Next, Step

\* Initially the types are right.
LEMMA TypeInit == Init => TypeInv
<1> SUFFICES ASSUME Init PROVE TypeInv
  OBVIOUS
<1> USE ThreadsAssumption, BoundsAssumption DEF Init, Channel, Labels
<1>1. LocalInv
  BY DEF LocalInv
<1>2. ListInv
  <2>1. made \in Seq(Names) /\ Len(made) = 0
    OBVIOUS
  <2>2. /\ channels \in [Users -> Seq(1..Len(made))]
        /\ users \in [Channel -> Seq(Users)]
    OBVIOUS
  <2>3. m_channels \subseteq 1..Len(made)
    OBVIOUS
  <2>4. QED
    BY <2>1, <2>2, <2>3 DEF ListInv
<1>3. LockInv
  <2>1. /\ channels_m \in [Users -> Threads \cup {"none"}]
        /\ users_m \in [Channel -> Threads \cup {"none"}]
    OBVIOUS
  <2>2. thrown \in BOOLEAN
    OBVIOUS
  <2>3. budget \in 0..MaxCommands
    OBVIOUS
  <2>4. QED
    BY <2>1, <2>2, <2>3 DEF LockInv
<1>4. QED
  BY <1>1, <1>2, <1>3 DEF TypeInv

\* A command that returns keeps the types of the locals.
LEMMA LocalReturn ==
  ASSUME LocalInv, NEW t \in Threads, Return(t), UNCHANGED made
  PROVE  LocalInv'
<1> USE BoundsAssumption DEF LocalInv, Return, Channel, Labels
<1>1. /\ pc' \in [Threads -> Labels]
      /\ call' \in [Threads -> Call \cup {NoCall}]
  OBVIOUS
<1>2. i' \in [Threads -> Nat \ {0}] /\ ch' \in [Threads -> 1..MaxChannels]
  OBVIOUS
<1>3. \A o \in Threads : pc'[o] # "idle" =>
        /\ pc'[o] = pc[o] /\ call'[o] = call[o] /\ ch'[o] = ch[o]
  OBVIOUS
<1>4. QED
  BY <1>1, <1>2, <1>3

\* So does one that goes on, if the channel it goes on with has been made.
LEMMA LocalGoto ==
  ASSUME LocalInv, NEW t \in Threads, pc[t] # "idle",
         NEW label \in Labels \ {"idle"}, Goto(t, label),
         i' \in [Threads -> Nat \ {0}], ch' \in [Threads -> Channel],
         \A o \in Threads : o # t => ch'[o] = ch[o],
         label \in {"join", "add", "disband"} => ch'[t] \in 1..Len(made'),
         Len(made) \in Nat, Len(made') \in Nat, Len(made) <= Len(made')
  PROVE  LocalInv'
<1> USE DEF LocalInv, Goto, Labels
<1>1. pc' \in [Threads -> Labels] /\ call' = call
  OBVIOUS
<1>2. \A o \in Threads : pc'[o] # "idle" => call'[o] \in Call
  OBVIOUS
<1>3. \A o \in Threads : pc'[o] \in {"join", "add", "disband"} =>
        ch'[o] \in 1..Len(made')
  OBVIOUS
<1>4. QED
  BY <1>1, <1>2, <1>3

\* The registry without a name.
LEMMA UnregisterSubset ==
  ASSUME NEW n, Unregister(n)
  PROVE  m_channels' \subseteq m_channels
  BY DEF Unregister

\* Every step keeps the types of the locals.
LEMMA LocalStep == TypeInv /\ [Next]_vars => LocalInv'
<1> SUFFICES ASSUME TypeInv, [Next]_vars PROVE LocalInv'
  OBVIOUS
<1> USE BoundsAssumption DEF TypeInv, Channel, Labels, lists
<1>0. LocalInv /\ Len(made) \in Nat /\ Len(made) <= MaxChannels
  BY DEF ListInv
<1>1. ASSUME NEW t \in Threads, NEW command \in Commands, NEW n \in Names,
             Begin(t, command, n)
      PROVE  LocalInv'
  BY <1>1 DEF Begin, LocalInv, Call
<1>2. ASSUME NEW t \in Threads, Return(t), UNCHANGED made PROVE LocalInv'
  BY <1>2, LocalReturn
<1>3. ASSUME NEW t \in Threads, pc[t] # "idle", UNCHANGED <<ch, made>>,
             i' \in [Threads -> Nat \ {0}],
             NEW label \in Labels \ {"idle", "join", "add", "disband"},
             Goto(t, label)
      PROVE  LocalInv'
  <2>1. ch' \in [Threads -> Channel]
    BY <1>3 DEF LocalInv
  <2>2. \A o \in Threads : o # t => ch'[o] = ch[o]
    BY <1>3
  <2>3. Len(made') = Len(made)
    BY <1>3
  <2>4. QED
    BY <1>0, <1>3, <2>1, <2>2, <2>3, LocalGoto
<1>4. ASSUME NEW t \in Threads, pc[t] # "idle", UNCHANGED <<i, made>>,
             NEW c \in 1..Len(made), ch' = [ch EXCEPT ![t] = c],
             NEW label \in Labels \ {"idle"}, Goto(t, label)
      PROVE  LocalInv'
  <2>1. /\ ch' \in [Threads -> Channel] /\ ch'[t] \in 1..Len(made')
        /\ \A o \in Threads : o # t => ch'[o] = ch[o]
    BY <1>4, <1>0 DEF LocalInv
  <2>2. i' \in [Threads -> Nat \ {0}]
    BY <1>4 DEF LocalInv
  <2>3. QED
    BY <1>0, <1>4, <2>1, <2>2, LocalGoto
<1>5. ASSUME NEW t \in Threads, LockOwnList(t) PROVE LocalInv'
  BY <1>2, <1>3, <1>5 DEF LockOwnList, LocalInv
<1>6. ASSUME NEW t \in Threads, SubGet(t) PROVE LocalInv'
  <2>1. CASE \E c \in First(Named(Name(t))) :
               ch' = [ch EXCEPT ![t] = c] /\ Goto(t, "join") /\ UNCHANGED i
    <3>1. First(Named(Name(t))) \subseteq 1..Len(made)
      BY DEF First, Named, ListInv
    <3>2. QED
      BY <1>4, <1>6, <2>1, <3>1 DEF SubGet
  <2>2. CASE Return(t)
    BY <1>2, <1>6, <2>2 DEF SubGet
  <2>3. CASE Goto(t, "push") /\ UNCHANGED <<i, ch>>
    BY <1>3, <1>6, <2>3 DEF SubGet, LocalInv
  <2>4. QED
    BY <1>6, <2>1, <2>2, <2>3 DEF SubGet
<1>7. ASSUME NEW t \in Threads, SubPush(t) PROVE LocalInv'
  <2>1. CASE NameFree(Name(t))
    <3>1. /\ made' = Append(made, Name(t)) /\ Len(made) < MaxChannels
          /\ ch' = [ch EXCEPT ![t] = Len(made) + 1] /\ Goto(t, "join")
          /\ UNCHANGED i /\ pc[t] # "idle"
      BY <1>7, <2>1 DEF SubPush, Register, Newest
    <3>2. Len(made') = Len(made) + 1
      BY <3>1 DEF ListInv
    <3>3. /\ ch' \in [Threads -> Channel] /\ ch'[t] \in 1..Len(made')
          /\ \A o \in Threads : o # t => ch'[o] = ch[o]
      BY <1>0, <3>1, <3>2 DEF LocalInv
    <3>4. i' \in [Threads -> Nat \ {0}]
      BY <3>1 DEF LocalInv
    <3>5. QED
      BY <1>0, <3>1, <3>2, <3>3, <3>4, LocalGoto
  <2>2. CASE ~NameFree(Name(t))
    BY <1>2, <1>7, <2>2 DEF SubPush
  <2>3. QED
    BY <2>1, <2>2
<1>8. ASSUME NEW t \in Threads, SubJoin(t) PROVE LocalInv'
  <2>1. ch[t] \in 1..Len(made) /\ UNCHANGED <<i, ch, made>>
    BY <1>8 DEF SubJoin, LocalInv
  <2>2. Goto(t, "add") /\ pc[t] # "idle"
    BY <1>8 DEF SubJoin
  <2>3. ch' = [ch EXCEPT ![t] = ch[t]]
    BY <2>1 DEF LocalInv
  <2>4. QED
    BY <1>4, <2>1, <2>2, <2>3
<1>9. ASSUME NEW t \in Threads, SubAdd(t) \/ ScanEnd(t) \/ List(t)
                                \/ UnsDisband(t) \/ DelRemove(t)
      PROVE  LocalInv'
  BY <1>2, <1>9 DEF SubAdd, ScanEnd, List, UnsDisband, DelRemove
<1>10. ASSUME NEW t \in Threads, ScanOther(t) \/ DelStrip(t) PROVE LocalInv'
  <2>1. i' = [i EXCEPT ![t] = @ + 1] /\ UNCHANGED <<pc, call, ch, made>>
    BY <1>10 DEF ScanOther, DelStrip
  <2>2. i' \in [Threads -> Nat \ {0}]
    BY <2>1 DEF LocalInv
  <2>3. QED
    BY <2>1, <2>2 DEF LocalInv
<1>11. ASSUME NEW t \in Threads, DelMembers(t) PROVE LocalInv'
  <2>1. i' \in [Threads -> Nat \ {0}]
    BY <1>11 DEF DelMembers, LocalInv
  <2>2. QED
    BY <1>3, <1>11, <2>1 DEF DelMembers
<1>12. ASSUME NEW t \in Threads, NEW c \in Channel,
              UnsFound(t, c) \/ ListFound(t, c) \/ DelFound(t, c)
       PROVE  LocalInv'
  <2>1. c \in 1..Len(made) /\ pc[t] # "idle"
    <3>1. UserOf[t] \in Users
      BY ThreadsAssumption
    <3>2. channels[UserOf[t]] \in Seq(1..Len(made))
      BY <3>1 DEF ListInv
    <3>3. /\ pc[t] = "scan" /\ i[t] <= Len(channels[UserOf[t]])
          /\ c = channels[UserOf[t]][i[t]]
      BY <1>12 DEF UnsFound, ListFound, DelFound, Found, Scanned, Mine, User
    <3>4. i[t] \in Nat \ {0}
      BY DEF LocalInv
    <3>5. QED
      BY <3>2, <3>3, <3>4
  <2>2. CASE Return(t) /\ UNCHANGED made
    BY <1>2, <2>2
  <2>3. CASE ~(Return(t) /\ UNCHANGED made)
    BY <1>4, <1>12, <2>1, <2>3 DEF UnsFound, ListFound, DelFound
  <2>4. QED
    BY <2>2, <2>3
<1>13. CASE UNCHANGED vars
  BY <1>13 DEF vars, local, LocalInv
<1>14. QED
  BY <1>1, <1>5, <1>6, <1>7, <1>8, <1>9, <1>10, <1>11, <1>12, <1>13,
     NextCases

\* Every step keeps the types of the lists.
LEMMA ListStep == TypeInv /\ [Next]_vars => ListInv'
<1> SUFFICES ASSUME TypeInv, [Next]_vars PROVE ListInv'
  OBVIOUS
<1> USE DEF TypeInv, Channel, lists
<1>1. ASSUME UNCHANGED <<made, channels, users>>,
             m_channels' \subseteq m_channels
      PROVE  ListInv'
  BY <1>1 DEF ListInv
<1>2. ASSUME NEW t \in Threads, SubPush(t) PROVE ListInv'
  <2>1. CASE NameFree(Name(t))
    <3>1. Name(t) \in Names
      BY <1>2 DEF SubPush, LocalInv, Name, Call
    <3>2. /\ made' = Append(made, Name(t)) /\ Len(made) < MaxChannels
          /\ m_channels' = m_channels \cup {Len(made) + 1}
          /\ UNCHANGED <<channels, users>>
      BY <1>2, <2>1 DEF SubPush, Register, Newest
    <3>3. /\ made' \in Seq(Names) /\ Len(made') = Len(made) + 1
          /\ Len(made) \in Nat
      BY <3>1, <3>2 DEF ListInv
    <3>4. 1..Len(made) \subseteq 1..Len(made')
      BY <3>3
    <3>5. channels' \in [Users -> Seq(1..Len(made'))]
      BY <3>2, <3>4, SeqWider DEF ListInv
    <3>6. m_channels' \subseteq 1..Len(made')
      <4>1. m_channels \subseteq 1..Len(made')
        BY <3>4 DEF ListInv
      <4>2. Len(made) + 1 \in 1..Len(made')
        BY <3>3
      <4>3. QED
        BY <3>2, <4>1, <4>2
    <3>7. Len(made') <= MaxChannels
      BY <3>2, <3>3, BoundsAssumption
    <3>8. QED
      BY <3>2, <3>3, <3>5, <3>6, <3>7 DEF ListInv
  <2>2. CASE ~NameFree(Name(t))
    BY <1>1, <1>2, <2>2 DEF SubPush
  <2>3. QED
    BY <2>1, <2>2
<1>3. ASSUME NEW t \in Threads, SubJoin(t) PROVE ListInv'
  <2>1. ch[t] \in 1..Len(made) /\ User(t) \in Users
    BY <1>3, ThreadsAssumption DEF SubJoin, LocalInv, User
  <2>2. channels' \in [Users -> Seq(1..Len(made))]
    BY <1>3, <2>1 DEF SubJoin, ListInv
  <2>3. QED
    BY <1>3, <2>2 DEF SubJoin, ListInv
<1>4. ASSUME NEW t \in Threads, SubAdd(t) PROVE ListInv'
  <2>1. ch[t] \in Channel /\ User(t) \in Users
    BY <1>4, ThreadsAssumption DEF LocalInv, User
  <2>2. users' \in [Channel -> Seq(Users)]
    BY <1>4, <2>1 DEF SubAdd, ListInv
  <2>3. QED
    BY <1>4, <2>2 DEF SubAdd, ListInv
<1>5. ASSUME NEW t \in Threads, NEW c \in Channel, UnsFound(t, c)
      PROVE  ListInv'
  <2>1. User(t) \in Users
    BY ThreadsAssumption DEF User
  <2>2. i[t] \in 1..Len(channels[User(t)])
    BY <1>5, <2>1 DEF UnsFound, Found, Scanned, Mine, ListInv, LocalInv
  <2>3. RemoveAt(channels[User(t)], i[t]) \in Seq(1..Len(made))
    BY <2>1, <2>2, RemoveAtType DEF ListInv
  <2>4. RemoveFirst(users[c], User(t)) \in Seq(Users)
    BY RemoveFirstType DEF ListInv
  <2>5. /\ channels' \in [Users -> Seq(1..Len(made))]
        /\ users' \in [Channel -> Seq(Users)]
    BY <1>5, <2>3, <2>4 DEF UnsFound, ListInv
  <2>6. QED
    BY <1>5, <2>5 DEF UnsFound, ListInv
<1>6. ASSUME NEW t \in Threads, DelStrip(t) PROVE ListInv'
  <2> DEFINE m == users[ch[t]][i[t]]
  <2>1. m \in Users
    BY <1>6 DEF DelStrip, ListInv, LocalInv
  <2>2. channels[m] \in Seq(1..Len(made))
    BY <2>1 DEF ListInv
  <2>3. channels[m] # <<>> => Tail(channels[m]) \in Seq(1..Len(made))
    BY <2>2, TailType
  <2>4. \/ channels' = channels
        \/ channels[m] # <<>> /\ channels' = [channels EXCEPT ![m] = Tail(@)]
    BY <1>6 DEF DelStrip
  <2>5. channels' \in [Users -> Seq(1..Len(made))]
    BY <2>1, <2>3, <2>4 DEF ListInv
  <2>6. QED
    BY <1>6, <2>5 DEF DelStrip, ListInv
<1>7. ASSUME NEW t \in Threads, UnsDisband(t) \/ DelRemove(t)
      PROVE  ListInv'
  BY <1>1, <1>7, UnregisterSubset DEF UnsDisband, DelRemove
<1>8. ASSUME NEW t \in Threads, LockOwnList(t) \/ SubGet(t) \/ ScanEnd(t)
                \/ ScanOther(t) \/ List(t) \/ DelMembers(t)
      PROVE  ListInv'
  BY <1>1, <1>8 DEF LockOwnList, SubGet, ScanEnd, ScanOther, List, DelMembers
<1>9. ASSUME NEW t \in Threads, NEW c \in Channel,
             ListFound(t, c) \/ DelFound(t, c)
      PROVE  ListInv'
  BY <1>1, <1>9 DEF ListFound, DelFound
<1>10. ASSUME NEW t \in Threads, NEW command \in Commands, NEW n \in Names,
              Begin(t, command, n)
       PROVE  ListInv'
  BY <1>1, <1>10 DEF Begin
<1>11. CASE UNCHANGED vars
  BY <1>1, <1>11 DEF vars
<1>12. QED
  BY <1>2, <1>3, <1>4, <1>5, <1>6, <1>7, <1>8, <1>9, <1>10, <1>11, NextCases

\* Every step keeps the types of the owners and of the rest.
LEMMA LockStep == TypeInv /\ [Next]_vars => LockInv'
<1> SUFFICES ASSUME TypeInv, [Next]_vars PROVE LockInv'
  OBVIOUS
<1> USE ThreadsAssumption DEF TypeInv, locks
<1>1. channels_m' \in [Users -> Threads \cup {"none"}]
  BY NextCases DEF Begin, LockOwnList, SubGet, SubPush, SubJoin, SubAdd,
     ScanEnd, ScanOther, UnsDisband, List, DelMembers, DelStrip, DelRemove,
     UnsFound, ListFound, DelFound, LockList, UnlockList, KeepList, User,
     LockInv, vars
<1>2. users_m' \in [Channel -> Threads \cup {"none"}]
  BY NextCases DEF Begin, LockOwnList, SubGet, SubPush, SubJoin, SubAdd,
     ScanEnd, ScanOther, UnsDisband, List, DelMembers, DelStrip, DelRemove,
     UnsFound, ListFound, DelFound, LockUsers, UnlockUsers, LockInv, vars
<1>3. thrown' \in BOOLEAN
  BY NextCases DEF Begin, LockOwnList, SubGet, SubPush, SubJoin, SubAdd,
     ScanEnd, ScanOther, UnsDisband, List, DelMembers, DelStrip, DelRemove,
     UnsFound, ListFound, DelFound, LockInv, vars
<1>4. budget' \in 0..MaxCommands
  BY NextCases, BoundsAssumption
     DEF Begin, LockOwnList, SubGet, SubPush, SubJoin, SubAdd, ScanEnd,
     ScanOther, UnsDisband, List, DelMembers, DelStrip, DelRemove, UnsFound,
     ListFound, DelFound, LockInv, vars
<1>5. QED
  BY <1>1, <1>2, <1>3, <1>4 DEF LockInv

LEMMA TypeStep == TypeInv /\ [Next]_vars => TypeInv'
  BY LocalStep, ListStep, LockStep DEF TypeInv

LEMMA TypesImplied == TypeInv => TypeOK
  BY DEF TypeInv, LocalInv, ListInv, LockInv, TypeOK

\* Type correctness: the lists only ever name channels that have been made,
\* every mutex has one owner, and the C arrays are indexed from 1 up.
THEOREM TypeCorrect == Spec => []TypeOK
<1>1. Init => TypeInv
  BY TypeInit
<1>2. TypeInv /\ [Next]_vars => TypeInv'
  BY TypeStep
<1>3. QED
  BY <1>1, <1>2, TypesImplied, PTL DEF Spec

-----------------------------------------------------------------------------
(* The registry.                                                           *)

\* A new channel is registered only under a free name.
LEMMA NamesStep ==
  TypeInv /\ NamesUnique /\ [Next]_vars => NamesUnique'
<1> SUFFICES ASSUME TypeInv, NamesUnique, [Next]_vars PROVE NamesUnique'
  OBVIOUS
<1> USE DEF NamesUnique
<1>1. CASE UNCHANGED made /\ m_channels' \subseteq m_channels
  BY <1>1
<1>2. ASSUME NEW t \in Threads, SubPush(t) PROVE NamesUnique'
  <2>1. CASE NameFree(Name(t))
    <3>1. /\ made' = Append(made, Name(t))
          /\ m_channels' = m_channels \cup {Len(made) + 1}
          /\ \A c \in m_channels : made[c] # Name(t)
      BY <1>2, <2>1
         DEF SubPush, Register, Newest, NameFree, Registered, Named
    <3>2. /\ made'[Len(made) + 1] = Name(t)
          /\ \A c \in m_channels : made'[c] = made[c] /\ c # Len(made) + 1
      BY <3>1 DEF TypeInv, ListInv
    <3>3. ASSUME NEW c \in m_channels', NEW d \in m_channels',
                 made'[c] = made'[d]
          PROVE  c = d
      <4>1. CASE c \in m_channels /\ d \in m_channels
        BY <3>2, <3>3, <4>1
      <4>2. CASE c \notin m_channels \/ d \notin m_channels
        <5>1. /\ c \in m_channels \/ c = Len(made) + 1
              /\ d \in m_channels \/ d = Len(made) + 1
          BY <3>1
        <5>2. QED
          BY <3>1, <3>2, <3>3, <4>2, <5>1
      <4>3. QED
        BY <4>1, <4>2
    <3>4. QED
      BY <3>3
  <2>2. CASE ~NameFree(Name(t))
    BY <1>1, <1>2, <2>2 DEF SubPush
  <2>3. QED
    BY <2>1, <2>2
<1>3. ASSUME NEW t \in Threads, UnsDisband(t) \/ DelRemove(t)
      PROVE  NamesUnique'
  BY <1>1, <1>3, UnregisterSubset DEF UnsDisband, DelRemove
<1>4. QED
  BY <1>1, <1>2, <1>3, NextCases DEF Begin, LockOwnList, SubGet, SubJoin,
     SubAdd, ScanEnd, ScanOther, List, DelMembers, DelStrip, UnsFound,
     ListFound, DelFound, vars, lists

\* For every number of users giving commands at once, the registry never
\* holds two channels of one name: push() repeats the look-up of get().
THEOREM RegistryUnique == Spec => []NamesUnique
<1>1. Init => TypeInv /\ NamesUnique
  BY TypeInit DEF Init, NamesUnique
<1>2. TypeInv /\ NamesUnique /\ [Next]_vars => (TypeInv /\ NamesUnique)'
  BY TypeStep, NamesStep
<1>3. QED
  BY <1>1, <1>2, PTL DEF Spec

\* Initially nothing is registered and no command runs.
LEMMA UsedInit == Init => UsedInv
  BY DEF Init, UsedInv, RegisteredIsUsed

\* A step of a thread that was not about to add or remove a channel keeps
\* RegisteredIsUsed, if a channel it empties is one it goes on to remove.
LEMMA UsedKept ==
  ASSUME RegisteredIsUsed, NEW t \in Threads,
         pc[t] \notin {"join", "add", "disband"},
         m_channels' \subseteq m_channels,
         \A o \in Threads : o # t => pc'[o] = pc[o] /\ ch'[o] = ch[o],
         \A c \in m_channels :
           users'[c] = <<>> =>
             users[c] = <<>> \/ (pc'[t] = "disband" /\ ch'[t] = c)
  PROVE  RegisteredIsUsed'
<1>1. ASSUME NEW c \in m_channels, users'[c] = <<>>
      PROVE  \E o \in Threads :
               pc'[o] \in {"join", "add", "disband"} /\ ch'[o] = c
  <2>1. CASE pc'[t] = "disband" /\ ch'[t] = c
    BY <2>1
  <2>2. CASE users[c] = <<>>
    <3>1. PICK o \in Threads :
            pc[o] \in {"join", "add", "disband"} /\ ch[o] = c
      BY <2>2 DEF RegisteredIsUsed
    <3>2. o # t
      BY <3>1
    <3>3. QED
      BY <3>1, <3>2
  <2>3. QED
    BY <1>1, <2>1, <2>2
<1>2. QED
  BY <1>1 DEF RegisteredIsUsed

\* Every step keeps the registered channels used.
LEMMA UsedStep ==
  TypeInv /\ NamesUnique /\ UsedInv /\ [Next]_vars => UsedInv'
<1> SUFFICES ASSUME TypeInv, NamesUnique, UsedInv, [Next]_vars
             PROVE  UsedInv'
  OBVIOUS
<1> DEFINE Ending(t) == pc[t] = "disband" => made[ch[t]] = Name(t)
<1>0. /\ pc \in [Threads -> Labels] /\ ch \in [Threads -> Channel]
      /\ i \in [Threads -> Nat \ {0}]
      /\ call \in [Threads -> Call \cup {NoCall}]
      /\ RegisteredIsUsed /\ \A t \in Threads : Ending(t)
  BY DEF TypeInv, LocalInv, UsedInv
\* A thread that returns or goes on, with the lists of users as they are.
<1>1. ASSUME NEW t \in Threads, pc[t] \notin {"join", "add", "disband"},
             \A o \in Threads : o # t =>
               pc'[o] = pc[o] /\ ch'[o] = ch[o] /\ call'[o] = call[o],
             pc'[t] # "disband",
             UNCHANGED <<made, users>>, m_channels' \subseteq m_channels
      PROVE  UsedInv'
  <2>1. RegisteredIsUsed'
    BY <1>0, <1>1, UsedKept
  <2>2. \A o \in Threads : Ending(o)'
    BY <1>0, <1>1 DEF Name
  <2>3. QED
    BY <2>1, <2>2 DEF UsedInv
<1> HIDE DEF Ending
<1>2. ASSUME NEW t \in Threads, NEW command \in Commands, NEW n \in Names,
             Begin(t, command, n)
      PROVE  UsedInv'
  BY <1>0, <1>1, <1>2 DEF Begin, lists
<1>3. ASSUME NEW t \in Threads,
             LockOwnList(t) \/ SubGet(t) \/ ScanEnd(t) \/ ScanOther(t)
               \/ List(t) \/ DelMembers(t) \/ DelStrip(t) \/ DelRemove(t)
      PROVE  UsedInv'
  <2>1. /\ UNCHANGED <<made, users>> /\ m_channels' \subseteq m_channels
        /\ pc[t] \notin {"join", "add", "disband"}
    BY <1>3, UnregisterSubset DEF LockOwnList, SubGet, ScanEnd, ScanOther,
       Scanned, List, DelMembers, DelStrip, DelRemove, lists
  <2>2. /\ pc'[t] # "disband"
        /\ \A o \in Threads : o # t =>
             pc'[o] = pc[o] /\ ch'[o] = ch[o] /\ call'[o] = call[o]
    BY <1>0, <1>3, <2>1 DEF LockOwnList, SubGet, ScanEnd, ScanOther, List,
       DelMembers, DelStrip, DelRemove, Goto, Return
  <2>3. QED
    BY <1>1, <2>1, <2>2
<1>4. ASSUME NEW t \in Threads, SubPush(t) PROVE UsedInv'
  <2>1. CASE NameFree(Name(t))
    <3>1. /\ made' = Append(made, Name(t))
          /\ m_channels' = m_channels \cup {Len(made) + 1}
          /\ pc'[t] = "join" /\ ch'[t] = Len(made) + 1
          /\ pc[t] = "push" /\ UNCHANGED <<users, call>>
          /\ \A o \in Threads : o # t => pc'[o] = pc[o] /\ ch'[o] = ch[o]
      BY <1>0, <1>4, <2>1 DEF SubPush, Register, Newest, Goto
    <3>2. \A c \in m_channels :
            \/ users'[c] # <<>>
            \/ \E o \in Threads :
                 pc'[o] \in {"join", "add", "disband"} /\ ch'[o] = c
      <4>1. ASSUME NEW c \in m_channels, users'[c] = <<>>
            PROVE  \E o \in Threads :
                     pc'[o] \in {"join", "add", "disband"} /\ ch'[o] = c
        <5>1. PICK o \in Threads :
                pc[o] \in {"join", "add", "disband"} /\ ch[o] = c
          BY <1>0, <3>1, <4>1 DEF RegisteredIsUsed
        <5>2. o # t
          BY <3>1, <5>1
        <5>3. QED
          BY <3>1, <5>1, <5>2
      <4>2. QED
        BY <4>1
    <3>3. RegisteredIsUsed'
      BY <3>1, <3>2 DEF RegisteredIsUsed
    <3>4. ASSUME NEW o \in Threads, pc'[o] = "disband"
          PROVE  made'[ch'[o]] = Name(o)'
      <4>1. o # t /\ pc[o] = "disband" /\ ch'[o] = ch[o]
        BY <3>1, <3>4
      <4>2. ch[o] \in 1..Len(made) /\ made[ch[o]] = Name(o)
        BY <1>0, <4>1 DEF TypeInv, LocalInv, Ending
      <4>3. made'[ch[o]] = made[ch[o]]
        BY <3>1, <4>2 DEF TypeInv, ListInv
      <4>4. QED
        BY <3>1, <4>1, <4>2, <4>3 DEF Name
    <3>5. QED
      BY <3>3, <3>4 DEF UsedInv
  <2>2. CASE ~NameFree(Name(t))
    BY <1>0, <1>1, <1>4, <2>2 DEF SubPush, Return
  <2>3. QED
    BY <2>1, <2>2
<1>5. ASSUME NEW t \in Threads, SubJoin(t) PROVE UsedInv'
  <2>1. /\ UNCHANGED <<made, m_channels, users, ch, call>>
        /\ pc[t] = "join" /\ pc'[t] = "add"
        /\ \A o \in Threads : o # t => pc'[o] = pc[o]
    BY <1>0, <1>5 DEF SubJoin, Goto
  <2>2. RegisteredIsUsed'
    BY <1>0, <2>1 DEF RegisteredIsUsed
  <2>3. \A o \in Threads : pc'[o] = "disband" => made'[ch'[o]] = Name(o)'
    BY <1>0, <2>1 DEF Ending, Name
  <2>4. QED
    BY <2>2, <2>3 DEF UsedInv
<1>6. ASSUME NEW t \in Threads, SubAdd(t) PROVE UsedInv'
  <2>1. /\ UNCHANGED <<made, m_channels>>
        /\ users' = [users EXCEPT ![ch[t]] = Append(@, User(t))]
        /\ pc'[t] = "idle"
        /\ \A o \in Threads : o # t =>
             pc'[o] = pc[o] /\ ch'[o] = ch[o] /\ call'[o] = call[o]
    BY <1>0, <1>6 DEF SubAdd, Return
  <2>2. /\ users'[ch[t]] # <<>>
        /\ \A c \in Channel : c # ch[t] => users'[c] = users[c]
    <3>1. /\ users \in [Channel -> Seq(Users)] /\ ch[t] \in Channel
          /\ User(t) \in Users
      BY <1>0, ThreadsAssumption DEF TypeInv, ListInv, User
    <3>2. Append(users[ch[t]], User(t)) # <<>>
      BY <3>1, AppendNotEmpty
    <3>3. QED
      BY <2>1, <3>1, <3>2
  <2>3. ASSUME NEW c \in m_channels, users'[c] = <<>>
        PROVE  \E o \in Threads :
                 pc'[o] \in {"join", "add", "disband"} /\ ch'[o] = c
    <3>1. c \in Channel /\ c # ch[t]
      BY <2>2, <2>3, BoundsAssumption DEF TypeInv, ListInv, Channel
    <3>2. PICK o \in Threads :
            pc[o] \in {"join", "add", "disband"} /\ ch[o] = c
      BY <1>0, <2>2, <2>3, <3>1 DEF RegisteredIsUsed
    <3>3. o # t
      BY <3>1, <3>2
    <3>4. QED
      BY <2>1, <3>2, <3>3
  <2>4. RegisteredIsUsed'
    BY <2>1, <2>3 DEF RegisteredIsUsed
  <2>5. \A o \in Threads : pc'[o] = "disband" => made'[ch'[o]] = Name(o)'
    BY <1>0, <2>1 DEF Ending, Name
  <2>6. QED
    BY <2>4, <2>5 DEF UsedInv
<1>7. ASSUME NEW t \in Threads, NEW c \in Channel, UnsFound(t, c)
      PROVE  UsedInv'
  <2>1. /\ UNCHANGED <<made, m_channels>>
        /\ users' = [users EXCEPT ![c] = RemoveFirst(@, User(t))]
        /\ pc[t] = "scan" /\ made[c] = Name(t)
    BY <1>7 DEF UnsFound, Found, Scanned
  <2>2. /\ users'[c] = <<>> =>
             pc'[t] = "disband" /\ ch'[t] = c /\ call'[t] = call[t]
        /\ users'[c] # <<>> => pc'[t] # "disband"
        /\ \A o \in Threads : o # t =>
             pc'[o] = pc[o] /\ ch'[o] = ch[o] /\ call'[o] = call[o]
    BY <1>0, <1>7 DEF UnsFound, Abandoned, Goto, Return
  <2>3. \A d \in Channel : d # c => users'[d] = users[d]
    BY <2>1 DEF TypeInv, ListInv
  <2>4. m_channels \subseteq Channel
    BY BoundsAssumption DEF TypeInv, ListInv, Channel
  <2>5. \A d \in m_channels :
          users'[d] = <<>> =>
            users[d] = <<>> \/ (pc'[t] = "disband" /\ ch'[t] = d)
    BY <2>2, <2>3, <2>4
  <2>6. RegisteredIsUsed'
    BY <1>0, <2>1, <2>2, <2>5, UsedKept
  <2>7. \A o \in Threads : pc'[o] = "disband" => made'[ch'[o]] = Name(o)'
    BY <1>0, <2>1, <2>2 DEF Ending, Name
  <2>8. QED
    BY <2>6, <2>7 DEF UsedInv
<1>8. ASSUME NEW t \in Threads, UnsDisband(t) PROVE UsedInv'
  <2>1. /\ UNCHANGED <<made, users>>
        /\ m_channels' = m_channels \ First(Named(Name(t)))
        /\ pc[t] = "disband" /\ pc'[t] = "idle"
        /\ \A o \in Threads : o # t =>
             pc'[o] = pc[o] /\ ch'[o] = ch[o] /\ call'[o] = call[o]
    BY <1>0, <1>8 DEF UnsDisband, Unregister, Return
  <2>2. ch[t] \notin m_channels'
    <3>1. CASE ch[t] \in m_channels
      <4>1. Named(Name(t)) = {ch[t]}
        BY <1>0, <2>1, <3>1 DEF Named, NamesUnique, Ending
      <4>2. ch[t] \in First(Named(Name(t)))
        BY <1>0, <4>1, BoundsAssumption DEF First, Channel
      <4>3. QED
        BY <2>1, <4>2
    <3>2. CASE ch[t] \notin m_channels
      BY <2>1, <3>2
    <3>3. QED
      BY <3>1, <3>2
  <2>3. ASSUME NEW c \in m_channels', users'[c] = <<>>
        PROVE  \E o \in Threads :
                 pc'[o] \in {"join", "add", "disband"} /\ ch'[o] = c
    <3>1. c \in m_channels /\ c # ch[t]
      BY <2>1, <2>2, <2>3
    <3>2. PICK o \in Threads :
            pc[o] \in {"join", "add", "disband"} /\ ch[o] = c
      BY <1>0, <2>1, <2>3, <3>1 DEF RegisteredIsUsed
    <3>3. o # t
      BY <3>1, <3>2
    <3>4. QED
      BY <2>1, <3>2, <3>3
  <2>4. RegisteredIsUsed'
    BY <2>3 DEF RegisteredIsUsed
  <2>5. \A o \in Threads : pc'[o] = "disband" => made'[ch'[o]] = Name(o)'
    BY <1>0, <2>1 DEF Ending, Name
  <2>6. QED
    BY <2>4, <2>5 DEF UsedInv
<1>9. ASSUME NEW t \in Threads, NEW c \in Channel,
             ListFound(t, c) \/ DelFound(t, c)
      PROVE  UsedInv'
  BY <1>0, <1>1, <1>9 DEF ListFound, DelFound, Found, Scanned, Goto, lists
<1>10. CASE UNCHANGED vars
  BY <1>0, <1>10 DEF vars, local, lists, UsedInv, RegisteredIsUsed, Name
<1>11. QED
  BY <1>2, <1>3, <1>4, <1>5, <1>6, <1>7, <1>8, <1>9, <1>10, NextCases

\* For every number of users, and with every command, no name is blocked by
\* a channel nobody is in: a registered channel has a user or a thread that
\* is about to add one or to remove the channel.
THEOREM NoAbandonedChannel == Spec => []RegisteredIsUsed
<1>1. Init => TypeInv /\ NamesUnique /\ UsedInv
  BY TypeInit, UsedInit DEF Init, NamesUnique
<1>2. TypeInv /\ NamesUnique /\ UsedInv /\ [Next]_vars
        => (TypeInv /\ NamesUnique /\ UsedInv)'
  BY TypeStep, NamesStep, UsedStep
<1>3. UsedInv => RegisteredIsUsed
  BY DEF UsedInv
<1>4. QED
  BY <1>1, <1>2, <1>3, PTL DEF Spec
-----------------------------------------------------------------------------
(* The names in a user's list.                                             *)

Holding == {"get", "push", "join", "add", "scan", "disband", "list"}
Adding  == {"get", "push", "join"}

\* A command that looked at the user's list still holds it, and a
\* /subscribe that found the name in none of its entries is still right.
HeldInv ==
  /\ \A t \in Threads : pc[t] \in Holding => channels_m[User(t)] = t
  /\ \A t \in Threads : pc[t] \in Adding => ~AlreadyIn(t)
  /\ \A t \in Threads : pc[t] = "join" => made[ch[t]] = Name(t)

\* Where the elements of a list without its k-th one were.
LEMMA RemoveAtElement ==
  ASSUME NEW S, NEW s \in Seq(S), NEW k \in 1..Len(s),
         NEW j \in DOMAIN RemoveAt(s, k)
  PROVE  /\ j < k => j \in DOMAIN s /\ RemoveAt(s, k)[j] = s[j]
         /\ j >= k => j + 1 \in DOMAIN s /\ RemoveAt(s, k)[j] = s[j + 1]
         /\ j \in Nat
<1> DEFINE a == SubSeq(s, 1, k-1)
           b == SubSeq(s, k+1, Len(s))
<1>1. /\ a \in Seq(S) /\ Len(a) = k - 1
      /\ \A n \in 1..(k-1) : a[n] = s[n]
  OBVIOUS
<1>2. /\ b \in Seq(S) /\ Len(b) = Len(s) - k
      /\ \A n \in 1..(Len(s)-k) : b[n] = s[n + k]
  OBVIOUS
<1>3. RemoveAt(s, k) = a \o b
  BY DEF RemoveAt
<1> HIDE DEF a, b
<1>4. j \in 1..(Len(s) - 1)
  BY <1>1, <1>2, <1>3
<1>5. CASE j < k
  BY <1>1, <1>2, <1>3, <1>4, <1>5
<1>6. CASE j >= k
  <2>1. (a \o b)[j] = b[j - (k - 1)]
    BY <1>1, <1>2, <1>4, <1>6
  <2>2. j - (k - 1) \in 1..(Len(s)-k) /\ (j - (k - 1)) + k = j + 1
    BY <1>4, <1>6
  <2>3. b[j - (k - 1)] = s[j + 1]
    BY <1>2, <2>2
  <2>4. j + 1 \in DOMAIN s /\ j \in Nat
    BY <1>4
  <2>5. QED
    BY <1>3, <1>6, <2>1, <2>3, <2>4
<1>7. QED
  BY <1>4, <1>5, <1>6

\* The elements of a tail.
LEMMA TailElement ==
  ASSUME NEW S, NEW s \in Seq(S), s # <<>>, NEW j \in DOMAIN Tail(s)
  PROVE  j \in Nat /\ j + 1 \in DOMAIN s /\ Tail(s)[j] = s[j + 1]
  OBVIOUS

\* The elements of a list with one more.
LEMMA AppendElement ==
  ASSUME NEW S, NEW s \in Seq(S), NEW e \in S, NEW j \in DOMAIN Append(s, e)
  PROVE  \/ j \in DOMAIN s /\ Append(s, e)[j] = s[j]
         \/ j = Len(s) + 1 /\ Append(s, e)[j] = e
  OBVIOUS

\* A step changes the list of a user only with the user's mutex: no list that
\* another thread holds.
LEMMA ListsHeld ==
  ASSUME TypeInv, HeldInv, NEW t \in Threads, NEW o \in Threads, o # t,
         pc[o] \in Holding,
         \/ SubJoin(t) \/ DelStrip(t) \/ \E c \in Channel : UnsFound(t, c)
  PROVE  channels'[User(o)] = channels[User(o)]
<1>1. /\ channels \in [Users -> Seq(1..Len(made))]
      /\ User(o) \in Users /\ User(t) \in Users
      /\ channels_m[User(o)] = o /\ o # "none"
  BY ThreadsAssumption DEF TypeInv, ListInv, HeldInv, User
<1>2. CASE SubJoin(t) \/ \E c \in Channel : UnsFound(t, c)
  <2>1. pc[t] \in Holding
    BY <1>2 DEF SubJoin, UnsFound, Found, Scanned, Holding
  <2>2. User(t) # User(o)
    BY <1>1, <2>1 DEF HeldInv
  <2>3. QED
    BY <1>1, <1>2, <2>2 DEF SubJoin, UnsFound
<1>3. CASE DelStrip(t)
  <2> DEFINE m == users[ch[t]][i[t]]
  <2>1. /\ channels_m[m] = "none"
        /\ \/ channels' = channels
           \/ channels' = [channels EXCEPT ![m] = Tail(@)]
    BY <1>3 DEF DelStrip
  <2>2. m # User(o)
    BY <1>1, <2>1
  <2>3. QED
    BY <1>1, <2>1, <2>2
<1>4. QED
  BY <1>2, <1>3

\* The locals and the mutex of another thread, in every step of t.
LEMMA OthersStay ==
  ASSUME TypeInv, HeldInv, NEW t \in Threads, NEW o \in Threads, o # t,
         pc[o] \in Holding,
         \/ \E command \in Commands, n \in Names : Begin(t, command, n)
         \/ LockOwnList(t) \/ SubGet(t) \/ SubPush(t) \/ SubJoin(t)
         \/ SubAdd(t) \/ ScanEnd(t) \/ ScanOther(t) \/ UnsDisband(t)
         \/ List(t) \/ DelMembers(t) \/ DelStrip(t) \/ DelRemove(t)
         \/ \E c \in Channel :
              UnsFound(t, c) \/ ListFound(t, c) \/ DelFound(t, c)
  PROVE  channels_m'[User(o)] = o
<1>1. /\ channels_m[User(o)] = o /\ o # "none"
      /\ User(o) \in Users /\ User(t) \in Users
      /\ channels_m \in [Users -> Threads \cup {"none"}]
  BY ThreadsAssumption DEF TypeInv, LockInv, HeldInv, User
<1>2. CASE LockOwnList(t)
  BY <1>1, <1>2 DEF LockOwnList, LockList
<1>3. CASE pc[t] \in Holding
  <2>1. User(t) # User(o)
    BY <1>1, <1>3 DEF HeldInv
  <2>2. \/ channels_m' = channels_m
        \/ channels_m' = [channels_m EXCEPT ![User(t)] = "none"]
    BY <1>3 DEF Begin, LockOwnList, SubGet, SubPush, SubJoin, SubAdd,
       ScanEnd, ScanOther, UnsDisband, List, DelMembers, DelStrip, DelRemove,
       UnsFound, ListFound, DelFound, UnlockList, KeepList, locks, Holding
  <2>3. QED
    BY <1>1, <2>1, <2>2
<1>4. CASE pc[t] \notin Holding /\ ~LockOwnList(t)
  <2>1. channels_m' = channels_m
    BY <1>4 DEF Begin, SubGet, SubPush, SubJoin, SubAdd, ScanEnd, ScanOther,
       Scanned, Found, UnsDisband, List, DelMembers, DelStrip, DelRemove,
       UnsFound, ListFound, DelFound, locks, Holding
  <2>2. QED
    BY <1>1, <2>1
<1>5. QED
  BY <1>2, <1>3, <1>4

\* A list of channels is one of the same names when another channel is made.
LEMMA NamesStay ==
  ASSUME ListInv, NEW n \in Names, made' = Append(made, n)
  PROVE  /\ \A c \in 1..Len(made) : made'[c] = made[c]
         /\ \A u \in Users : \A k \in DOMAIN channels[u] :
              channels[u][k] \in 1..Len(made)
  BY DEF ListInv

\* Every step keeps what a command holds and has found out.
LEMMA HeldStep == TypeInv /\ HeldInv /\ [Next]_vars => HeldInv'
<1> SUFFICES ASSUME TypeInv, HeldInv, [Next]_vars PROVE HeldInv'
  OBVIOUS
<1>0. /\ pc \in [Threads -> Labels] /\ ch \in [Threads -> Channel]
      /\ call \in [Threads -> Call \cup {NoCall}]
      /\ channels_m \in [Users -> Threads \cup {"none"}]
      /\ \A o \in Threads : User(o) \in Users
      /\ ListInv
  BY ThreadsAssumption DEF TypeInv, LocalInv, LockInv, User
<1> DEFINE Held(o) == pc[o] \in Holding => channels_m[User(o)] = o
           New(o)  == pc[o] \in Adding => ~AlreadyIn(o)
           To(o)   == pc[o] = "join" => made[ch[o]] = Name(o)
\* What another thread has found stays true as long as nothing is made.
<1>1. ASSUME NEW o \in Threads, pc'[o] = pc[o], ch'[o] = ch[o],
             call'[o] = call[o], UNCHANGED made,
             pc[o] \in Adding => channels'[User(o)] = channels[User(o)]
      PROVE  New(o)' /\ To(o)'
  BY <1>1 DEF HeldInv, AlreadyIn, Mine, Name, User
\* And when something is.
<1>2. ASSUME NEW o \in Threads, pc'[o] = pc[o], ch'[o] = ch[o],
             call'[o] = call[o], NEW n \in Names, made' = Append(made, n),
             UNCHANGED channels
      PROVE  New(o)' /\ To(o)'
  <2>1. /\ \A c \in 1..Len(made) : made'[c] = made[c]
        /\ \A k \in DOMAIN Mine(o) : Mine(o)[k] \in 1..Len(made)
    BY <1>0, <1>2, NamesStay DEF Mine
  <2>2. Mine(o)' = Mine(o) /\ Name(o)' = Name(o)
    BY <1>2 DEF Mine, Name, User
  <2>3. New(o)'
    BY <1>2, <2>1, <2>2 DEF HeldInv, AlreadyIn
  <2>4. pc[o] = "join" => ch[o] \in 1..Len(made)
    BY DEF TypeInv, LocalInv
  <2>5. To(o)'
    BY <1>2, <2>1, <2>2, <2>4 DEF HeldInv
  <2>6. QED
    BY <2>3, <2>5
\* A thread that neither adds nor makes anything.
<1>3. ASSUME NEW t \in Threads, Held(t)', pc'[t] \notin Adding,
             \A o \in Threads : o # t =>
               pc'[o] = pc[o] /\ ch'[o] = ch[o] /\ call'[o] = call[o],
             \A o \in Threads : o # t /\ pc[o] \in Holding =>
               /\ channels_m'[User(o)] = o
               /\ channels'[User(o)] = channels[User(o)],
             UNCHANGED made
      PROVE  HeldInv'
  <2>1. \A o \in Threads : Held(o)'
    BY <1>3 DEF User
  <2>2. \A o \in Threads : o # t => New(o)' /\ To(o)'
    BY <1>1, <1>3 DEF Holding, Adding
  <2>3. New(t)' /\ To(t)'
    BY <1>3 DEF Adding
  <2>4. QED
    BY <2>1, <2>2, <2>3 DEF HeldInv, User
<1> HIDE DEF Held, New, To
<1>4. ASSUME NEW t \in Threads, NEW command \in Commands, NEW n \in Names,
             Begin(t, command, n)
      PROVE  HeldInv'
  <2>1. pc'[t] = "lock" /\ UNCHANGED <<channels, channels_m, made>>
    BY <1>0, <1>4 DEF Begin, lists, locks
  <2>2. \A o \in Threads : o # t =>
          pc'[o] = pc[o] /\ ch'[o] = ch[o] /\ call'[o] = call[o]
    BY <1>0, <1>4 DEF Begin
  <2>3. Held(t)' /\ pc'[t] \notin Adding
    BY <2>1 DEF Held, Holding, Adding
  <2>4. QED
    BY <1>3, <1>4, <2>1, <2>2, <2>3, OthersStay
<1>5. ASSUME NEW t \in Threads, LockOwnList(t) PROVE HeldInv'
  <2>1. /\ UNCHANGED <<channels, made, ch>> \/ Return(t)
        /\ UNCHANGED <<channels, made>>
        /\ \A o \in Threads : o # t =>
             pc'[o] = pc[o] /\ ch'[o] = ch[o] /\ call'[o] = call[o]
    BY <1>0, <1>5 DEF LockOwnList, Goto, Return, lists
  <2>2. Held(t)'
    BY <1>0, <1>5
       DEF LockOwnList, Goto, Return, LockList, Held, Holding, User
  <2>3. \A o \in Threads : o # t /\ pc[o] \in Holding =>
          channels_m'[User(o)] = o
    BY <1>5, OthersStay
  <2>4. CASE pc'[t] \notin Adding
    BY <1>3, <2>1, <2>2, <2>3, <2>4
  <2>5. CASE pc'[t] \in Adding
    <3>1. pc'[t] = "get" /\ ~AlreadyIn(t) /\ UNCHANGED call
      BY <1>0, <1>5, <2>5 DEF LockOwnList, Goto, Return, Adding
    <3>2. New(t)' /\ To(t)'
      BY <2>1, <3>1 DEF New, To, AlreadyIn, Mine, Name, User
    <3>3. \A o \in Threads : Held(o)'
      BY <2>1, <2>2, <2>3 DEF Held, User
    <3>4. \A o \in Threads : o # t => New(o)' /\ To(o)'
      BY <1>1, <2>1
    <3>5. QED
      BY <3>2, <3>3, <3>4 DEF HeldInv, Held, New, To, User
  <2>6. QED
    BY <2>4, <2>5
<1>6. ASSUME NEW t \in Threads, SubGet(t) PROVE HeldInv'
  <2>1. /\ UNCHANGED <<channels, made>> /\ pc[t] = "get"
        /\ \A o \in Threads : o # t =>
             pc'[o] = pc[o] /\ ch'[o] = ch[o] /\ call'[o] = call[o]
    BY <1>0, <1>6 DEF SubGet, Goto, Return, lists
  <2>2. pc'[t] = "idle" \/ UNCHANGED <<call, channels_m>>
    BY <1>0, <1>6 DEF SubGet, Goto, Return
  <2>3. Held(t)'
    BY <2>1, <2>2 DEF HeldInv, Held, Holding, User
  <2>4. New(t)'
    BY <2>1, <2>2 DEF HeldInv, New, Adding, AlreadyIn, Mine, Name, User
  <2>5. To(t)'
    BY <1>0, <1>6, <2>1
       DEF SubGet, Goto, Return, To, First, Named, Name
  <2>6. \A o \in Threads : o # t /\ pc[o] \in Holding =>
          channels_m'[User(o)] = o
    BY <1>6, OthersStay
  <2>7. \A o \in Threads : o # t => Held(o)' /\ New(o)' /\ To(o)'
    BY <1>1, <2>1, <2>6 DEF Held, User
  <2>8. QED
    BY <2>3, <2>4, <2>5, <2>7 DEF HeldInv, Held, New, To, User
<1>7. ASSUME NEW t \in Threads, SubPush(t) PROVE HeldInv'
  <2>1. /\ UNCHANGED channels /\ pc[t] = "push"
        /\ \A o \in Threads : o # t =>
             pc'[o] = pc[o] /\ ch'[o] = ch[o] /\ call'[o] = call[o]
    BY <1>0, <1>7 DEF SubPush, Goto, Return
  <2>2. \A o \in Threads : o # t /\ pc[o] \in Holding =>
          channels_m'[User(o)] = o
    BY <1>7, OthersStay
  <2>3. CASE NameFree(Name(t))
    <3>1. /\ made' = Append(made, Name(t)) /\ ch'[t] = Len(made) + 1
          /\ pc'[t] = "join" /\ UNCHANGED <<call, channels_m>>
      BY <1>0, <1>7, <2>3 DEF SubPush, Register, Newest, Goto
    <3>2. Name(t) \in Names
      BY <2>1 DEF TypeInv, LocalInv, Name, Call
    <3>3. \A o \in Threads : o # t => New(o)' /\ To(o)'
      BY <1>2, <2>1, <3>1, <3>2
    <3>4. /\ \A c \in 1..Len(made) : made'[c] = made[c]
          /\ \A k \in DOMAIN Mine(t) : Mine(t)[k] \in 1..Len(made)
      BY <1>0, <3>1, <3>2, NamesStay DEF Mine
    <3>5. Mine(t)' = Mine(t) /\ Name(t)' = Name(t) /\ ~AlreadyIn(t)
      BY <2>1, <3>1 DEF Mine, Name, User, HeldInv, Adding
    <3>6. New(t)'
      BY <3>4, <3>5 DEF New, AlreadyIn
    <3>7. To(t)'
      BY <1>0, <3>1, <3>2, <3>5 DEF To, ListInv
    <3>8. \A o \in Threads : Held(o)'
      BY <2>1, <2>2, <3>1 DEF Held, HeldInv, Holding, User
    <3>9. QED
      BY <3>3, <3>6, <3>7, <3>8 DEF HeldInv, Held, New, To, User
  <2>4. CASE ~NameFree(Name(t))
    <3>1. pc'[t] = "idle" /\ UNCHANGED made
      BY <1>0, <1>7, <2>4 DEF SubPush, Return
    <3>2. Held(t)' /\ pc'[t] \notin Adding
      BY <3>1 DEF Held, Holding, Adding
    <3>3. QED
      BY <1>3, <2>1, <2>2, <3>1, <3>2
  <2>5. QED
    BY <2>3, <2>4
<1>8. ASSUME NEW t \in Threads,
             SubJoin(t) \/ DelStrip(t) \/ \E c \in Channel : UnsFound(t, c)
      PROVE  HeldInv'
  <2>1. \A o \in Threads : o # t /\ pc[o] \in Holding =>
          /\ channels_m'[User(o)] = o
          /\ channels'[User(o)] = channels[User(o)]
    BY <1>8, OthersStay, ListsHeld
  <2>2. /\ UNCHANGED made /\ pc'[t] \notin Adding
        /\ \A o \in Threads : o # t =>
             pc'[o] = pc[o] /\ ch'[o] = ch[o] /\ call'[o] = call[o]
    BY <1>0, <1>8 DEF SubJoin, DelStrip, UnsFound, Goto, Return, Adding
  <2>3. pc'[t] \in Holding => pc[t] \in Holding /\ UNCHANGED channels_m
    BY <1>0, <1>8 DEF SubJoin, DelStrip, UnsFound, Found, Scanned, KeepList,
       Goto, Return, locks, Holding
  <2>4. Held(t)'
    BY <2>3 DEF Held, HeldInv, User
  <2>5. QED
    BY <1>3, <2>1, <2>2, <2>4
<1>9. ASSUME NEW t \in Threads,
             \/ SubAdd(t) \/ ScanEnd(t) \/ ScanOther(t) \/ UnsDisband(t)
             \/ List(t) \/ DelMembers(t) \/ DelRemove(t)
             \/ \E c \in Channel : ListFound(t, c) \/ DelFound(t, c)
      PROVE  HeldInv'
  <2>1. UNCHANGED <<channels, made>>
    BY <1>9 DEF SubAdd, ScanEnd, ScanOther, UnsDisband, List, DelMembers,
       DelRemove, ListFound, DelFound, lists
  <2>2. /\ pc'[t] \notin Adding
        /\ \A o \in Threads : o # t =>
             pc'[o] = pc[o] /\ ch'[o] = ch[o] /\ call'[o] = call[o]
    BY <1>0, <1>9 DEF SubAdd, ScanEnd, ScanOther, Scanned, UnsDisband, List,
       DelMembers, DelRemove, ListFound, DelFound, Goto, Return, Adding
  <2>3. pc'[t] \in Holding => pc[t] \in Holding /\ UNCHANGED channels_m
    BY <1>0, <1>9 DEF SubAdd, ScanEnd, ScanOther, Scanned, UnsDisband, List,
       DelMembers, DelRemove, ListFound, DelFound, Found, Goto, Return, locks,
       Holding
  <2>4. Held(t)'
    BY <2>3 DEF Held, HeldInv, User
  <2>5. \A o \in Threads : o # t /\ pc[o] \in Holding =>
          channels_m'[User(o)] = o
    BY <1>9, OthersStay
  <2>6. QED
    BY <1>3, <2>1, <2>2, <2>4, <2>5
<1>10. CASE UNCHANGED vars
  BY <1>10 DEF vars, local, lists, locks, HeldInv, AlreadyIn, Mine, Name, User
<1>11. QED
  BY <1>4, <1>5, <1>6, <1>7, <1>8, <1>9, <1>10, NextCases

\* A list keeps its names apart when it loses an element, wherever.
LEMMA DropKeepsApart ==
  ASSUME NEW S, NEW s \in Seq(S), NEW f,
         \A j, k \in DOMAIN s : f[s[j]] = f[s[k]] => j = k
  PROVE  /\ \A n \in 1..Len(s) : \A j, k \in DOMAIN RemoveAt(s, n) :
              f[RemoveAt(s, n)[j]] = f[RemoveAt(s, n)[k]] => j = k
         /\ s # <<>> => \A j, k \in DOMAIN Tail(s) :
              f[Tail(s)[j]] = f[Tail(s)[k]] => j = k
<1>1. ASSUME NEW n \in 1..Len(s), NEW j \in DOMAIN RemoveAt(s, n),
             NEW k \in DOMAIN RemoveAt(s, n),
             f[RemoveAt(s, n)[j]] = f[RemoveAt(s, n)[k]]
      PROVE  j = k
  <2> DEFINE r == RemoveAt(s, n)
  <2>1. /\ j < n => j \in DOMAIN s /\ r[j] = s[j]
        /\ j >= n => j + 1 \in DOMAIN s /\ r[j] = s[j + 1]
        /\ j \in Nat
    BY RemoveAtElement
  <2>2. /\ k < n => k \in DOMAIN s /\ r[k] = s[k]
        /\ k >= n => k + 1 \in DOMAIN s /\ r[k] = s[k + 1]
        /\ k \in Nat
    BY RemoveAtElement
  <2>3. n \in Nat /\ f[r[j]] = f[r[k]]
    BY <1>1
  <2> HIDE DEF r
  <2>4. CASE j < n /\ k < n
    BY <2>1, <2>2, <2>3, <2>4
  <2>5. CASE j >= n /\ k >= n
    <3>1. j + 1 = k + 1
      BY <2>1, <2>2, <2>3, <2>5
    <3>2. QED
      BY <2>1, <2>2, <3>1
  <2>6. CASE j < n /\ k >= n
    <3>1. j = k + 1
      BY <2>1, <2>2, <2>3, <2>6
    <3>2. QED
      BY <2>1, <2>2, <2>3, <2>6, <3>1
  <2>7. CASE j >= n /\ k < n
    <3>1. j + 1 = k
      BY <2>1, <2>2, <2>3, <2>7
    <3>2. QED
      BY <2>1, <2>2, <2>3, <2>7, <3>1
  <2>8. QED
    BY <2>1, <2>2, <2>3, <2>4, <2>5, <2>6, <2>7
<1>2. ASSUME s # <<>>, NEW j \in DOMAIN Tail(s), NEW k \in DOMAIN Tail(s),
             f[Tail(s)[j]] = f[Tail(s)[k]]
      PROVE  j = k
  <2>1. /\ j \in Nat /\ j + 1 \in DOMAIN s /\ Tail(s)[j] = s[j + 1]
        /\ k \in Nat /\ k + 1 \in DOMAIN s /\ Tail(s)[k] = s[k + 1]
    BY <1>2, TailElement
  <2>2. j + 1 = k + 1
    BY <1>2, <2>1
  <2>3. QED
    BY <2>1, <2>2
<1>3. QED
  BY <1>1, <1>2

\* Every step keeps the names in a user's list apart: a channel is added to
\* it under the mutex it was searched under, and under the name searched for.
LEMMA ApartStep ==
  TypeInv /\ HeldInv /\ OnePerName /\ [Next]_vars => OnePerName'
<1> SUFFICES ASSUME TypeInv, HeldInv, OnePerName, [Next]_vars
             PROVE  OnePerName'
  OBVIOUS
<1> DEFINE Apart(u) == \A j, k \in DOMAIN channels[u] :
                         made[channels[u][j]] = made[channels[u][k]] => j = k
<1>0. /\ channels \in [Users -> Seq(1..Len(made))]
      /\ \A u \in Users : Apart(u)
      /\ \A t \in Threads : User(t) \in Users
      /\ i \in [Threads -> Nat \ {0}]
  BY ThreadsAssumption
     DEF TypeInv, ListInv, LocalInv, OnePerName, User
\* The list of one user has changed.
<1>1. ASSUME UNCHANGED made, NEW m \in Users, Apart(m)',
             \A u \in Users : u # m => channels'[u] = channels[u]
      PROVE  OnePerName'
  <2>1. \A u \in Users : Apart(u)'
    BY <1>0, <1>1
  <2>2. QED
    BY <2>1 DEF OnePerName
<1>2. CASE UNCHANGED <<made, channels>>
  BY <1>2 DEF OnePerName
<1>3. ASSUME NEW t \in Threads, SubPush(t) PROVE OnePerName'
  <2>1. CASE NameFree(Name(t))
    <3>1. made' = Append(made, Name(t)) /\ UNCHANGED channels
      BY <1>3, <2>1 DEF SubPush, Register
    <3>2. Name(t) \in Names
      BY <1>3 DEF SubPush, TypeInv, LocalInv, Name, Call
    <3>3. /\ \A c \in 1..Len(made) : made'[c] = made[c]
          /\ \A u \in Users : \A k \in DOMAIN channels[u] :
               channels[u][k] \in 1..Len(made)
      BY <3>1, <3>2, NamesStay DEF TypeInv
    <3>4. QED
      BY <3>1, <3>3 DEF OnePerName
  <2>2. CASE ~NameFree(Name(t))
    BY <1>2, <1>3, <2>2 DEF SubPush
  <2>3. QED
    BY <2>1, <2>2
<1>4. ASSUME NEW t \in Threads, SubJoin(t) PROVE OnePerName'
  <2> DEFINE s == channels[User(t)]
  <2>1. /\ s \in Seq(1..Len(made)) /\ ch[t] \in 1..Len(made)
        /\ made[ch[t]] = Name(t)
        /\ \A k \in DOMAIN s : made[s[k]] # Name(t)
    BY <1>0, <1>4 DEF SubJoin, HeldInv, TypeInv, LocalInv, Adding, AlreadyIn,
       Mine
  <2>2. /\ UNCHANGED made
        /\ channels'[User(t)] = Append(s, ch[t])
        /\ \A u \in Users : u # User(t) => channels'[u] = channels[u]
    BY <1>0, <1>4 DEF SubJoin
  <2>3. Apart(User(t))
    BY <1>0
  <2> HIDE DEF s
  <2>4. ASSUME NEW j \in DOMAIN Append(s, ch[t]),
               NEW k \in DOMAIN Append(s, ch[t]),
               made[Append(s, ch[t])[j]] = made[Append(s, ch[t])[k]]
        PROVE  j = k
    <3>1. \/ j \in DOMAIN s /\ Append(s, ch[t])[j] = s[j]
          \/ j = Len(s) + 1 /\ Append(s, ch[t])[j] = ch[t]
      BY <2>1, AppendElement
    <3>2. \/ k \in DOMAIN s /\ Append(s, ch[t])[k] = s[k]
          \/ k = Len(s) + 1 /\ Append(s, ch[t])[k] = ch[t]
      BY <2>1, AppendElement
    <3>3. QED
      BY <2>1, <2>3, <2>4, <3>1, <3>2 DEF s
  <2>5. Apart(User(t))'
    BY <2>2, <2>4 DEF User
  <2>6. QED
    BY <1>0, <1>1, <2>2, <2>5 DEF User
<1>5. ASSUME NEW t \in Threads, NEW c \in Channel, UnsFound(t, c)
      PROVE  OnePerName'
  <2> DEFINE s == channels[User(t)]
  <2>1. s \in Seq(1..Len(made)) /\ i[t] \in 1..Len(s)
    BY <1>0, <1>5 DEF UnsFound, Found, Scanned, Mine
  <2>2. /\ UNCHANGED made
        /\ channels'[User(t)] = RemoveAt(s, i[t])
        /\ \A u \in Users : u # User(t) => channels'[u] = channels[u]
    BY <1>0, <1>5 DEF UnsFound
  <2>3. \A j, k \in DOMAIN s : made[s[j]] = made[s[k]] => j = k
    BY <1>0
  <2> HIDE DEF s
  <2>4. \A j, k \in DOMAIN RemoveAt(s, i[t]) :
          made[RemoveAt(s, i[t])[j]] = made[RemoveAt(s, i[t])[k]] => j = k
    BY <2>1, <2>3, DropKeepsApart
  <2>5. Apart(User(t))'
    BY <2>2, <2>4 DEF User
  <2>6. QED
    BY <1>0, <1>1, <2>2, <2>5 DEF User
<1>6. ASSUME NEW t \in Threads, DelStrip(t) PROVE OnePerName'
  <2> DEFINE m == users[ch[t]][i[t]]
             s == channels[m]
  <2>1. m \in Users
    BY <1>6 DEF DelStrip, TypeInv, ListInv, LocalInv
  <2>2. /\ UNCHANGED made
        /\ \/ UNCHANGED channels
           \/ s # <<>> /\ channels' = [channels EXCEPT ![m] = Tail(@)]
    BY <1>6 DEF DelStrip
  <2>3. /\ s \in Seq(1..Len(made))
        /\ \A j, k \in DOMAIN s : made[s[j]] = made[s[k]] => j = k
    BY <1>0, <2>1
  <2>4. CASE s # <<>> /\ channels' = [channels EXCEPT ![m] = Tail(@)]
    <3>1. /\ channels'[m] = Tail(s)
          /\ \A u \in Users : u # m => channels'[u] = channels[u]
      BY <1>0, <2>1, <2>4
    <3> HIDE DEF s, m
    <3>2. \A j, k \in DOMAIN Tail(s) :
            made[Tail(s)[j]] = made[Tail(s)[k]] => j = k
      BY <2>3, <2>4, DropKeepsApart
    <3>3. \A u \in Users : Apart(u)'
      BY <1>0, <2>2, <3>1, <3>2
    <3>4. QED
      BY <3>3 DEF OnePerName
  <2>5. QED
    BY <1>2, <2>2, <2>4
<1>7. QED
  BY <1>2, <1>3, <1>4, <1>5, <1>6, NextCases DEF Begin, LockOwnList, SubGet,
     SubAdd, ScanEnd, ScanOther, UnsDisband, List, DelMembers, DelRemove,
     ListFound, DelFound, vars, lists

\* For every number of users and of connections a user gives commands on,
\* with every command, no user is ever in two channels of one name, however
\* many channels of that name have been made.
THEOREM OneNameEach == Spec => []OnePerName
<1>1. Init => TypeInv /\ HeldInv /\ OnePerName
  BY TypeInit DEF Init, HeldInv, OnePerName, Holding, Adding
<1>2. TypeInv /\ HeldInv /\ OnePerName /\ [Next]_vars
        => (TypeInv /\ HeldInv /\ OnePerName)'
  BY TypeStep, HeldStep, ApartStep
<1>3. QED
  BY <1>1, <1>2, PTL DEF Spec

-----------------------------------------------------------------------------
(* The two sides of a membership, where nothing is deleted.                *)

NoDelete == "delete" \notin Commands

\* Nothing is in a list twice.
Once(s) == \A j, k \in DOMAIN s : s[j] = s[k] => j = k

\* User u is in the list of neither side, or on the way from the first to the
\* second.
Joining(u, c) == \E t \in Threads : User(t) = u /\ pc[t] = "add" /\ ch[t] = c

MirrorInv ==
  /\ \A t \in Threads : pc[t] \notin {"members", "strip"}
  /\ \A c \in Channel : Once(users[c])
  /\ \A u \in Users, c \in Channel :
       /\ In(u, users[c]) <=> In(c, channels[u]) /\ ~Joining(u, c)
       /\ Joining(u, c) => In(c, channels[u])

\* A list without its k-th element has the others, once.
LEMMA RemoveAtIn ==
  ASSUME NEW S, NEW s \in Seq(S), NEW k \in 1..Len(s), Once(s)
  PROVE  /\ Once(RemoveAt(s, k))
         /\ \A x : In(x, RemoveAt(s, k)) <=> In(x, s) /\ x # s[k]
<1> DEFINE r == RemoveAt(s, k)
<1>1. k \in Nat /\ k \in DOMAIN s
  OBVIOUS
<1>2. r \in Seq(S) /\ Len(r) = Len(s) - 1
  <2> DEFINE a == SubSeq(s, 1, k-1)
             b == SubSeq(s, k+1, Len(s))
  <2>1. a \in Seq(S) /\ Len(a) = k - 1 /\ b \in Seq(S) /\ Len(b) = Len(s) - k
    OBVIOUS
  <2>2. r = a \o b
    BY DEF RemoveAt
  <2> HIDE DEF a, b, r
  <2>3. a \o b \in Seq(S) /\ Len(a \o b) = Len(a) + Len(b)
    BY <2>1
  <2>4. (k - 1) + (Len(s) - k) = Len(s) - 1
    BY <1>1
  <2>5. QED
    BY <2>1, <2>2, <2>3, <2>4
<1>3. \A j \in DOMAIN r :
        /\ j < k => j \in DOMAIN s /\ r[j] = s[j]
        /\ j >= k => j + 1 \in DOMAIN s /\ r[j] = s[j + 1]
        /\ j \in Nat
  BY RemoveAtElement
<1>4. Once(r)
  <2> DEFINE f == [x \in S |-> x]
  <2>1. \A j \in DOMAIN s : f[s[j]] = s[j]
    OBVIOUS
  <2>2. \A j \in DOMAIN r : f[r[j]] = r[j]
    BY <1>2
  <2> HIDE DEF f
  <2>3. \A j, l \in DOMAIN s : f[s[j]] = f[s[l]] => j = l
    BY <2>1 DEF Once
  <2>4. \A j, l \in DOMAIN r : f[r[j]] = f[r[l]] => j = l
    BY <2>3, DropKeepsApart
  <2>5. QED
    BY <2>2, <2>4 DEF Once
<1> HIDE DEF r
<1>5. ASSUME NEW j \in DOMAIN r PROVE In(r[j], s) /\ r[j] # s[k]
  <2>1. CASE j < k
    BY <1>1, <1>3, <2>1 DEF In, Once
  <2>2. CASE j >= k
    <3>1. j + 1 # k /\ j + 1 \in DOMAIN s /\ r[j] = s[j + 1]
      BY <1>1, <1>3, <2>2
    <3>2. QED
      BY <1>1, <3>1 DEF In, Once
  <2>3. QED
    BY <1>1, <1>3, <2>1, <2>2
<1>6. ASSUME NEW n \in DOMAIN s, s[n] # s[k] PROVE In(s[n], r)
  <2>0. n \in 1..Len(s) /\ Len(s) \in Nat /\ DOMAIN r = 1..(Len(s) - 1)
    BY <1>2
  <2>1. CASE n < k
    <3>1. n \in DOMAIN r
      BY <1>1, <2>0, <2>1
    <3>2. QED
      BY <1>3, <2>1, <3>1 DEF In
  <2>2. CASE n > k
    <3>1. n - 1 \in DOMAIN r /\ n - 1 >= k /\ (n - 1) + 1 = n
      BY <1>1, <2>0, <2>2
    <3>2. r[n - 1] = s[n]
      BY <1>3, <3>1
    <3>3. QED
      BY <3>1, <3>2 DEF In
  <2>3. QED
    BY <1>1, <1>6, <2>0, <2>1, <2>2
<1>7. ASSUME NEW x PROVE In(x, r) <=> In(x, s) /\ x # s[k]
  <2>1. In(x, r) => In(x, s) /\ x # s[k]
    BY <1>5 DEF In
  <2>2. In(x, s) /\ x # s[k] => In(x, r)
    BY <1>6 DEF In
  <2>3. QED
    BY <2>1, <2>2
<1>8. QED
  BY <1>4, <1>7 DEF r

\* A list with its first e removed has the others, once.
LEMMA RemoveFirstIn ==
  ASSUME NEW S, NEW s \in Seq(S), NEW e, Once(s)
  PROVE  /\ Once(RemoveFirst(s, e))
         /\ \A x : In(x, RemoveFirst(s, e)) <=> In(x, s) /\ x # e
<1>1. CASE \E k \in 1..Len(s) : s[k] = e
  <2> DEFINE I == {k \in 1..Len(s) : s[k] = e}
  <2>1. I \in SUBSET Nat /\ I # {}
    BY <1>1
  <2>2. Min(I) \in 1..Len(s) /\ s[Min(I)] = e
    BY <2>1, MinExists
  <2>3. RemoveFirst(s, e) = RemoveAt(s, Min(I))
    BY <1>1 DEF RemoveFirst, SelectInSeq
  <2>4. PICK n \in 1..Len(s) : s[n] = e /\ RemoveFirst(s, e) = RemoveAt(s, n)
    BY <2>2, <2>3
  <2>5. QED
    BY <2>4, RemoveAtIn
<1>2. CASE ~\E k \in 1..Len(s) : s[k] = e
  <2>1. RemoveFirst(s, e) = s
    BY <1>2 DEF RemoveFirst
  <2>2. ~In(e, s)
    BY <1>2 DEF In
  <2>3. QED
    BY <2>1, <2>2
<1>3. QED
  BY <1>1, <1>2

\* A list with one more.
LEMMA AppendIn ==
  ASSUME NEW S, NEW s \in Seq(S), NEW e \in S
  PROVE  /\ \A x : In(x, Append(s, e)) <=> In(x, s) \/ x = e
         /\ Once(s) /\ ~In(e, s) => Once(Append(s, e))
<1> DEFINE a == Append(s, e)
<1>1. /\ \A j \in DOMAIN s : j \in DOMAIN a /\ a[j] = s[j] /\ j # Len(s) + 1
      /\ Len(s) + 1 \in DOMAIN a /\ a[Len(s) + 1] = e
  OBVIOUS
<1>2. \A j \in DOMAIN a : \/ j \in DOMAIN s /\ a[j] = s[j]
                          \/ j = Len(s) + 1 /\ a[j] = e
  BY AppendElement
<1> HIDE DEF a
<1>3. ASSUME NEW x PROVE In(x, a) <=> In(x, s) \/ x = e
  BY <1>1, <1>2 DEF In
<1>4. Once(s) /\ ~In(e, s) => Once(a)
  BY <1>1, <1>2 DEF In, Once
<1>5. QED
  BY <1>3, <1>4 DEF a

\* While a thread holds a user's list nobody else is adding the user.
LEMMA JoiningAlone ==
  ASSUME TypeInv, HeldInv, NEW t \in Threads, pc[t] \in Holding,
         NEW o \in Threads, User(o) = User(t), pc[o] = "add"
  PROVE  o = t
  BY DEF HeldInv, Holding

\* A step that leaves the lists alone, of a thread that is adding nobody.
LEMMA MirrorKept ==
  ASSUME MirrorInv, UNCHANGED <<channels, users>>, NEW t \in Threads,
         pc[t] # "add", pc'[t] \notin {"add", "members", "strip"},
         \A o \in Threads : o # t => pc'[o] = pc[o] /\ ch'[o] = ch[o]
  PROVE  MirrorInv'
<1>1. \A u \in Users, c \in Channel : Joining(u, c)' <=> Joining(u, c)
  BY DEF Joining, User
<1>2. \A o \in Threads : pc'[o] \notin {"members", "strip"}
  BY DEF MirrorInv
<1>3. QED
  BY <1>1, <1>2 DEF MirrorInv, In, Once

\* Where nothing is deleted, every step keeps the two sides together.
LEMMA MirrorStep ==
  ASSUME NoDelete
  PROVE  TypeInv /\ HeldInv /\ OnePerName /\ MirrorInv /\ [Next]_vars
           => MirrorInv'
<1> SUFFICES ASSUME TypeInv, HeldInv, OnePerName, MirrorInv, [Next]_vars
             PROVE  MirrorInv'
  OBVIOUS
<1>0. /\ pc \in [Threads -> Labels] /\ ch \in [Threads -> Channel]
      /\ i \in [Threads -> Nat \ {0}]
      /\ channels \in [Users -> Seq(1..Len(made))]
      /\ users \in [Channel -> Seq(Users)]
      /\ 1..Len(made) \subseteq Channel
      /\ \A t \in Threads : User(t) \in Users
      /\ \A t \in Threads : pc[t] \notin {"members", "strip"}
  BY ThreadsAssumption, BoundsAssumption
     DEF TypeInv, LocalInv, ListInv, User, Channel, MirrorInv
<1>1. ASSUME NEW t \in Threads,
             \/ \E command \in Commands, n \in Names : Begin(t, command, n)
             \/ LockOwnList(t) \/ SubGet(t) \/ SubPush(t) \/ ScanEnd(t)
             \/ ScanOther(t) \/ UnsDisband(t) \/ List(t)
             \/ \E c \in Channel : ListFound(t, c)
      PROVE  MirrorInv'
  <2>1. UNCHANGED <<channels, users>> /\ pc[t] # "add"
    BY <1>1 DEF Begin, LockOwnList, SubGet, SubPush, ScanEnd, ScanOther,
       Scanned, UnsDisband, List, ListFound, Found, lists
  <2>2. /\ pc'[t] \notin {"add", "members", "strip"}
        /\ \A o \in Threads : o # t => pc'[o] = pc[o] /\ ch'[o] = ch[o]
    BY <1>0, <1>1 DEF Begin, LockOwnList, SubGet, SubPush, ScanEnd, ScanOther,
       Scanned, UnsDisband, List, ListFound, Goto, Return
  <2>3. QED
    BY <2>1, <2>2, MirrorKept
<1>2. ASSUME NEW t \in Threads,
             DelMembers(t) \/ DelStrip(t) \/ DelRemove(t)
      PROVE  FALSE
  BY <1>0, <1>2 DEF DelMembers, DelStrip, DelRemove
<1>3. ASSUME NEW t \in Threads, NEW c \in Channel, DelFound(t, c)
      PROVE  FALSE
  <2>1. pc[t] # "idle" /\ call[t].cmd = "delete"
    BY <1>3 DEF DelFound, Found, Scanned
  <2>2. call[t] \in Call
    BY <2>1 DEF TypeInv, LocalInv
  <2>3. QED
    BY <2>1, <2>2 DEF Call, NoDelete
<1>4. ASSUME NEW t \in Threads, SubJoin(t) PROVE MirrorInv'
  <2> DEFINE me == User(t)
             to == ch[t]
  <2>1. /\ channels' = [channels EXCEPT ![me] = Append(@, to)]
        /\ UNCHANGED <<users, ch>> /\ pc[t] = "join" /\ pc'[t] = "add"
        /\ \A o \in Threads : o # t => pc'[o] = pc[o]
    BY <1>0, <1>4 DEF SubJoin, Goto
  <2>2. me \in Users /\ to \in 1..Len(made) /\ to \in Channel
    BY <1>0, <2>1 DEF TypeInv, LocalInv
  <2>3. ~In(to, channels[me])
    BY <2>1 DEF HeldInv, Adding, AlreadyIn, Mine, In
  <2>4. \A c \in Channel : ~Joining(me, c)
    BY <2>1, JoiningAlone DEF Joining, Holding
  <2>5. /\ \A c : In(c, channels'[me]) <=> In(c, channels[me]) \/ c = to
        /\ \A u \in Users : u # me => channels'[u] = channels[u]
    <3>1. channels[me] \in Seq(1..Len(made))
      BY <1>0, <2>2
    <3>2. channels'[me] = Append(channels[me], to)
      BY <1>0, <2>1, <2>2
    <3>3. \A u \in Users : u # me => channels'[u] = channels[u]
      BY <1>0, <2>1
    <3> HIDE DEF me, to
    <3>4. QED
      BY <2>2, <3>1, <3>2, <3>3, AppendIn
  <2>6. \A u \in Users, c \in Channel :
          Joining(u, c)' <=> Joining(u, c) \/ (u = me /\ c = to)
    BY <2>1 DEF Joining, User
  <2> HIDE DEF me, to
  <2>7. ASSUME NEW u \in Users, NEW c \in Channel
        PROVE  /\ In(u, users'[c]) <=> In(c, channels'[u]) /\ ~Joining(u, c)'
               /\ Joining(u, c)' => In(c, channels'[u])
    <3>1. /\ In(u, users[c]) <=> In(c, channels[u]) /\ ~Joining(u, c)
          /\ Joining(u, c) => In(c, channels[u])
      BY <2>1 DEF MirrorInv
    <3>2. users' = users
      BY <2>1
    <3>3. CASE u = me
      BY <2>3, <2>4, <2>5, <2>6, <3>1, <3>2, <3>3
    <3>4. CASE u # me
      BY <2>5, <2>6, <3>1, <3>2, <3>4
    <3>5. QED
      BY <3>3, <3>4
  <2>8. /\ \A c \in Channel : Once(users'[c])
        /\ \A o \in Threads : pc'[o] \notin {"members", "strip"}
    BY <1>0, <2>1 DEF MirrorInv
  <2>9. QED
    BY <2>7, <2>8 DEF MirrorInv, In, Once
<1>5. ASSUME NEW t \in Threads, SubAdd(t) PROVE MirrorInv'
  <2> DEFINE me == User(t)
  <2>0. PICK to \in Channel : to = ch[t]
    BY <1>0
  <2>1. /\ users' = [users EXCEPT ![to] = Append(@, me)]
        /\ UNCHANGED channels /\ pc[t] = "add" /\ pc'[t] = "idle"
        /\ \A o \in Threads : o # t => pc'[o] = pc[o] /\ ch'[o] = ch[o]
    BY <1>0, <1>5, <2>0 DEF SubAdd, Return
  <2>2. me \in Users /\ Joining(me, to)
    BY <1>0, <2>0, <2>1 DEF Joining
  <2>3. In(to, channels[me]) /\ ~In(me, users[to])
    BY <2>2 DEF MirrorInv
  <2>4. \A c \in Channel : Joining(me, c) <=> c = to
    BY <2>0, <2>1, <2>2, JoiningAlone DEF Joining, Holding
  <2>5. /\ \A u : In(u, users'[to]) <=> In(u, users[to]) \/ u = me
        /\ \A c \in Channel : c # to => users'[c] = users[c]
        /\ Once(users'[to])
    BY <1>0, <2>1, <2>2, <2>3, AppendIn DEF MirrorInv
  <2>6. \A u \in Users, c \in Channel :
          Joining(u, c)' <=> Joining(u, c) /\ u # me
    <3>1. ASSUME NEW u \in Users, NEW c \in Channel, u # me
          PROVE  Joining(u, c)' <=> Joining(u, c)
      BY <2>1, <3>1 DEF Joining, User
    <3>2. ASSUME NEW c \in Channel, Joining(me, c)' PROVE FALSE
      <4>1. PICK o \in Threads : User(o) = me /\ pc'[o] = "add"
        BY <3>2 DEF Joining, User
      <4>2. o # t /\ pc[o] = "add"
        BY <2>1, <4>1
      <4>3. QED
        BY <2>1, <4>1, <4>2, JoiningAlone DEF Holding
    <3>3. QED
      BY <3>1, <3>2
  <2> HIDE DEF me
  <2>7. ASSUME NEW u \in Users, NEW c \in Channel
        PROVE  /\ In(u, users'[c]) <=> In(c, channels'[u]) /\ ~Joining(u, c)'
               /\ Joining(u, c)' => In(c, channels'[u])
    <3>1. /\ In(u, users[c]) <=> In(c, channels[u]) /\ ~Joining(u, c)
          /\ Joining(u, c) => In(c, channels[u])
      BY DEF MirrorInv
    <3>2. channels' = channels
      BY <2>1
    <3>3. CASE u = me
      BY <2>3, <2>4, <2>5, <2>6, <3>1, <3>2, <3>3
    <3>4. CASE u # me
      BY <2>5, <2>6, <3>1, <3>2, <3>4
    <3>5. QED
      BY <3>3, <3>4
  <2>8. /\ \A c \in Channel : Once(users'[c])
        /\ \A o \in Threads : pc'[o] \notin {"members", "strip"}
    BY <1>0, <2>1, <2>5 DEF MirrorInv
  <2>9. QED
    BY <2>7, <2>8 DEF MirrorInv, In, Once
<1>6. ASSUME NEW t \in Threads, NEW at \in Channel, UnsFound(t, at)
      PROVE  MirrorInv'
  <2> DEFINE me == User(t)
  <2>1. /\ channels' = [channels EXCEPT ![me] = RemoveAt(@, i[t])]
        /\ users' = [users EXCEPT ![at] = RemoveFirst(@, me)]
        /\ pc[t] = "scan" /\ pc'[t] \in {"disband", "idle"}
        /\ \A o \in Threads : o # t => pc'[o] = pc[o] /\ ch'[o] = ch[o]
        /\ i[t] <= Len(channels[me]) /\ at = channels[me][i[t]]
    BY <1>0, <1>6 DEF UnsFound, Found, Scanned, Mine, Goto, Return
  <2>2. /\ me \in Users /\ channels[me] \in Seq(1..Len(made))
        /\ i[t] \in 1..Len(channels[me])
    BY <1>0, <2>1
  <2>3. Once(channels[me]) /\ Once(users[at])
    BY <2>2 DEF OnePerName, Once, MirrorInv
  <2>4. /\ \A c : In(c, channels'[me]) <=> In(c, channels[me]) /\ c # at
        /\ \A u \in Users : u # me => channels'[u] = channels[u]
    <3>1. channels'[me] = RemoveAt(channels[me], i[t])
      BY <1>0, <2>1, <2>2
    <3>2. QED
      BY <1>0, <2>1, <2>2, <2>3, <3>1, RemoveAtIn
  <2>5. /\ \A u : In(u, users'[at]) <=> In(u, users[at]) /\ u # me
        /\ \A c \in Channel : c # at => users'[c] = users[c]
        /\ Once(users'[at])
    <3>1. users'[at] = RemoveFirst(users[at], me) /\ users[at] \in Seq(Users)
      BY <1>0, <2>1
    <3>2. QED
      BY <1>0, <2>1, <2>3, <3>1, RemoveFirstIn
  <2>6. \A c \in Channel : ~Joining(me, c)
    BY <2>1, JoiningAlone DEF Joining, Holding
  <2>7. \A u \in Users, c \in Channel : Joining(u, c)' <=> Joining(u, c)
    BY <2>1 DEF Joining, User
  <2> HIDE DEF me
  <2>8. ASSUME NEW u \in Users, NEW c \in Channel
        PROVE  /\ In(u, users'[c]) <=> In(c, channels'[u]) /\ ~Joining(u, c)'
               /\ Joining(u, c)' => In(c, channels'[u])
    <3>1. /\ In(u, users[c]) <=> In(c, channels[u]) /\ ~Joining(u, c)
          /\ Joining(u, c) => In(c, channels[u])
      BY DEF MirrorInv
    <3>2. In(u, users'[c]) <=> In(u, users[c]) /\ ~(u = me /\ c = at)
      BY <2>5
    <3>3. In(c, channels'[u]) <=> In(c, channels[u]) /\ ~(u = me /\ c = at)
      BY <2>4
    <3>4. QED
      BY <2>6, <2>7, <3>1, <3>2, <3>3
  <2>9. /\ \A c \in Channel : Once(users'[c])
        /\ \A o \in Threads : pc'[o] \notin {"members", "strip"}
    BY <1>0, <2>1, <2>5 DEF MirrorInv
  <2>10. QED
    BY <2>8, <2>9 DEF MirrorInv, In, Once
<1>7. CASE UNCHANGED vars
  BY <1>7 DEF vars, local, lists, MirrorInv, In, Once, Joining, User
<1>8. QED
  BY <1>1, <1>2, <1>3, <1>4, <1>5, <1>6, <1>7, NextCases

\* For every number of users, connections and channels: without /delete the
\* two lists of a membership agree whenever nobody holds the user's list.
THEOREM BothSidesAgree ==
  ASSUME NoDelete
  PROVE  Spec => []MembershipMirrored
<1>1. Init => TypeInv /\ HeldInv /\ OnePerName /\ MirrorInv
  <2>1. Init => MirrorInv
    BY DEF Init, MirrorInv, In, Once, Joining
  <2>2. QED
    BY <2>1, TypeInit DEF Init, HeldInv, OnePerName, Holding, Adding
<1>2. TypeInv /\ HeldInv /\ OnePerName /\ MirrorInv /\ [Next]_vars
        => (TypeInv /\ HeldInv /\ OnePerName /\ MirrorInv)'
  BY TypeStep, HeldStep, ApartStep, MirrorStep
<1>3. HeldInv /\ MirrorInv => MembershipMirrored
  <2> SUFFICES ASSUME HeldInv, MirrorInv, NEW u \in Users,
                      channels_m[u] = "none", NEW c \in Channel
               PROVE  In(c, channels[u]) <=> In(u, users[c])
    BY DEF MembershipMirrored
  <2>1. ~Joining(u, c)
    BY ThreadsAssumption DEF HeldInv, Holding, Joining
  <2>2. QED
    BY <2>1 DEF MirrorInv
<1>4. QED
  BY <1>1, <1>2, <1>3, PTL DEF Spec
-----------------------------------------------------------------------------
(* Who waits for whom.                                                     *)

\* A thread holds its user's list in a command that has looked at it, and the
\* users of a channel only while it removes that channel.
OwnInv ==
  /\ \A t \in Threads, u \in Users :
       channels_m[u] = t => pc[t] \in Holding /\ User(t) = u
  /\ \A t \in Threads, c \in Channel :
       users_m[c] = t => pc[t] = "disband" /\ ch[t] = c
  /\ \A t \in Threads : pc[t] \notin {"members", "strip"}

\* A step of one thread, by what it does to its own mutexes.
LEMMA OwnKept ==
  ASSUME TypeInv, OwnInv, NEW t \in Threads,
         \A o \in Threads : o # t => pc'[o] = pc[o] /\ ch'[o] = ch[o],
         pc'[t] \notin {"members", "strip"},
         \/ channels_m' = [channels_m EXCEPT ![User(t)] = "none"]
         \/ /\ channels_m' = [channels_m EXCEPT ![User(t)] = t]
            /\ pc'[t] \in Holding
         \/ /\ channels_m' = channels_m
            /\ pc[t] \in Holding => pc'[t] \in Holding,
         \/ users_m' = users_m /\ pc[t] # "disband"
         \/ users_m' = [users_m EXCEPT ![ch[t]] = "none"]
         \/ /\ users_m' = [users_m EXCEPT ![ch'[t]] = t]
            /\ pc[t] # "disband" /\ pc'[t] = "disband"
  PROVE  OwnInv'
<1>0. /\ channels_m \in [Users -> Threads \cup {"none"}]
      /\ users_m \in [Channel -> Threads \cup {"none"}]
      /\ "none" \notin Threads
  BY ThreadsAssumption DEF TypeInv, LockInv
<1>1. ASSUME NEW o \in Threads, NEW u \in Users, channels_m'[u] = o
      PROVE  pc'[o] \in Holding /\ User(o)' = u
  <2>1. CASE channels_m' = [channels_m EXCEPT ![User(t)] = "none"]
    BY <1>0, <1>1, <2>1 DEF OwnInv, User
  <2>2. CASE /\ channels_m' = [channels_m EXCEPT ![User(t)] = t]
             /\ pc'[t] \in Holding
    BY <1>0, <1>1, <2>2 DEF OwnInv, User
  <2>3. CASE /\ channels_m' = channels_m
             /\ pc[t] \in Holding => pc'[t] \in Holding
    BY <1>1, <2>3 DEF OwnInv, User
  <2>4. QED
    BY <2>1, <2>2, <2>3
<1>2. ASSUME NEW o \in Threads, NEW c \in Channel, users_m'[c] = o
      PROVE  pc'[o] = "disband" /\ ch'[o] = c
  <2>1. CASE users_m' = users_m /\ pc[t] # "disband"
    BY <1>2, <2>1 DEF OwnInv
  <2>2. CASE users_m' = [users_m EXCEPT ![ch[t]] = "none"]
    BY <1>0, <1>2, <2>2 DEF OwnInv
  <2>3. CASE /\ users_m' = [users_m EXCEPT ![ch'[t]] = t]
             /\ pc[t] # "disband" /\ pc'[t] = "disband"
    BY <1>0, <1>2, <2>3 DEF OwnInv
  <2>4. QED
    BY <2>1, <2>2, <2>3
<1>3. ASSUME NEW o \in Threads
      PROVE  pc'[o] \notin {"members", "strip"}
  BY <1>3 DEF OwnInv
<1>4. QED
  BY <1>1, <1>2, <1>3 DEF OwnInv

\* Where nothing is deleted, every step keeps it.
LEMMA OwnStep ==
  ASSUME NoDelete
  PROVE  TypeInv /\ OwnInv /\ [Next]_vars => OwnInv'
<1> SUFFICES ASSUME TypeInv, OwnInv, [Next]_vars PROVE OwnInv'
  OBVIOUS
<1>0. /\ pc \in [Threads -> Labels] /\ ch \in [Threads -> Channel]
      /\ \A t \in Threads : pc[t] \notin {"members", "strip"}
  BY DEF TypeInv, LocalInv, OwnInv
\* A command that ends with its user's list, and one that goes on with it.
<1>1. ASSUME NEW t \in Threads, Return(t), UnlockList(t), UNCHANGED users_m,
             pc[t] # "disband"
      PROVE  OwnInv'
  <2>1. /\ \A o \in Threads : o # t => pc'[o] = pc[o] /\ ch'[o] = ch[o]
        /\ pc'[t] = "idle"
    BY <1>0, <1>1 DEF Return
  <2>2. QED
    BY <1>1, <2>1, OwnKept DEF UnlockList
<1>2. ASSUME NEW t \in Threads, NEW label \in Holding, Goto(t, label),
             \A o \in Threads : o # t => ch'[o] = ch[o],
             UNCHANGED <<channels_m, users_m>>, pc[t] # "disband"
      PROVE  OwnInv'
  <2>1. /\ \A o \in Threads : o # t => pc'[o] = pc[o]
        /\ pc'[t] = label
    BY <1>0, <1>2 DEF Goto
  <2>2. QED
    BY <1>2, <2>1, OwnKept DEF Holding
<1>3. ASSUME NEW t \in Threads, NEW command \in Commands, NEW n \in Names,
             Begin(t, command, n)
      PROVE  OwnInv'
  <2>1. /\ \A o \in Threads : o # t => pc'[o] = pc[o] /\ ch'[o] = ch[o]
        /\ pc[t] = "idle" /\ pc'[t] = "lock"
        /\ UNCHANGED <<channels_m, users_m>>
    BY <1>0, <1>3 DEF Begin, locks
  <2>2. QED
    BY <2>1, OwnKept DEF Holding
<1>4. ASSUME NEW t \in Threads, LockOwnList(t) PROVE OwnInv'
  <2>1. /\ pc[t] = "lock" /\ UNCHANGED users_m
        /\ \/ /\ LockList(t) /\ UNCHANGED ch
              /\ Goto(t, "scan") \/ Goto(t, "get")
           \/ Return(t) /\ UNCHANGED channels_m
    BY <1>4 DEF LockOwnList
  <2>2. CASE /\ LockList(t) /\ UNCHANGED ch
             /\ Goto(t, "scan") \/ Goto(t, "get")
    <3>1. /\ \A o \in Threads : o # t => pc'[o] = pc[o] /\ ch'[o] = ch[o]
          /\ pc'[t] \in {"scan", "get"}
      BY <1>0, <2>2 DEF Goto
    <3>2. QED
      BY <2>1, <2>2, <3>1, OwnKept DEF LockList, Holding
  <2>3. CASE Return(t) /\ UNCHANGED channels_m
    <3>1. /\ \A o \in Threads : o # t => pc'[o] = pc[o] /\ ch'[o] = ch[o]
          /\ pc'[t] = "idle"
      BY <1>0, <2>3 DEF Return
    <3>2. QED
      BY <2>1, <2>3, <3>1, OwnKept DEF Holding
  <2>4. QED
    BY <2>1, <2>2, <2>3
<1>5. ASSUME NEW t \in Threads, SubGet(t) PROVE OwnInv'
  <2>1. CASE Return(t) /\ UnlockList(t)
    BY <1>1, <1>5, <2>1 DEF SubGet
  <2>2. CASE /\ Goto(t, "join") \/ Goto(t, "push")
             /\ UNCHANGED channels_m
             /\ UNCHANGED ch \/ \E c \in Channel : ch' = [ch EXCEPT ![t] = c]
    <3>1. \A o \in Threads : o # t => ch'[o] = ch[o]
      BY <1>0, <2>2
    <3>2. QED
      BY <1>2, <1>5, <2>2, <3>1 DEF SubGet, Holding
  <2>3. First(Named(Name(t))) \subseteq Channel
    <3>1. m_channels \subseteq 1..Len(made) /\ 1..Len(made) \subseteq Channel
      BY BoundsAssumption DEF TypeInv, ListInv, Channel
    <3>2. QED
      BY <3>1 DEF First, Named
  <2>4. QED
    BY <1>5, <2>1, <2>2, <2>3 DEF SubGet
<1>6. ASSUME NEW t \in Threads, SubPush(t) PROVE OwnInv'
  <2>1. CASE NameFree(Name(t))
    <3>1. /\ \A o \in Threads : o # t => ch'[o] = ch[o]
          /\ Goto(t, "join") /\ pc[t] = "push"
          /\ UNCHANGED <<channels_m, users_m>>
      BY <1>0, <1>6, <2>1 DEF SubPush
    <3>2. QED
      BY <1>2, <3>1 DEF Holding
  <2>2. CASE ~NameFree(Name(t))
    BY <1>1, <1>6, <2>2 DEF SubPush
  <2>3. QED
    BY <2>1, <2>2
<1>7. ASSUME NEW t \in Threads, SubJoin(t) PROVE OwnInv'
  BY <1>2, <1>7 DEF SubJoin, KeepList, Holding
<1>8. ASSUME NEW t \in Threads, SubAdd(t) \/ ScanEnd(t) \/ List(t)
      PROVE  OwnInv'
  BY <1>1, <1>8 DEF SubAdd, ScanEnd, List
<1>9. ASSUME NEW t \in Threads, ScanOther(t) PROVE OwnInv'
  BY <1>9 DEF ScanOther, OwnInv, locks, User
<1>10. ASSUME NEW t \in Threads, NEW c \in Channel, ListFound(t, c)
       PROVE  OwnInv'
  <2>1. /\ \A o \in Threads : o # t => ch'[o] = ch[o]
        /\ Goto(t, "list") /\ pc[t] = "scan"
        /\ UNCHANGED <<channels_m, users_m>>
    BY <1>0, <1>10 DEF ListFound, Found, Scanned, locks
  <2>2. QED
    BY <1>2, <2>1 DEF Holding
<1>11. ASSUME NEW t \in Threads, NEW c \in Channel, UnsFound(t, c)
       PROVE  OwnInv'
  <2>1. CASE Abandoned(c)
    <3>1. /\ ch' = [ch EXCEPT ![t] = c] /\ LockUsers(c, t)
          /\ Goto(t, "disband") /\ UNCHANGED channels_m /\ pc[t] = "scan"
      BY <1>11, <2>1 DEF UnsFound, Found, Scanned
    <3>2. /\ \A o \in Threads : o # t => pc'[o] = pc[o] /\ ch'[o] = ch[o]
          /\ pc'[t] = "disband" /\ ch'[t] = c
      BY <1>0, <3>1 DEF Goto
    <3>3. users_m' = [users_m EXCEPT ![ch'[t]] = t]
      BY <3>1, <3>2 DEF LockUsers
    <3>4. QED
      BY <3>1, <3>2, <3>3, OwnKept DEF Holding
  <2>2. CASE ~Abandoned(c)
    BY <1>1, <1>11, <2>2 DEF UnsFound, Found, Scanned
  <2>3. QED
    BY <2>1, <2>2
<1>12. ASSUME NEW t \in Threads, UnsDisband(t) PROVE OwnInv'
  <2>1. /\ \A o \in Threads : o # t => pc'[o] = pc[o] /\ ch'[o] = ch[o]
        /\ pc'[t] = "idle"
    BY <1>0, <1>12 DEF UnsDisband, Return
  <2>2. QED
    BY <1>12, <2>1, OwnKept DEF UnsDisband, UnlockUsers, UnlockList
<1>13. ASSUME NEW t \in Threads,
              DelMembers(t) \/ DelStrip(t) \/ DelRemove(t)
       PROVE  FALSE
  BY <1>0, <1>13 DEF DelMembers, DelStrip, DelRemove
<1>14. ASSUME NEW t \in Threads, NEW c \in Channel, DelFound(t, c)
       PROVE  FALSE
  <2>1. pc[t] # "idle" /\ call[t].cmd = "delete"
    BY <1>14 DEF DelFound, Found, Scanned
  <2>2. call[t] \in Call
    BY <2>1 DEF TypeInv, LocalInv
  <2>3. QED
    BY <2>1, <2>2 DEF Call, NoDelete
<1>15. CASE UNCHANGED vars
  BY <1>15 DEF vars, local, locks, OwnInv, User
<1>16. QED
  BY <1>3, <1>4, <1>5, <1>6, <1>7, <1>8, <1>9, <1>10, <1>11, <1>12, <1>13,
     <1>14, <1>15, NextCases

\* Who holds the users of a channel waits for nobody, and who holds the list
\* of a user waits for the users of a channel at most.
LEMMA WaitsAreShort == TypeInv /\ OwnInv => NoCircularWait
<1> SUFFICES ASSUME TypeInv, OwnInv PROVE NoCircularWait
  OBVIOUS
<1>0. /\ ch \in [Threads -> Channel] /\ i \in [Threads -> Nat \ {0}]
      /\ channels \in [Users -> Seq(1..Len(made))]
      /\ 1..Len(made) \subseteq Channel
      /\ \A t \in Threads : User(t) \in Users
  BY ThreadsAssumption, BoundsAssumption
     DEF TypeInv, LocalInv, ListInv, User, Channel
\* Whoever holds the users of a channel goes on.
<1>1. ASSUME NEW c \in Channel, NEW p \in Threads, users_m[c] = p
      PROVE  GoesOn(p)
  BY <1>1 DEF OwnInv, GoesOn, WaitsFor
\* Nobody waits for a list while he holds one.
<1>2. ASSUME NEW t \in Threads, NEW p \in Threads, WaitsFor(t, p),
             pc[t] # "lock"
      PROVE  \E c \in Channel : users_m[c] = p
  <2>1. CASE pc[t] = "scan"
    <3>1. /\ i[t] <= Len(Mine(t)) /\ users_m[Mine(t)[i[t]]] = p
          /\ Mine(t) \in Seq(1..Len(made)) /\ i[t] \in Nat \ {0}
      BY <1>0, <1>2, <2>1 DEF WaitsFor, Mine
    <3>2. Mine(t)[i[t]] \in Channel
      <4>1. Mine(t)[i[t]] \in 1..Len(made)
        BY <3>1
      <4>2. QED
        BY <1>0, <4>1
    <3>3. QED
      BY <3>1, <3>2
  <2>2. CASE pc[t] # "scan"
    BY <1>0, <1>2, <2>2 DEF WaitsFor, OwnInv
  <2>3. QED
    BY <2>1, <2>2
<1>3. ASSUME NEW t \in Threads, NEW o \in Threads, WaitsFor(t, o)
      PROVE  GoesOn(o) \/ \E p \in Threads : WaitsFor(o, p) /\ GoesOn(p)
  <2>1. CASE pc[t] # "lock"
    BY <1>1, <1>2, <1>3, <2>1
  <2>2. CASE pc[t] = "lock"
    <3>1. channels_m[User(t)] = o
      BY <1>3, <2>2 DEF WaitsFor
    <3>2. pc[o] \in Holding
      BY <1>0, <3>1 DEF OwnInv
    <3>3. pc[o] # "idle" /\ pc[o] # "lock"
      BY <3>2 DEF Holding
    <3>4. \A p \in Threads : WaitsFor(o, p) => GoesOn(p)
      BY <1>1, <1>2, <3>3
    <3>5. QED
      BY <3>3, <3>4 DEF GoesOn
  <2>3. QED
    BY <2>1, <2>2
<1>4. QED
  BY <1>3 DEF NoCircularWait

\* For every number of users, connections and channels: without /delete the
\* threads never wait for each other in a circle.
THEOREM NoDeadlock ==
  ASSUME NoDelete
  PROVE  Spec => []NoCircularWait
<1>1. Init => TypeInv /\ OwnInv
  <2>1. Init => OwnInv
    BY ThreadsAssumption DEF Init, OwnInv
  <2>2. QED
    BY <2>1, TypeInit
<1>2. TypeInv /\ OwnInv /\ [Next]_vars => (TypeInv /\ OwnInv)'
  BY TypeStep, OwnStep
<1>3. QED
  BY <1>1, <1>2, WaitsAreShort, PTL DEF Spec
=============================================================================

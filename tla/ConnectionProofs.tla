-------------------------- MODULE ConnectionProofs --------------------------
(***************************************************************************)
(* Proofs about module Connection, for every set of senders, all bounds    *)
(* and every capacity of the queue.                                        *)
(*                                                                         *)
(* The invariants of the model are not inductive by themselves. Six        *)
(* families of facts, each inductive given the ones before it, carry them: *)
(*   TypeInv    which labels a thread can be at, and that tx never         *)
(*              decrements an empty queue                                  *)
(*   LockInv    who owns which mutex is readable from the labels           *)
(*   CloseInv   one thread at most is inside the closing branch of         *)
(*              terminate(), and it closes an open descriptor              *)
(*   GcInv      what the collector has established at each of its labels   *)
(*   SpawnInv   that the threads run once the connection is constructed    *)
(*   QueueInv   (until a push and a pop overlap) what head, tail, size and *)
(*              sent have to do with each other                            *)
(***************************************************************************)
EXTENDS Connection, TLAPS

AcceptLabels ==
  {"construct", "set_ready", "insert", "serve", "join_gc", "done"}
SenderLabels ==
  {"idle", "lock_conns", "push", "grow", "store", "notify", "unlock_conns"}
RxLabels ==
  {"unspawned", "wait_ready", "loop", "reading", "handle", "send",
   "lock_conns", "push", "grow", "store", "notify", "unlock_conns",
   "graceful", "graceful_notify", "astray", "done"}
TxLabels ==
  {"unspawned", "wait_ready", "loop", "lock", "waiting", "relock", "drain",
   "commit", "write", "enter", "sending", "blocked", "astray", "check",
   "kill", "destroy", "kill_notify", "done"}
GcLabels ==
  {"idle", "before", "kill", "destroy", "kill_notify", "join_rx", "join_tx",
   "behind", "done"}

\* The labels of shutdown() for this connection; those of a whole pass, over
\* which the collector holds m_conns_m; those over which a sender holds it.
ShutdownSection == {"kill", "destroy", "kill_notify", "join_rx", "join_tx"}
GcSection == ShutdownSection \cup {"before", "behind"}
SendSection == {"push", "grow", "store", "notify", "unlock_conns"}

TypeInv ==
  /\ TypeOK
  /\ pc["accept"] \in AcceptLabels
  /\ pc["rx"] \in RxLabels
  /\ pc["tx"] \in TxLabels
  /\ pc["gc"] \in GcLabels
  /\ \A s \in Senders : pc[s] \in SenderLabels
  /\ pc["accept"] = "construct" =>
       pc["rx"] = "unspawned" /\ pc["tx"] = "unspawned"
  /\ pc["tx"] = "commit" => loaded["tx"] > 0

LockInv ==
  /\ pc["gc"] \in GcSection => m_conns_m = "gc"
  /\ \A s \in Senders : pc[s] \in SendSection => m_conns_m = s
  /\ \/ pc["rx"] = "unlock_conns"
     \/ pc["rx"] \in SendSection /\ rx_call = "message"
     => m_conns_m = "rx"
  /\ pc["rx"] = "send" => rx_call = "buff"
  /\ pc["rx"] = "lock_conns" => rx_call = "message"
  /\ \A t \in Pushers : pc[t] \in {"grow", "store"} <=> m_tx_queue_m = t

CloseInv ==
  /\ closes = IF sock = "open" THEN 0 ELSE 1
  /\ sock = "closed" => m_is_killed
  /\ \A t \in {"tx", "gc"} : pc[t] = "destroy" => m_is_killed /\ sock = "open"
  /\ ~(pc["tx"] = "destroy" /\ pc["gc"] = "destroy")
  /\ m_is_killed =>
       sock = "closed" \/ pc["tx"] = "destroy" \/ pc["gc"] = "destroy"
  /\ pc["tx"] = "astray" => sock = "closed"

GcInv ==
  /\ pc["gc"] \in ShutdownSection \ {"kill"} => m_is_killed
  /\ pc["gc"] = "join_tx" => pc["rx"] = "done"
  /\ pc["gc"] \in ShutdownSection => m_conns = gc_terminated
  /\ pc["gc"] = "done" => \A s \in Senders : pc[s] = "idle"
  /\ pc["accept"] \in {"construct", "set_ready", "insert"} =>
       /\ ~m_conns /\ ~deleted /\ pc["gc"] \notin ShutdownSection
       /\ \A s \in Senders : pc[s] \in {"idle", "lock_conns", "unlock_conns"}
  /\ deleted => ~m_conns \/ (gc_terminated /\ pc["gc"] \in {"behind", "done"})
  /\ DeletedIsQuiescent

\* Until a push and a pop overlap: size counts the payloads between tail and
\* head, but for the one a push_front or a pop_back is about to count; tx
\* holds the payload it popped last, and has written all those before it.
QueueInv ==
  ~overlapped =>
    /\ m_tx_queue_m = "none" =>
         head = tail + size - (IF pc["tx"] = "commit" THEN 1 ELSE 0)
    /\ \A t \in Pushers :
         /\ pc[t] \in {"grow", "store"} => pc["tx"] # "commit"
         /\ pc[t] = "grow" => head = tail + size
         /\ pc[t] = "store" => head = tail + size + 1 /\ loaded[t] = size
    /\ pc["tx"] = "commit" => loaded["tx"] = size
    /\ pc["tx"] \in {"commit", "write", "enter", "sending", "blocked"} =>
         tx_item = tail /\ tail > 0 /\ tail <= head
    /\ \/ pc["tx"] \in {"commit", "write", "enter"} /\ sock = "open"
       \/ pc["tx"] \in {"sending", "blocked"}
       => Len(sent) + 1 = tail
    /\ \/ pc["tx"] \in {"commit", "write", "enter", "sending", "blocked"}
       \/ sock = "open" => tx_terminated \/ Len(sent) = tail
    /\ tx_terminated =>
         pc["tx"] \in {"check", "kill", "destroy", "kill_notify", "done"}

SafetyInv == TypeInv /\ LockInv /\ CloseInv /\ GcInv

\* The threads run from the moment the connection is constructed.
SpawnInv ==
  pc["accept"] # "construct" =>
    pc["rx"] # "unspawned" /\ pc["tx"] # "unspawned"

-----------------------------------------------------------------------------
\* Next, flattened into the actions of the threads.
LEMMA NextCases ==
  [Next]_vars =>
    \/ AcceptConstruct
    \/ AcceptSetReady \/ AcceptInsert \/ AcceptStop \/ AcceptJoinGc
    \/ ClientClose \/ UNCHANGED vars
    \/ RxWaitReady \/ RxLoop \/ RxStray
    \/ RxRead \/ RxReadError \/ RxStrayEnds
    \/ RxSendBuff \/ RxGraceful \/ RxGracefulNotify
    \/ \E call \in Calls : RxCall(call)
    \/ \E t \in Pushers : PushLock(t)
    \/ \E t \in Pushers : PushGrow(t)
    \/ \E t \in Pushers : PushNoMemory(t)
    \/ \E t \in Pushers : PushStore(t)
    \/ \E t \in Pushers : PushNotify(t)
    \/ \E t \in Pushers : SendMsg(t)
    \/ \E t \in Pushers : UnlockConns(t)
    \/ \E s \in Senders : SenderCalls(s)
    \/ TxWaitReady \/ TxLoop \/ TxRelock \/ TxSpuriousWakeup
    \/ TxLock
    \/ TxPop
    \/ TxCommit
    \/ TxWrite \/ TxRoom \/ TxStray
    \/ TxSent
    \/ TxWriteError
    \/ TxStrayEnds
    \/ TxDrained \/ TxCheckGraceful
    \/ \E t \in {"tx", "gc"} : TerminateKill(t)
    \/ \E t \in {"tx", "gc"} : TerminateDestroy(t)
    \/ \E t \in {"tx", "gc"} : TerminateNotify(t)
    \/ GcWake
    \/ GcCollect \/ GcSkip
    \/ GcJoinRx
    \/ GcJoinTx
    \/ EndPass
  BY DEF Next, Owed, Free, AcceptSteps, Rx, Tx, Gc, GcPass, Push, Terminate,
         Pushers

-----------------------------------------------------------------------------
\* Initially the types are right.
LEMMA TypeInit == Init => TypeInv
<1> SUFFICES ASSUME Init PROVE TypeInv
  OBVIOUS
<1> USE SendersAssumption, BoundsAssumption
    DEF Init, Threads, Pushers, Labels, Calls, AcceptLabels, RxLabels,
        TxLabels, GcLabels, SenderLabels
<1>1. pc \in [Threads -> Labels] /\ loaded \in [Pushers \cup {"tx"} -> Nat]
  OBVIOUS
<1>2. /\ pc["accept"] = "construct" /\ pc["rx"] = "unspawned"
      /\ pc["tx"] = "unspawned" /\ pc["gc"] = "idle"
      /\ \A s \in Senders : pc[s] = "idle"
  OBVIOUS
<1>3. /\ m_is_ready \in BOOLEAN /\ m_is_killed \in BOOLEAN
      /\ m_is_gracefully_terminated \in BOOLEAN
      /\ m_is_running \in BOOLEAN /\ gc_terminated \in BOOLEAN
      /\ m_conns \in BOOLEAN /\ tx_initial \in BOOLEAN
      /\ tx_terminated \in BOOLEAN /\ deleted \in BOOLEAN
      /\ overlapped \in BOOLEAN
  OBVIOUS
<1>4. QED
  BY <1>1, <1>2, <1>3 DEF TypeInv, TypeOK

\* Every step keeps the types right.
LEMMA TypeStep == TypeInv /\ [Next]_vars => TypeInv'
<1> SUFFICES ASSUME TypeInv, [Next]_vars PROVE TypeInv'
  OBVIOUS
<1> USE SendersAssumption, BoundsAssumption
    DEF TypeInv, TypeOK, Threads, Pushers, Labels, Calls, AcceptLabels,
        RxLabels, TxLabels, GcLabels, SenderLabels, Goto, flags, pool, queue,
        txvars, net, budget, hist
<1>1. CASE AcceptConstruct
  BY <1>1 DEF AcceptConstruct
<1>2. CASE AcceptSetReady \/ AcceptInsert \/ AcceptStop \/ AcceptJoinGc
  <2>1. CASE AcceptSetReady
    BY <2>1 DEF AcceptSetReady
  <2>2. CASE AcceptInsert
    BY <2>2 DEF AcceptInsert
  <2>3. CASE AcceptStop
    <3>1. m_is_running' \in BOOLEAN
      BY <2>3 DEF AcceptStop
    <3>2. QED
      BY <2>3, <3>1 DEF AcceptStop
  <2>4. CASE AcceptJoinGc
    BY <2>4 DEF AcceptJoinGc
  <2>5. QED
    BY <1>2, <2>1, <2>2, <2>3, <2>4
<1>3. CASE ClientClose \/ UNCHANGED vars
  BY <1>3 DEF ClientClose, vars
<1>4. CASE RxWaitReady \/ RxLoop \/ RxStray
  <2>1. CASE RxWaitReady
    BY <2>1 DEF RxWaitReady
  <2>2. CASE RxLoop
    BY <2>2 DEF RxLoop
  <2>3. CASE RxStray
    BY <2>3 DEF RxStray
  <2>4. QED
    BY <1>4, <2>1, <2>2, <2>3
<1>5. CASE RxRead \/ RxReadError \/ RxStrayEnds
  <2>1. m_is_ready' \in BOOLEAN
    BY <1>5 DEF RxRead, RxReadError, RxStrayEnds, ReadyAfterReadError
  <2>2. /\ pc' \in [Threads -> Labels] /\ pc'["rx"] \in {"handle", "done"}
        /\ \A t \in Threads \ {"rx"} : pc'[t] = pc[t]
        /\ pc["accept"] # "construct"
    BY <1>5 DEF RxRead, RxReadError, RxStrayEnds
  <2>3. /\ pc'["accept"] = pc["accept"] /\ pc'["tx"] = pc["tx"]
        /\ pc'["gc"] = pc["gc"] /\ \A s \in Senders : pc'[s] = pc[s]
    BY <2>2
  <2>4. QED
    BY <1>5, <2>1, <2>2, <2>3 DEF RxRead, RxReadError, RxStrayEnds
<1>6. CASE RxSendBuff \/ RxGraceful \/ RxGracefulNotify
  <2>1. CASE RxSendBuff
    BY <2>1 DEF RxSendBuff
  <2>2. CASE RxGraceful
    BY <2>2 DEF RxGraceful
  <2>3. CASE RxGracefulNotify
    BY <2>3 DEF RxGracefulNotify, GotoNotifying
  <2>4. QED
    BY <1>6, <2>1, <2>2, <2>3
<1>7. CASE \E call \in Calls : RxCall(call)
  BY <1>7 DEF RxCall, Entry
<1>8. CASE \E t \in Pushers : PushLock(t)
  <2>1. PICK t \in Pushers : PushLock(t)
    BY <1>8
  <2>2. overlapped' \in BOOLEAN /\ process' \in {"up", "aborted", "undefined"}
    BY <2>1 DEF PushLock
  <2>3. /\ pc' \in [Threads -> Labels] /\ pc'[t] \in {"grow", "store"}
        /\ \A u \in Threads \ {t} : pc'[u] = pc[u]
        /\ pc[t] = "push" /\ (t = "rx" => pc["accept"] # "construct")
    BY <2>1 DEF PushLock
  <2>4. /\ head' \in Nat /\ loaded' \in [Pushers \cup {"tx"} -> Nat]
        /\ loaded'["tx"] = loaded["tx"] /\ m_tx_queue_m' \in Pushers
    BY <2>1 DEF PushLock
  <2>5. QED
    BY <2>1, <2>2, <2>3, <2>4 DEF PushLock
<1>9. CASE \E t \in Pushers : PushGrow(t)
  BY <1>9 DEF PushGrow
<1>10. CASE \E t \in Pushers : PushNoMemory(t)
  BY <1>10 DEF PushNoMemory
<1>11. CASE \E t \in Pushers : PushStore(t)
  BY <1>11 DEF PushStore, Incremented
<1>12. CASE \E t \in Pushers : PushNotify(t)
  <2>1. PICK t \in Pushers : PushNotify(t)
    BY <1>12
  <2>2. AfterPush(t) \in Labels
    BY DEF AfterPush
  <2>3. pc' \in [Threads -> Labels]
    BY <2>1, <2>2 DEF PushNotify, GotoNotifying
  <2>4. pc'["accept"] = pc["accept"] /\ pc'["gc"] \in GcLabels
    BY <2>1 DEF PushNotify, AfterPush, GotoNotifying
  <2>5. pc'["tx"] \in TxLabels /\ (pc'["tx"] = "commit" => pc["tx"] = "commit")
    BY <2>1 DEF PushNotify, AfterPush, GotoNotifying
  <2>6. pc'["rx"] \in RxLabels
    BY <2>1 DEF PushNotify, AfterPush, GotoNotifying
  <2>7. \A s \in Senders : pc'[s] \in SenderLabels
    BY <2>1 DEF PushNotify, AfterPush, GotoNotifying
  <2>8. pc["accept"] = "construct" =>
          pc'["rx"] = "unspawned" /\ pc'["tx"] = "unspawned"
    BY <2>1 DEF PushNotify, AfterPush, GotoNotifying
  <2>9. QED
    BY <2>1, <2>3, <2>4, <2>5, <2>6, <2>7, <2>8 DEF PushNotify
<1>13. CASE \E t \in Pushers : SendMsg(t)
  BY <1>13 DEF SendMsg
<1>14. CASE \E t \in Pushers : UnlockConns(t)
  BY <1>14 DEF UnlockConns
<1>15. CASE \E s \in Senders : SenderCalls(s)
  BY <1>15 DEF SenderCalls
<1>16. CASE TxWaitReady \/ TxLoop \/ TxRelock \/ TxSpuriousWakeup
  <2>1. CASE TxWaitReady
    BY <2>1 DEF TxWaitReady
  <2>2. CASE TxLoop
    BY <2>2 DEF TxLoop
  <2>3. CASE TxRelock
    BY <2>3 DEF TxRelock
  <2>4. CASE TxSpuriousWakeup
    BY <2>4 DEF TxSpuriousWakeup
  <2>5. QED
    BY <1>16, <2>1, <2>2, <2>3, <2>4
<1>17. CASE TxLock
  <2>1. tx_initial' \in BOOLEAN
    BY <1>17 DEF TxLock
  <2>2. pc' \in [Threads -> Labels] /\ pc'["tx"] \in {"drain", "waiting"}
    BY <1>17 DEF TxLock
  <2>3. QED
    BY <1>17, <2>1, <2>2 DEF TxLock
<1>18. CASE TxPop
  <2>1. overlapped' \in BOOLEAN /\ process' \in {"up", "aborted", "undefined"}
    BY <1>18 DEF TxPop
  <2>2. QED
    BY <1>18, <2>1 DEF TxPop, QueueNonEmpty
<1>19. CASE TxCommit
  BY <1>19 DEF TxCommit, Decremented
<1>20. CASE TxWrite \/ TxRoom \/ TxStray
  <2>1. CASE TxWrite
    BY <2>1 DEF TxWrite
  <2>2. CASE TxRoom
    BY <2>2 DEF TxRoom
  <2>3. CASE TxStray
    BY <2>3 DEF TxStray
  <2>4. QED
    BY <1>20, <2>1, <2>2, <2>3
<1>21. CASE TxSent
  BY <1>21 DEF TxSent, AfterDelete
<1>22. CASE TxWriteError
  <2>1. m_is_ready' \in BOOLEAN /\ tx_terminated' \in BOOLEAN
    BY <1>22 DEF TxWriteError, WriteFailed
  <2>2. QED
    BY <1>22, <2>1 DEF TxWriteError, WriteFailed, AfterWriteError, AfterDelete
<1>23. CASE TxStrayEnds
  <2>1. m_is_ready' \in BOOLEAN /\ tx_terminated' \in BOOLEAN
    BY <1>23 DEF TxStrayEnds, WriteFailed
  <2>2. QED
    BY <1>23, <2>1 DEF TxStrayEnds, WriteFailed, AfterWriteError, AfterDelete
<1>24. CASE TxDrained \/ TxCheckGraceful
  <2>1. CASE TxDrained
    BY <2>1 DEF TxDrained, QueueNonEmpty
  <2>2. CASE TxCheckGraceful
    BY <2>2 DEF TxCheckGraceful
  <2>3. QED
    BY <1>24, <2>1, <2>2
<1>25. CASE \E t \in {"tx", "gc"} : TerminateKill(t)
  BY <1>25 DEF TerminateKill, FirstToKill, AfterTerminate
<1>26. CASE \E t \in {"tx", "gc"} : TerminateDestroy(t)
  BY <1>26 DEF TerminateDestroy
<1>27. CASE \E t \in {"tx", "gc"} : TerminateNotify(t)
  <2>1. PICK t \in {"tx", "gc"} : TerminateNotify(t)
    BY <1>27
  <2>2. AfterTerminate(t) \in Labels
    BY DEF AfterTerminate
  <2>3. pc' \in [Threads -> Labels]
    BY <2>1, <2>2 DEF TerminateNotify, GotoNotifying
  <2>4. pc'["accept"] = pc["accept"] /\ pc'["gc"] \in GcLabels
    BY <2>1 DEF TerminateNotify, AfterTerminate, GotoNotifying
  <2>5. pc'["tx"] \in TxLabels /\ (pc'["tx"] = "commit" => pc["tx"] = "commit")
    BY <2>1 DEF TerminateNotify, AfterTerminate, GotoNotifying
  <2>6. pc'["rx"] \in RxLabels
    BY <2>1 DEF TerminateNotify, AfterTerminate, GotoNotifying
  <2>7. \A s \in Senders : pc'[s] \in SenderLabels
    BY <2>1 DEF TerminateNotify, AfterTerminate, GotoNotifying
  <2>8. pc["accept"] = "construct" =>
          pc'["rx"] = "unspawned" /\ pc'["tx"] = "unspawned"
    BY <2>1 DEF TerminateNotify, AfterTerminate, GotoNotifying
  <2>9. QED
    BY <2>1, <2>3, <2>4, <2>5, <2>6, <2>7, <2>8 DEF TerminateNotify
<1>28. CASE GcWake
  <2>1. gc_terminated' \in BOOLEAN
    BY <1>28 DEF GcWake
  <2>2. QED
    BY <1>28, <2>1 DEF GcWake
<1>29. CASE GcCollect \/ GcSkip
  <2>1. CASE GcCollect
    BY <2>1 DEF GcCollect, Collectable
  <2>2. CASE GcSkip
    BY <2>2 DEF GcSkip
  <2>3. QED
    BY <1>29, <2>1, <2>2
<1>30. CASE GcJoinRx
  BY <1>30 DEF GcJoinRx
<1>31. CASE GcJoinTx
  BY <1>31 DEF GcJoinTx, TxJoined
<1>32. CASE EndPass
  BY <1>32 DEF EndPass
<1>33. QED
  BY <1>1, <1>2, <1>3, <1>4, <1>5, <1>6, <1>7, <1>8, <1>9, <1>10, <1>11,
     <1>12, <1>13, <1>14, <1>15, <1>16, <1>17, <1>18, <1>19, <1>20, <1>21,
     <1>22, <1>23, <1>24, <1>25, <1>26, <1>27, <1>28, <1>29, <1>30, <1>31,
     <1>32, NextCases

-----------------------------------------------------------------------------
\* The mutexes are owned by the threads whose labels say so.
LEMMA LockInit == Init => LockInv
  BY SendersAssumption
  DEF Init, LockInv, Threads, Pushers, GcSection, ShutdownSection, SendSection

LEMMA LockStep == TypeInv /\ LockInv /\ [Next]_vars => LockInv'
<1> SUFFICES ASSUME TypeInv, LockInv, [Next]_vars PROVE LockInv'
  OBVIOUS
<1>1. /\ pc \in [Threads -> Labels]
      /\ m_tx_queue_m \in Pushers \cup {"none"}
      /\ rx_call \in Calls
      /\ \A s \in Senders : pc[s] \in SenderLabels
      /\ pc["gc"] \in GcLabels /\ pc["tx"] \in TxLabels
      /\ pc["accept"] = "construct" => pc["rx"] = "unspawned"
  BY DEF TypeInv, TypeOK
<1> HIDE DEF TypeInv
<1> USE <1>1, SendersAssumption
    DEF LockInv, Threads, Pushers, Calls, GcSection, ShutdownSection,
        SendSection, Goto, SenderLabels, GcLabels, TxLabels, flags, pool,
        queue, txvars, net, budget, hist
<1>2. CASE AcceptConstruct
  BY <1>2 DEF AcceptConstruct
<1>3. CASE AcceptSetReady \/ AcceptInsert \/ AcceptStop \/ AcceptJoinGc
  BY <1>3 DEF AcceptSetReady, AcceptInsert, AcceptStop, AcceptJoinGc
<1>4. CASE ClientClose \/ UNCHANGED vars
  BY <1>4 DEF ClientClose, vars
<1>5. CASE RxWaitReady \/ RxLoop \/ RxStray
  BY <1>5 DEF RxWaitReady, RxLoop, RxStray
<1>6. CASE RxRead \/ RxReadError \/ RxStrayEnds
  BY <1>6 DEF RxRead, RxReadError, RxStrayEnds, ReadyAfterReadError
<1>7. CASE RxSendBuff \/ RxGraceful \/ RxGracefulNotify
  BY <1>7 DEF RxSendBuff, RxGraceful, RxGracefulNotify, GotoNotifying
<1>8. CASE \E call \in Calls : RxCall(call)
  BY <1>8 DEF RxCall, Entry
<1>9. CASE \E t \in Pushers : PushLock(t)
  BY <1>9 DEF PushLock, Popping
<1>10. CASE \E t \in Pushers : PushGrow(t)
  BY <1>10 DEF PushGrow
<1>11. CASE \E t \in Pushers : PushNoMemory(t)
  BY <1>11 DEF PushNoMemory
<1>12. CASE \E t \in Pushers : PushStore(t)
  BY <1>12 DEF PushStore, Incremented
<1>13. CASE \E t \in Pushers : PushNotify(t)
  BY <1>13 DEF PushNotify, AfterPush, GotoNotifying
<1>14. CASE \E t \in Pushers : SendMsg(t)
  BY <1>14 DEF SendMsg
<1>15. CASE \E t \in Pushers : UnlockConns(t)
  BY <1>15 DEF UnlockConns
<1>16. CASE \E s \in Senders : SenderCalls(s)
  BY <1>16 DEF SenderCalls
<1>17. CASE TxWaitReady \/ TxLoop \/ TxRelock \/ TxSpuriousWakeup
  BY <1>17 DEF TxWaitReady, TxLoop, TxRelock, TxSpuriousWakeup
<1>18. CASE TxLock
  BY <1>18 DEF TxLock
<1>19. CASE TxPop
  BY <1>19 DEF TxPop, QueueNonEmpty
<1>20. CASE TxCommit
  BY <1>20 DEF TxCommit, Decremented
<1>21. CASE TxWrite \/ TxRoom \/ TxStray
  BY <1>21 DEF TxWrite, TxRoom, TxStray
<1>22. CASE TxSent
  BY <1>22 DEF TxSent, AfterDelete
<1>23. CASE TxWriteError
  BY <1>23 DEF TxWriteError, WriteFailed, AfterWriteError, AfterDelete
<1>24. CASE TxStrayEnds
  BY <1>24 DEF TxStrayEnds, WriteFailed, AfterWriteError, AfterDelete
<1>25. CASE TxDrained \/ TxCheckGraceful
  BY <1>25 DEF TxDrained, TxCheckGraceful, QueueNonEmpty
<1>26. CASE \E t \in {"tx", "gc"} : TerminateKill(t)
  BY <1>26 DEF TerminateKill, FirstToKill, AfterTerminate
<1>27. CASE \E t \in {"tx", "gc"} : TerminateDestroy(t)
  BY <1>27 DEF TerminateDestroy
<1>28. CASE \E t \in {"tx", "gc"} : TerminateNotify(t)
  BY <1>28 DEF TerminateNotify, AfterTerminate, GotoNotifying
<1>29. CASE GcWake
  BY <1>29 DEF GcWake
<1>30. CASE GcCollect \/ GcSkip
  BY <1>30 DEF GcCollect, GcSkip, Collectable
<1>31. CASE GcJoinRx
  BY <1>31 DEF GcJoinRx
<1>32. CASE GcJoinTx
  BY <1>32 DEF GcJoinTx, TxJoined
<1>33. CASE EndPass
  BY <1>33 DEF EndPass
<1>34. QED
  BY <1>2, <1>3, <1>4, <1>5, <1>6, <1>7, <1>8, <1>9, <1>10, <1>11, <1>12,
     <1>13, <1>14, <1>15, <1>16, <1>17, <1>18, <1>19, <1>20, <1>21, <1>22,
     <1>23, <1>24, <1>25, <1>26, <1>27, <1>28, <1>29, <1>30, <1>31, <1>32,
     <1>33, NextCases

-----------------------------------------------------------------------------
\* One thread at most closes the descriptor.
LEMMA CloseInit == Init => CloseInv
  BY SendersAssumption DEF Init, CloseInv, Threads, Pushers

LEMMA CloseStep == TypeInv /\ CloseInv /\ [Next]_vars => CloseInv'
<1> SUFFICES ASSUME TypeInv, CloseInv, [Next]_vars PROVE CloseInv'
  OBVIOUS
<1>1. /\ pc \in [Threads -> Labels]
      /\ sock \in {"open", "closed"} /\ m_is_killed \in BOOLEAN
      /\ pc["accept"] = "construct" => pc["tx"] = "unspawned"
  BY DEF TypeInv, TypeOK
<1> USE <1>1, SendersAssumption
    DEF CloseInv, Threads, Pushers, Goto, flags, pool, queue, txvars, net,
        budget, hist
<1>2. CASE AcceptConstruct
  BY <1>2 DEF AcceptConstruct
<1>3. CASE AcceptSetReady \/ AcceptInsert \/ AcceptStop \/ AcceptJoinGc
  BY <1>3 DEF AcceptSetReady, AcceptInsert, AcceptStop, AcceptJoinGc
<1>4. CASE ClientClose \/ UNCHANGED vars
  BY <1>4 DEF ClientClose, vars
<1>5. CASE RxWaitReady \/ RxLoop \/ RxStray
  BY <1>5 DEF RxWaitReady, RxLoop, RxStray
<1>6. CASE RxRead \/ RxReadError \/ RxStrayEnds
  BY <1>6 DEF RxRead, RxReadError, RxStrayEnds, ReadyAfterReadError
<1>7. CASE RxSendBuff \/ RxGraceful \/ RxGracefulNotify
  BY <1>7 DEF RxSendBuff, RxGraceful, RxGracefulNotify, GotoNotifying
<1>8. CASE \E call \in Calls : RxCall(call)
  BY <1>8 DEF RxCall, Entry
<1>9. CASE \E t \in Pushers : PushLock(t)
  BY <1>9 DEF PushLock, Popping
<1>10. CASE \E t \in Pushers : PushGrow(t)
  BY <1>10 DEF PushGrow
<1>11. CASE \E t \in Pushers : PushNoMemory(t)
  BY <1>11 DEF PushNoMemory
<1>12. CASE \E t \in Pushers : PushStore(t)
  BY <1>12 DEF PushStore, Incremented
<1>13. CASE \E t \in Pushers : PushNotify(t)
  BY <1>13 DEF PushNotify, AfterPush, GotoNotifying
<1>14. CASE \E t \in Pushers : SendMsg(t)
  BY <1>14 DEF SendMsg
<1>15. CASE \E t \in Pushers : UnlockConns(t)
  BY <1>15 DEF UnlockConns
<1>16. CASE \E s \in Senders : SenderCalls(s)
  BY <1>16 DEF SenderCalls
<1>17. CASE TxWaitReady \/ TxLoop \/ TxRelock \/ TxSpuriousWakeup
  BY <1>17 DEF TxWaitReady, TxLoop, TxRelock, TxSpuriousWakeup
<1>18. CASE TxLock
  BY <1>18 DEF TxLock
<1>19. CASE TxPop
  BY <1>19 DEF TxPop, QueueNonEmpty
<1>20. CASE TxCommit
  BY <1>20 DEF TxCommit, Decremented
<1>21. CASE TxWrite \/ TxRoom \/ TxStray
  BY <1>21 DEF TxWrite, TxRoom, TxStray
<1>22. CASE TxSent
  BY <1>22 DEF TxSent, AfterDelete
<1>23. CASE TxWriteError
  BY <1>23 DEF TxWriteError, WriteFailed, AfterWriteError, AfterDelete
<1>24. CASE TxStrayEnds
  BY <1>24 DEF TxStrayEnds, WriteFailed, AfterWriteError, AfterDelete
<1>25. CASE TxDrained \/ TxCheckGraceful
  BY <1>25 DEF TxDrained, TxCheckGraceful, QueueNonEmpty
<1>26. CASE \E t \in {"tx", "gc"} : TerminateKill(t)
  BY <1>26 DEF TerminateKill, FirstToKill, AfterTerminate
<1>27. CASE \E t \in {"tx", "gc"} : TerminateDestroy(t)
  BY <1>27 DEF TerminateDestroy
<1>28. CASE \E t \in {"tx", "gc"} : TerminateNotify(t)
  BY <1>28 DEF TerminateNotify, AfterTerminate, GotoNotifying
<1>29. CASE GcWake
  BY <1>29 DEF GcWake
<1>30. CASE GcCollect \/ GcSkip
  BY <1>30 DEF GcCollect, GcSkip, Collectable
<1>31. CASE GcJoinRx
  BY <1>31 DEF GcJoinRx
<1>32. CASE GcJoinTx
  BY <1>32 DEF GcJoinTx, TxJoined
<1>33. CASE EndPass
  BY <1>33 DEF EndPass
<1>34. QED
  BY <1>2, <1>3, <1>4, <1>5, <1>6, <1>7, <1>8, <1>9, <1>10, <1>11, <1>12,
     <1>13, <1>14, <1>15, <1>16, <1>17, <1>18, <1>19, <1>20, <1>21, <1>22,
     <1>23, <1>24, <1>25, <1>26, <1>27, <1>28, <1>29, <1>30, <1>31, <1>32,
     <1>33, NextCases

-----------------------------------------------------------------------------
\* The collector deletes a connection nobody can touch.
LEMMA GcInit == Init => GcInv
  BY SendersAssumption
  DEF Init, GcInv, DeletedIsQuiescent, ShutdownSection, Threads, Pushers

LEMMA GcStep ==
  TypeInv /\ LockInv /\ CloseInv /\ GcInv /\ [Next]_vars => GcInv'
<1> SUFFICES ASSUME TypeInv, LockInv, CloseInv, GcInv, [Next]_vars
             PROVE GcInv'
  OBVIOUS
<1>1. /\ pc \in [Threads -> Labels]
      /\ m_is_killed \in BOOLEAN /\ deleted \in BOOLEAN
      /\ m_conns \in BOOLEAN /\ gc_terminated \in BOOLEAN
      /\ \A s \in Senders : pc[s] \in SenderLabels
  BY DEF TypeInv, TypeOK
<1>2. /\ pc["gc"] \in GcSection => m_conns_m = "gc"
      /\ \A s \in Senders : pc[s] \in SendSection => m_conns_m = s
  BY DEF LockInv
<1>3. m_is_killed /\ pc["tx"] = "done" /\ pc["gc"] = "join_tx"
      => sock = "closed"
  BY DEF CloseInv
<1> USE <1>1, <1>2, SendersAssumption
    DEF GcInv, DeletedIsQuiescent, ShutdownSection, GcSection, SendSection,
        SenderLabels, Threads, Pushers, Goto, flags, pool, queue, txvars, net,
        budget, hist
<1>4. CASE AcceptConstruct
  BY <1>4 DEF AcceptConstruct
<1>5. CASE AcceptSetReady \/ AcceptInsert \/ AcceptStop \/ AcceptJoinGc
  BY <1>5 DEF AcceptSetReady, AcceptInsert, AcceptStop, AcceptJoinGc
<1>6. CASE ClientClose \/ UNCHANGED vars
  BY <1>6 DEF ClientClose, vars
<1>7. CASE RxWaitReady \/ RxLoop \/ RxStray
  BY <1>7 DEF RxWaitReady, RxLoop, RxStray
<1>8. CASE RxRead \/ RxReadError \/ RxStrayEnds
  BY <1>8 DEF RxRead, RxReadError, RxStrayEnds, ReadyAfterReadError
<1>9. CASE RxSendBuff \/ RxGraceful \/ RxGracefulNotify
  BY <1>9 DEF RxSendBuff, RxGraceful, RxGracefulNotify, GotoNotifying
<1>10. CASE \E call \in Calls : RxCall(call)
  BY <1>10 DEF RxCall, Entry
<1>11. CASE \E t \in Pushers : PushLock(t)
  BY <1>11 DEF PushLock, Popping
<1>12. CASE \E t \in Pushers : PushGrow(t)
  BY <1>12 DEF PushGrow
<1>13. CASE \E t \in Pushers : PushNoMemory(t)
  BY <1>13 DEF PushNoMemory
<1>14. CASE \E t \in Pushers : PushStore(t)
  BY <1>14 DEF PushStore, Incremented
<1>15. CASE \E t \in Pushers : PushNotify(t)
  BY <1>15 DEF PushNotify, AfterPush, GotoNotifying
<1>16. CASE \E t \in Pushers : SendMsg(t)
  <2>1. PICK t \in Pushers : SendMsg(t)
    BY <1>16
  <2>2. /\ pc["gc"] \notin GcSection /\ pc[t] = "lock_conns"
        /\ \A u \in Threads \ {t} : pc'[u] = pc[u]
    BY <2>1 DEF SendMsg
  <2>3. /\ ~deleted \/ pc'[t] = "unlock_conns"
        /\ ~m_conns => pc'[t] = "unlock_conns"
    BY <2>1, <2>2 DEF SendMsg
  <2>4. \A u \in {"accept", "gc", "tx"} : pc'[u] = pc[u]
    BY <2>2
  <2>5. pc["gc"] # "done" \/ t = "rx"
    BY <2>2
  <2>6. pc["rx"] = "done" => pc'["rx"] = "done"
    BY <2>2
  <2>7. QED
    BY <2>1, <2>2, <2>3, <2>4, <2>5, <2>6 DEF SendMsg
<1>17. CASE \E t \in Pushers : UnlockConns(t)
  BY <1>17 DEF UnlockConns
<1>18. CASE \E s \in Senders : SenderCalls(s)
  BY <1>18 DEF SenderCalls
<1>19. CASE TxWaitReady \/ TxLoop \/ TxRelock \/ TxSpuriousWakeup
  BY <1>19 DEF TxWaitReady, TxLoop, TxRelock, TxSpuriousWakeup
<1>20. CASE TxLock
  BY <1>20 DEF TxLock
<1>21. CASE TxPop
  BY <1>21 DEF TxPop, QueueNonEmpty
<1>22. CASE TxCommit
  BY <1>22 DEF TxCommit, Decremented
<1>23. CASE TxWrite \/ TxRoom \/ TxStray
  BY <1>23 DEF TxWrite, TxRoom, TxStray
<1>24. CASE TxSent
  BY <1>24 DEF TxSent, AfterDelete
<1>25. CASE TxWriteError
  BY <1>25 DEF TxWriteError, WriteFailed, AfterWriteError, AfterDelete
<1>26. CASE TxStrayEnds
  BY <1>26 DEF TxStrayEnds, WriteFailed, AfterWriteError, AfterDelete
<1>27. CASE TxDrained \/ TxCheckGraceful
  BY <1>27 DEF TxDrained, TxCheckGraceful, QueueNonEmpty
<1>28. CASE \E t \in {"tx", "gc"} : TerminateKill(t)
  BY <1>28 DEF TerminateKill, FirstToKill, AfterTerminate
<1>29. CASE \E t \in {"tx", "gc"} : TerminateDestroy(t)
  BY <1>29 DEF TerminateDestroy
<1>30. CASE \E t \in {"tx", "gc"} : TerminateNotify(t)
  BY <1>30 DEF TerminateNotify, AfterTerminate, GotoNotifying
<1>31. CASE GcWake
  BY <1>31 DEF GcWake
<1>32. CASE GcCollect \/ GcSkip
  BY <1>32 DEF GcCollect, GcSkip, Collectable
<1>33. CASE GcJoinRx
  BY <1>33 DEF GcJoinRx
<1>34. CASE GcJoinTx
  <2>1. pc["rx"] = "done" /\ pc["tx"] = "done" /\ sock = "closed"
    BY <1>3, <1>34 DEF GcJoinTx, TxJoined
  <2>2. \A s \in Senders : pc[s] \in {"idle", "lock_conns"}
    BY <1>34 DEF GcJoinTx
  <2>3. QED
    BY <1>34, <2>1, <2>2 DEF GcJoinTx
<1>35. CASE EndPass
  <2>1. /\ \A t \in Threads \ {"gc"} : pc'[t] = pc[t]
        /\ pc'["gc"] = IF gc_terminated THEN "done" ELSE "idle"
        /\ pc["gc"] = "behind"
    BY <1>35 DEF EndPass
  <2>2. pc'["gc"] \notin ShutdownSection
    BY <2>1
  <2>3. pc'["gc"] = "done" => \A s \in Senders : pc'[s] = "idle"
    BY <1>35, <2>1 DEF EndPass
  <2>4. deleted => ~m_conns \/ (gc_terminated /\ pc'["gc"] = "done")
    BY <2>1
  <2>5. QED
    BY <1>35, <2>1, <2>2, <2>3, <2>4 DEF EndPass
<1>36. QED
  BY <1>4, <1>5, <1>6, <1>7, <1>8, <1>9, <1>10, <1>11, <1>12, <1>13, <1>14,
     <1>15, <1>16, <1>17, <1>18, <1>19, <1>20, <1>21, <1>22, <1>23, <1>24,
     <1>25, <1>26, <1>27, <1>28, <1>29, <1>30, <1>31, <1>32, <1>33, <1>34,
     <1>35, NextCases

-----------------------------------------------------------------------------
\* The first four families of facts hold in every reachable state.
LEMMA SafetyInvariant == Spec => []SafetyInv
<1>1. Init => SafetyInv
  BY TypeInit, LockInit, CloseInit, GcInit DEF SafetyInv
<1>2. SafetyInv /\ [Next]_vars => SafetyInv'
  BY TypeStep, LockStep, CloseStep, GcStep DEF SafetyInv
<1>3. QED
  BY <1>1, <1>2, PTL DEF Spec

\* The types of the connection's fields, of the locals of its threads and of
\* the pool's mutexes; in particular size never goes below zero although the
\* two threads that change it may overlap.
THEOREM TypeCorrect == Spec => []TypeOK
<1>1. SafetyInv => TypeOK
  BY DEF SafetyInv, TypeInv
<1>2. QED
  BY <1>1, SafetyInvariant, PTL

\* terminate(), run by tx and by gc in any interleaving, closes the descriptor
\* at most once.
THEOREM ClosedOnce == Spec => []SocketClosedOnce
<1>1. SafetyInv => SocketClosedOnce
  BY DEF SafetyInv, CloseInv, SocketClosedOnce
<1>2. QED
  BY <1>1, SafetyInvariant, PTL

\* However many connections deliver to it, a connection is deleted only when
\* no thread can touch it any more.
THEOREM DeletedQuiescent == Spec => []DeletedIsQuiescent
<1>1. SafetyInv => DeletedIsQuiescent
  BY DEF SafetyInv, GcInv
<1>2. QED
  BY <1>1, SafetyInvariant, PTL

-----------------------------------------------------------------------------
\* What the collector waits for.

\* A thread that runs is never unspawned again.
LEMMA SpawnStep == TypeInv /\ SpawnInv /\ [Next]_vars => SpawnInv'
<1> SUFFICES ASSUME TypeInv, SpawnInv, [Next]_vars PROVE SpawnInv'
  OBVIOUS
<1>0. /\ pc \in [Threads -> Labels]
      /\ {"accept", "rx", "tx", "gc"} \subseteq Threads
      /\ Senders \subseteq Threads /\ Pushers = Senders \cup {"rx"}
      /\ Senders \cap {"accept", "rx", "tx", "gc", "none"} = {}
  BY SendersAssumption DEF TypeInv, TypeOK, Threads, Pushers
<1> USE DEF SpawnInv
<1>1. CASE AcceptConstruct
  BY <1>0, <1>1 DEF AcceptConstruct
<1>2. CASE AcceptSetReady \/ AcceptInsert \/ AcceptStop \/ AcceptJoinGc
  BY <1>0, <1>2
     DEF AcceptSetReady, AcceptInsert, AcceptStop, AcceptJoinGc, Goto
<1>3. CASE \/ ClientClose \/ UNCHANGED vars
           \/ \E t \in Pushers : PushNoMemory(t)
  BY <1>3 DEF ClientClose, vars, PushNoMemory
\* One thread goes on from one label to another, and may wake up tx.
<1>4. ASSUME NEW t \in Threads \ {"accept"},
             NEW label \in Labels \ {"unspawned"},
             Goto(t, label) \/ GotoNotifying(t, label)
      PROVE  SpawnInv'
  BY <1>0, <1>4 DEF Goto, GotoNotifying
<1> USE DEF Labels
<1>5. CASE \/ RxWaitReady \/ RxLoop \/ RxStray
           \/ RxRead \/ RxReadError \/ RxStrayEnds
           \/ RxSendBuff \/ RxGraceful \/ RxGracefulNotify
           \/ \E call \in Calls : RxCall(call)
  BY <1>0, <1>4, <1>5 DEF RxWaitReady, RxLoop, RxStray, RxRead, RxReadError,
     RxStrayEnds, RxSendBuff, RxGraceful, RxGracefulNotify, RxCall, Entry,
     Calls
<1>6. CASE \E t \in Pushers : \/ PushLock(t) \/ PushGrow(t) \/ PushStore(t)
                              \/ PushNotify(t) \/ SendMsg(t) \/ UnlockConns(t)
  <2>1. PICK t \in Pushers : \/ PushLock(t) \/ PushGrow(t) \/ PushStore(t)
                             \/ PushNotify(t) \/ SendMsg(t) \/ UnlockConns(t)
    BY <1>6
  <2>2. t \in Threads \ {"accept"}
    BY <1>0
  <2>3. AfterPush(t) \in Labels \ {"unspawned"}
    BY DEF AfterPush
  <2>4. PushNotify(t) => SpawnInv'
    BY <1>4, <2>2, <2>3 DEF PushNotify
  <2>5. QED
    BY <1>4, <2>1, <2>2, <2>4
       DEF PushLock, PushGrow, PushStore, SendMsg, UnlockConns
<1>7. CASE \E s \in Senders : SenderCalls(s)
  BY <1>0, <1>4, <1>7 DEF SenderCalls
<1>8. CASE \/ TxWaitReady \/ TxLoop \/ TxRelock \/ TxSpuriousWakeup \/ TxLock
           \/ TxPop \/ TxCommit \/ TxWrite \/ TxRoom \/ TxStray \/ TxSent
           \/ TxWriteError \/ TxStrayEnds \/ TxDrained \/ TxCheckGraceful
  BY <1>0, <1>4, <1>8 DEF TxWaitReady, TxLoop, TxRelock, TxSpuriousWakeup,
     TxLock, TxPop, TxCommit, TxWrite, TxRoom, TxStray, TxSent, TxWriteError,
     TxStrayEnds, TxDrained, TxCheckGraceful, WriteFailed, AfterWriteError
<1>9. CASE \/ \E t \in {"tx", "gc"} : TerminateKill(t)
           \/ \E t \in {"tx", "gc"} : TerminateDestroy(t)
           \/ \E t \in {"tx", "gc"} : TerminateNotify(t)
  <2>1. \A t \in {"tx", "gc"} :
          /\ t \in Threads \ {"accept"}
          /\ AfterTerminate(t) \in Labels \ {"unspawned"}
    BY <1>0 DEF AfterTerminate
  <2>2. QED
    BY <1>4, <1>9, <2>1 DEF TerminateKill, TerminateDestroy, TerminateNotify
<1>10. CASE GcWake \/ GcCollect \/ GcSkip \/ GcJoinRx \/ GcJoinTx \/ EndPass
  BY <1>0, <1>4, <1>10
     DEF GcWake, GcCollect, GcSkip, GcJoinRx, GcJoinTx, EndPass
<1>11. QED
  BY <1>1, <1>2, <1>3, <1>5, <1>6, <1>7, <1>8, <1>9, <1>10, NextCases

\* While gc joins, nobody holds the mutex of the queue for long: the senders
\* are out of push_payload, and rx holds it only where it goes on.
LEMMA QueueIsFree ==
  ASSUME SafetyInv, pc["gc"] \in {"join_rx", "join_tx"},
         pc["rx"] \notin {"grow", "store"}
  PROVE  m_tx_queue_m = "none"
<1>1. m_conns_m = "gc"
  BY DEF SafetyInv, LockInv, GcSection, ShutdownSection
<1>2. ASSUME NEW s \in Senders PROVE m_tx_queue_m # s
  <2>1. pc[s] \in {"grow", "store"} => m_conns_m = s
    BY DEF SafetyInv, LockInv, SendSection
  <2>2. QED
    BY <1>1, <2>1, SendersAssumption DEF SafetyInv, LockInv, Pushers
<1>3. m_tx_queue_m # "rx"
  BY DEF SafetyInv, LockInv, Pushers
<1>4. m_tx_queue_m \in Pushers \cup {"none"}
  BY DEF SafetyInv, TypeInv, TypeOK
<1>5. QED
  BY <1>2, <1>3, <1>4 DEF Pushers

\* For any number of senders: gc is held up in its joins by nothing but an rx
\* thread that wants m_conns_m, a tx thread that nobody will notify or whose
\* client does not read, and a thread that uses another client's descriptor.
THEOREM CollectorJoins == Spec => []CollectorHeldUp
<1>1. Init => SpawnInv
  BY DEF Init, SpawnInv, Threads, Pushers
<1>2. SafetyInv /\ SpawnInv => CollectorHeldUp
  <2> SUFFICES ASSUME SafetyInv, SpawnInv,
                      pc["gc"] \in {"join_rx", "join_tx"}
               PROVE  CollectorHeldUp
    BY DEF CollectorHeldUp
  <2>1. /\ m_is_killed /\ (pc["gc"] = "join_tx" => pc["rx"] = "done")
        /\ pc["accept"] # "construct"
    BY DEF SafetyInv, GcInv, ShutdownSection
  <2>2. pc["rx"] # "unspawned" /\ pc["tx"] # "unspawned"
    BY <2>1 DEF SpawnInv
  <2>3. sock = "closed" \/ pc["tx"] = "destroy"
    BY <2>1 DEF SafetyInv, CloseInv
  <2>4. pc["rx"] \notin {"grow", "store"} => m_tx_queue_m = "none"
    BY QueueIsFree
  <2>5. RxBlocked => \/ pc["rx"] \in {"lock_conns", "astray"}
                     \/ pc["tx"] = "destroy"
    BY <2>1, <2>2, <2>3, <2>4 DEF RxBlocked
  <2>6. pc["gc"] = "join_tx" /\ TxBlocked =>
          pc["tx"] \in {"waiting", "blocked", "astray"}
    BY <2>1, <2>2, <2>4 DEF TxBlocked
  <2>7. QED
    BY <2>5, <2>6 DEF CollectorHeldUp
<1>3. SafetyInv /\ SpawnInv /\ [Next]_vars => SpawnInv'
  BY SpawnStep DEF SafetyInv
<1>4. QED
  BY <1>1, <1>2, <1>3, SafetyInvariant, PTL DEF Spec

-----------------------------------------------------------------------------
\* The queue, until a push and a pop overlap.
LEMMA QueueInit == Init => QueueInv
<1> SUFFICES ASSUME Init PROVE QueueInv
  OBVIOUS
<1>1. /\ pc["tx"] = "unspawned"
      /\ \A t \in Pushers : pc[t] \in {"unspawned", "idle"}
  BY SendersAssumption DEF Init, Threads, Pushers
<1>2. Len(sent) = 0 /\ tail = 0 /\ head = 0 /\ size = 0
  BY DEF Init
<1>3. m_tx_queue_m = "none" /\ ~tx_terminated
  BY DEF Init
<1>4. QED
  BY <1>1, <1>2, <1>3 DEF QueueInv

LEMMA QueueStep ==
  SafetyInv /\ QueueInv /\ [Next]_vars => QueueInv'
<1> SUFFICES ASSUME SafetyInv, QueueInv, [Next]_vars, ~overlapped'
             PROVE  QueueInv'
  BY DEF QueueInv
<1>1. /\ pc \in [Threads -> Labels]
      /\ m_tx_queue_m \in Pushers \cup {"none"}
      /\ head \in Nat /\ tail \in Nat /\ size \in Nat /\ cap \in Nat
      /\ loaded \in [Pushers \cup {"tx"} -> Nat]
      /\ tx_terminated \in BOOLEAN /\ sent \in Seq(Nat) /\ tx_item \in Nat
      /\ pc["accept"] = "construct" =>
           pc["rx"] = "unspawned" /\ pc["tx"] = "unspawned"
      /\ pc["tx"] = "commit" => loaded["tx"] > 0
      /\ \A t \in Pushers : pc[t] \in {"grow", "store"} <=> m_tx_queue_m = t
      /\ pc["gc"] \in GcLabels
      /\ \A t \in {"tx", "gc"} : pc[t] = "destroy" => sock = "open"
      /\ ~(pc["tx"] = "destroy" /\ pc["gc"] = "destroy")
      /\ pc["tx"] = "astray" => sock = "closed"
      /\ pc["accept"] = "construct" =>
           \A s \in Senders : pc[s] \in {"idle", "lock_conns", "unlock_conns"}
  BY DEF SafetyInv, TypeInv, TypeOK, LockInv, CloseInv, GcInv
<1> USE <1>1, SendersAssumption
    DEF QueueInv, Threads, Pushers, GcLabels, Goto, flags, pool, queue,
        txvars, net, budget, hist
<1>2. CASE AcceptConstruct
  <2>1. /\ pc'["tx"] = "wait_ready" /\ head' = head + 1 /\ size' = size + 1
        /\ \A t \in Pushers : t # "rx" => pc'[t] = pc[t]
        /\ pc'["rx"] = "wait_ready" /\ pc["tx"] = "unspawned"
    BY <1>2 DEF AcceptConstruct
  <2>2. ~overlapped /\ m_tx_queue_m' = m_tx_queue_m
    BY <1>2 DEF AcceptConstruct
  <2>3. \A t \in Pushers : pc'[t] \notin {"grow", "store"}
    BY <1>2, <2>1 DEF AcceptConstruct
  <2>4. QED
    BY <1>2, <2>1, <2>2, <2>3 DEF AcceptConstruct
<1>3. CASE AcceptSetReady \/ AcceptInsert \/ AcceptStop \/ AcceptJoinGc
  BY <1>3 DEF AcceptSetReady, AcceptInsert, AcceptStop, AcceptJoinGc
<1>4. CASE ClientClose \/ UNCHANGED vars
  BY <1>4 DEF ClientClose, vars
<1>5. CASE RxWaitReady \/ RxLoop \/ RxStray
  BY <1>5 DEF RxWaitReady, RxLoop, RxStray
<1>6. CASE RxRead \/ RxReadError \/ RxStrayEnds
  BY <1>6 DEF RxRead, RxReadError, RxStrayEnds, ReadyAfterReadError
<1>7. CASE RxSendBuff \/ RxGraceful \/ RxGracefulNotify
  <2>1. CASE RxSendBuff
    BY <2>1 DEF RxSendBuff
  <2>2. CASE RxGraceful
    BY <2>2 DEF RxGraceful
  <2>3. CASE RxGracefulNotify
    BY <2>3 DEF RxGracefulNotify, GotoNotifying
  <2>4. QED
    BY <1>7, <2>1, <2>2, <2>3
<1>8. CASE \E call \in Calls : RxCall(call)
  BY <1>8 DEF RxCall, Entry
<1>9. CASE \E t \in Pushers : PushLock(t)
  <2>1. PICK t \in Pushers : PushLock(t)
    BY <1>9
  <2>2. ~overlapped /\ pc["tx"] # "commit" /\ m_tx_queue_m = "none"
    BY <2>1 DEF PushLock, Popping
  <2>3. head = tail + size
    BY <2>2
  <2>4. /\ \A u \in Threads \ {t} : pc'[u] = pc[u]
        /\ m_tx_queue_m' = t /\ pc'["tx"] = pc["tx"]
    BY <2>1 DEF PushLock
  <2>5. \A u \in Pushers \ {t} : pc'[u] \notin {"grow", "store"}
    BY <2>2, <2>4
  <2>6. /\ pc'[t] = "grow" => head' = tail + size
        /\ pc'[t] = "store" => head' = tail + size + 1 /\ loaded'[t] = size
        /\ head' >= head
    BY <2>1, <2>3 DEF PushLock
  <2>7. QED
    BY <2>1, <2>2, <2>3, <2>4, <2>5, <2>6 DEF PushLock
<1>10. CASE \E t \in Pushers : PushGrow(t)
  BY <1>10 DEF PushGrow
<1>11. CASE \E t \in Pushers : PushNoMemory(t)
  BY <1>11 DEF PushNoMemory
<1>12. CASE \E t \in Pushers : PushStore(t)
  <2>1. PICK t \in Pushers : PushStore(t)
    BY <1>12
  <2>2. /\ ~overlapped /\ pc["tx"] # "commit" /\ m_tx_queue_m = t
        /\ head = tail + size + 1 /\ size' = size + 1
    BY <2>1 DEF PushStore, Incremented
  <2>3. /\ \A u \in Threads \ {t} : pc'[u] = pc[u]
        /\ m_tx_queue_m' = "none" /\ pc'["tx"] = pc["tx"]
        /\ pc'[t] = "notify"
    BY <2>1 DEF PushStore
  <2>4. \A u \in Pushers : pc'[u] \notin {"grow", "store"}
    BY <2>2, <2>3
  <2>5. QED
    BY <2>1, <2>2, <2>3, <2>4 DEF PushStore
<1>13. CASE \E t \in Pushers : PushNotify(t)
  BY <1>13 DEF PushNotify, AfterPush, GotoNotifying
<1>14. CASE \E t \in Pushers : SendMsg(t)
  BY <1>14 DEF SendMsg
<1>15. CASE \E t \in Pushers : UnlockConns(t)
  BY <1>15 DEF UnlockConns
<1>16. CASE \E s \in Senders : SenderCalls(s)
  BY <1>16 DEF SenderCalls
<1>17. CASE TxWaitReady \/ TxLoop \/ TxRelock \/ TxSpuriousWakeup
  BY <1>17 DEF TxWaitReady, TxLoop, TxRelock, TxSpuriousWakeup
<1>18. CASE TxLock
  BY <1>18 DEF TxLock
<1>19. CASE TxPop
  <2>1. ~overlapped /\ ~Pushing
    BY <1>19 DEF TxPop
  <2>2. m_tx_queue_m = "none" /\ head = tail + size /\ size > 0
    BY <1>19, <2>1 DEF Pushing, Growing, TxPop, QueueNonEmpty
  <2>3. /\ tx_item' = tail' /\ tail' = tail + 1 /\ tail' <= head
        /\ loaded'["tx"] = size /\ pc'["tx"] = "commit"
    BY <1>19, <2>2 DEF TxPop
  <2>4. \A t \in Pushers : pc'[t] \notin {"grow", "store"}
    BY <1>19, <2>2 DEF TxPop
  <2>5. sock = "open" => Len(sent) + 1 = tail'
    BY <1>19, <2>1, <2>3 DEF TxPop
  <2>6. QED
    BY <1>19, <2>2, <2>3, <2>4, <2>5 DEF TxPop
<1>20. CASE TxCommit
  <2>1. /\ ~overlapped /\ m_tx_queue_m \notin Pushers
        /\ \A t \in Pushers : pc'[t] = pc[t] /\ pc[t] \notin {"grow", "store"}
    BY <1>20 DEF TxCommit
  <2>2. m_tx_queue_m = "none" /\ size' = size - 1 /\ head = tail + size - 1
    BY <1>20, <2>1 DEF TxCommit, Decremented
  <2>3. QED
    BY <1>20, <2>1, <2>2 DEF TxCommit
<1>21. CASE TxWrite \/ TxRoom \/ TxStray
  BY <1>21 DEF TxWrite, TxRoom, TxStray
<1>22. CASE TxSent
  <2>1. Len(sent') = Len(sent) + 1
    BY <1>22 DEF TxSent
  <2>2. pc'["tx"] = "drain" /\ \A t \in Pushers : pc'[t] = pc[t]
    BY <1>22 DEF TxSent
  <2>3. QED
    BY <1>22, <2>1, <2>2 DEF TxSent
<1>23. CASE TxWriteError
  BY <1>23 DEF TxWriteError, WriteFailed, AfterWriteError, AfterDelete
<1>24. CASE TxStrayEnds
  BY <1>24 DEF TxStrayEnds, WriteFailed, AfterWriteError, AfterDelete
<1>25. CASE TxDrained \/ TxCheckGraceful
  BY <1>25 DEF TxDrained, TxCheckGraceful, QueueNonEmpty
<1>26. CASE \E t \in {"tx", "gc"} : TerminateKill(t)
  BY <1>26 DEF TerminateKill, FirstToKill, AfterTerminate
<1>27. CASE \E t \in {"tx", "gc"} : TerminateDestroy(t)
  BY <1>27 DEF TerminateDestroy
<1>28. CASE \E t \in {"tx", "gc"} : TerminateNotify(t)
  <2>1. PICK t \in {"tx", "gc"} : TerminateNotify(t)
    BY <1>28
  <2>2. \A u \in Pushers : pc'[u] = pc[u]
    BY <2>1 DEF TerminateNotify, GotoNotifying
  <2>3. CASE t = "gc"
    <3>1. pc'["tx"] = IF pc["tx"] = "waiting" THEN "relock" ELSE pc["tx"]
      BY <2>1, <2>3 DEF TerminateNotify, GotoNotifying
    <3>2. QED
      BY <2>1, <2>2, <3>1 DEF TerminateNotify
  <2>4. CASE t = "tx"
    <3>1. /\ pc["tx"] = "kill_notify"
          /\ pc'["tx"] = IF tx_terminated THEN "done" ELSE "loop"
      BY <2>1, <2>4 DEF TerminateNotify, AfterTerminate, GotoNotifying
    <3>2. QED
      BY <2>1, <2>2, <3>1 DEF TerminateNotify
  <2>5. QED
    BY <2>1, <2>3, <2>4
<1>29. CASE GcWake
  BY <1>29 DEF GcWake
<1>30. CASE GcCollect \/ GcSkip
  BY <1>30 DEF GcCollect, GcSkip, Collectable
<1>31. CASE GcJoinRx
  BY <1>31 DEF GcJoinRx
<1>32. CASE GcJoinTx
  BY <1>32 DEF GcJoinTx, TxJoined
<1>33. CASE EndPass
  BY <1>33 DEF EndPass
<1>34. QED
  BY <1>2, <1>3, <1>4, <1>5, <1>6, <1>7, <1>8, <1>9, <1>10, <1>11, <1>12,
     <1>13, <1>14, <1>15, <1>16, <1>17, <1>18, <1>19, <1>20, <1>21, <1>22,
     <1>23, <1>24, <1>25, <1>26, <1>27, <1>28, <1>29, <1>30, <1>31, <1>32,
     <1>33, NextCases

\* Every step is a step of the Outbox, leaves it alone, or comes after a push
\* and a pop have overlapped.
LEMMA OutboxStep ==
  TypeInv /\ CloseInv /\ QueueInv /\ [Next]_vars =>
    [O!ONext \/ overlapped']_(O!ovars)
<1> SUFFICES ASSUME TypeInv, CloseInv, QueueInv, [Next]_vars, ~overlapped'
             PROVE  [O!ONext]_(O!ovars)
  OBVIOUS
<1>1. /\ head \in Nat /\ tail \in Nat /\ sent \in Seq(Nat)
      /\ pc \in [Threads -> Labels]
      /\ \A t \in {"tx", "gc"} : pc[t] = "destroy" => sock = "open"
      /\ pc["accept"] = "construct" => pc["tx"] = "unspawned"
      /\ ~overlapped /\ pc["tx"] = "enter" /\ sock = "open" =>
           Len(sent) + 1 = tail
      /\ ~overlapped /\ pc["tx"] \in {"enter", "sending"} =>
           tx_item = tail /\ tail <= head
      /\ ~overlapped /\ pc["tx"] = "sending" => Len(sent) + 1 = tail
      /\ pc["tx"] \in TxLabels /\ pc["gc"] \in GcLabels
  BY DEF TypeInv, TypeOK, CloseInv, QueueInv
<1> USE <1>1, SendersAssumption
    DEF O!ONext, O!ovars, O!Queue, O!Begin, O!Transmit, O!Fail, O!Close,
        Threads, Pushers, Goto, flags, pool, queue, txvars, net, budget, hist
<1>2. CASE AcceptConstruct
  BY <1>2 DEF AcceptConstruct
<1>3. CASE AcceptSetReady \/ AcceptInsert \/ AcceptStop \/ AcceptJoinGc
  BY <1>3 DEF AcceptSetReady, AcceptInsert, AcceptStop, AcceptJoinGc
<1>4. CASE ClientClose \/ UNCHANGED vars
  BY <1>4 DEF ClientClose, vars
<1>5. CASE RxWaitReady \/ RxLoop \/ RxStray
  BY <1>5 DEF RxWaitReady, RxLoop, RxStray
<1>6. CASE RxRead \/ RxReadError \/ RxStrayEnds
  BY <1>6 DEF RxRead, RxReadError, RxStrayEnds, ReadyAfterReadError
<1>7. CASE RxSendBuff \/ RxGraceful \/ RxGracefulNotify
  BY <1>7 DEF RxSendBuff, RxGraceful, RxGracefulNotify, GotoNotifying
<1>8. CASE \E call \in Calls : RxCall(call)
  BY <1>8 DEF RxCall, Entry
<1>9. CASE \E t \in Pushers : PushLock(t)
  BY <1>9 DEF PushLock, Popping
<1>10. CASE \E t \in Pushers : PushGrow(t)
  BY <1>10 DEF PushGrow
<1>11. CASE \E t \in Pushers : PushNoMemory(t)
  BY <1>11 DEF PushNoMemory
<1>12. CASE \E t \in Pushers : PushStore(t)
  BY <1>12 DEF PushStore, Incremented
<1>13. CASE \E t \in Pushers : PushNotify(t)
  BY <1>13 DEF PushNotify, AfterPush, GotoNotifying
<1>14. CASE \E t \in Pushers : SendMsg(t)
  BY <1>14 DEF SendMsg
<1>15. CASE \E t \in Pushers : UnlockConns(t)
  BY <1>15 DEF UnlockConns
<1>16. CASE \E s \in Senders : SenderCalls(s)
  BY <1>16 DEF SenderCalls
<1>17. CASE TxWaitReady \/ TxLoop \/ TxRelock \/ TxSpuriousWakeup
  BY <1>17 DEF TxWaitReady, TxLoop, TxRelock, TxSpuriousWakeup
<1>18. CASE TxLock
  BY <1>18 DEF TxLock
<1>19. CASE TxPop
  BY <1>19 DEF TxPop, QueueNonEmpty
<1>20. CASE TxCommit
  BY <1>20 DEF TxCommit, Decremented
<1>21. CASE TxWrite \/ TxRoom \/ TxStray
  BY <1>21 DEF TxWrite, TxRoom, TxStray
<1>22. CASE TxSent
  BY <1>22 DEF TxSent, AfterDelete
<1>23. CASE TxWriteError
  BY <1>23 DEF TxWriteError, WriteFailed, AfterWriteError, AfterDelete
<1>24. CASE TxStrayEnds
  BY <1>24 DEF TxStrayEnds, WriteFailed, AfterWriteError, AfterDelete
<1>25. CASE TxDrained \/ TxCheckGraceful
  BY <1>25 DEF TxDrained, TxCheckGraceful, QueueNonEmpty
<1>26. CASE \E t \in {"tx", "gc"} : TerminateKill(t)
  BY <1>26 DEF TerminateKill, FirstToKill, AfterTerminate
<1>27. CASE \E t \in {"tx", "gc"} : TerminateDestroy(t)
  BY <1>27 DEF TerminateDestroy
<1>28. CASE \E t \in {"tx", "gc"} : TerminateNotify(t)
  BY <1>28 DEF TerminateNotify, AfterTerminate, GotoNotifying
<1>29. CASE GcWake
  BY <1>29 DEF GcWake
<1>30. CASE GcCollect \/ GcSkip
  BY <1>30 DEF GcCollect, GcSkip, Collectable
<1>31. CASE GcJoinRx
  BY <1>31 DEF GcJoinRx
<1>32. CASE GcJoinTx
  BY <1>32 DEF GcJoinTx, TxJoined
<1>33. CASE EndPass
  BY <1>33 DEF EndPass
<1>34. QED
  BY <1>2, <1>3, <1>4, <1>5, <1>6, <1>7, <1>8, <1>9, <1>10, <1>11, <1>12,
     <1>13, <1>14, <1>15, <1>16, <1>17, <1>18, <1>19, <1>20, <1>21, <1>22,
     <1>23, <1>24, <1>25, <1>26, <1>27, <1>28, <1>29, <1>30, <1>31, <1>32,
     <1>33, NextCases

\* The connection implements the Outbox until a push and a pop overlap:
\* whatever the senders, rx, tx and gc interleave and however often the queue
\* grows, payloads reach the socket in the order push_payload() queued them,
\* none skipped, none twice, and none begins after terminate() has closed it.
THEOREM ImplementsOutbox == Spec => OutboxSpec
<1>1. Init => QueueInv /\ O!OInit
  <2>1. Init => O!OInit
    BY DEF Init, O!OInit, Threads, Pushers
  <2>2. QED
    BY <2>1, QueueInit
<1>2. SafetyInv /\ QueueInv /\ [Next]_vars => QueueInv'
  BY QueueStep
<1>3. SafetyInv /\ QueueInv /\ [Next]_vars =>
        [O!ONext \/ overlapped']_(O!ovars)
  BY OutboxStep DEF SafetyInv
<1>4. QED
  BY <1>1, <1>2, <1>3, SafetyInvariant, PTL DEF Spec, OutboxSpec
=============================================================================
